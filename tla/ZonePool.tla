------------------------------ MODULE ZonePool ------------------------------
(***************************************************************************)
(* The pool lifecycle of an epoch zone heap: EpochZoneHeap::Create,       *)
(* Open, Close and Destroy in src/src/allocator/epoch_zone_heap.cc.        *)
(*                                                                         *)
(* Create builds a pool of two shelves, the header shelf (the delayed-free *)
(* lists) and the zone shelf (a shelf heap whose header lives in the       *)
(* header shelf); Destroy removes them and the pool.  Every call into Pool,*)
(* ShelfRegion and the shelf heap can fail, and the code returns at once   *)
(* with what it has done so far.  The fallible calls in Failures fail or   *)
(* succeed nondeterministically; the others always succeed.  With Crashes *)
(* the process may also die between any two steps and be restarted: what  *)
(* is persistent (the pool, its shelves, the zone heap's magic) stays,     *)
(* what is process-local (the pool_ handle, region_) is gone.              *)
(*                                                                         *)
(* Pool and ShelfRegion are not in the repository: a failed Pool::Create  *)
(* or AddShelf is taken to leave nothing behind, a failed Close to leave   *)
(* the handle open.  The zone heap's Open(header, size) (rmb_) is taken to *)
(* fail on a shelf that holds no formatted heap.  Builds keep assert(): a  *)
(* failed one, like a NULL dereference, ends the process.  Open's wait for *)
(* the cleaner is the handshake EpochZoneHeap models; here it is one step. *)
(***************************************************************************)
EXTENDS Naturals

CONSTANTS
    Failures,     \* the fallible calls that may fail
    Crashes       \* whether the process may die between steps

FallibleCalls ==
    {"pool_create", "pool_open", "add_header", "header_path", "region_open",
     "region_map", "add_zone", "unmap", "region_close", "pool_close",
     "remove_zone", "remove_header", "pool_destroy", "rmb_open", "rmb_close"}

ASSUME Failures \subseteq FallibleCalls /\ Crashes \in BOOLEAN

\* kHeaderIdx and kZoneIdx, the two shelf slots of the pool.
Header == "header"
Zone == "zone"

\* The codes Create and Destroy return.
CreateCodes == {"NO_ERROR", "POOL_FOUND", "HEAP_CREATE_FAILED"}
DestroyCodes == {"NO_ERROR", "POOL_NOT_FOUND", "HEAP_DESTROY_FAILED"}
OpenCodes == {"NO_ERROR", "HEAP_OPEN_FAILED"}
CloseCodes == {"NO_ERROR", "HEAP_CLOSE_FAILED"}

VARIABLES
    pool,         \* persistent: the pool exists (pool_.Exist())
    shelves,      \* persistent: the shelves added to the pool
    formatted,    \* persistent: the zone shelf holds a heap with its magic
    pool_open,    \* process: the pool_ handle is open
    region,       \* process: region_ is "none", "open" or "mapped"
    zone_ok,      \* process: Create's AddShelf(kZoneIdx) succeeded
    is_open,      \* process: is_open_
    rmb,          \* process: rmb_ is "null", "closed" (not opened) or "open"
    cleaner,      \* process: the cleaner thread runs
    pc,           \* process: "idle", a step of a call, or "aborted"
    ret           \* the last call and what it returned ("none" after a crash)

vars == <<pool, shelves, formatted, pool_open, region, zone_ok, is_open, rmb, cleaner, pc, ret>>

Pcs == {"idle", "aborted",
        "c_pool", "c_open", "c_header", "c_region", "c_zone", "c_release", "c_close",
        "d_open", "d_zone", "d_header", "d_close", "d_destroy",
        "o_header", "o_zone", "k_region", "k_pool"}

\* The outcomes call c can have: success, and failure when c may fail.
Outcomes(c) == IF c \in Failures THEN BOOLEAN ELSE {TRUE}

\* A call ends: control returns to the caller with code.
Return(call, code) ==
    /\ pc' = "idle"
    /\ ret' = [call |-> call, code |-> code]

\* (void)pool_.Close(false): a failed close leaves the handle open.
ClosePool == \E ok \in Outcomes("pool_close") : pool_open' = ~ok

TypeOK ==
    /\ pool \in BOOLEAN
    /\ shelves \subseteq {Header, Zone}
    /\ formatted \in BOOLEAN
    /\ pool_open \in BOOLEAN
    /\ region \in {"none", "open", "mapped"}
    /\ zone_ok \in BOOLEAN
    /\ is_open \in BOOLEAN
    /\ rmb \in {"null", "closed", "open"}
    /\ cleaner \in BOOLEAN
    /\ pc \in Pcs
    /\ ret \in [call : {"none"}, code : {"NO_ERROR"}]
              \union [call : {"create"}, code : CreateCodes]
              \union [call : {"destroy"}, code : DestroyCodes]
              \union [call : {"open"}, code : OpenCodes]
              \union [call : {"close"}, code : CloseCodes]

\* No pool yet; the process has not called anything.
Init ==
    /\ pool = FALSE
    /\ shelves = {}
    /\ formatted = FALSE
    /\ pool_open = FALSE
    /\ region = "none"
    /\ zone_ok = FALSE
    /\ is_open = FALSE
    /\ rmb = "null"
    /\ cleaner = FALSE
    /\ pc = "idle"
    /\ ret = [call |-> "none", code |-> "NO_ERROR"]

-----------------------------------------------------------------------------
(* EpochZoneHeap::Create *)

\* if (pool_.Exist() == true) return POOL_FOUND;  (Callers create and
\* destroy heaps they do not have open.)
CreateExist ==
    /\ pc = "idle" /\ ~is_open
    /\ IF pool THEN Return("create", "POOL_FOUND")
               ELSE pc' = "c_pool" /\ UNCHANGED ret
    /\ UNCHANGED <<pool, shelves, formatted, pool_open, region, zone_ok, is_open, rmb, cleaner>>

\* ret = pool_.Create(shelf_size)
CreatePool ==
    /\ pc = "c_pool"
    /\ \E ok \in Outcomes("pool_create") :
          /\ pool' = ok
          /\ IF ok THEN pc' = "c_open" /\ UNCHANGED ret
                   ELSE Return("create", "HEAP_CREATE_FAILED")
    /\ UNCHANGED <<shelves, formatted, pool_open, region, zone_ok, is_open, rmb, cleaner>>

\* ret = pool_.Open(false)
CreateOpen ==
    /\ pc = "c_open"
    /\ \E ok \in Outcomes("pool_open") :
          /\ pool_open' = ok
          /\ IF ok THEN pc' = "c_header" /\ UNCHANGED ret
                   ELSE Return("create", "HEAP_CREATE_FAILED")
    /\ UNCHANGED <<pool, shelves, formatted, region, zone_ok, is_open, rmb, cleaner>>

\* ret = pool_.AddShelf(kHeaderIdx, ...); on failure close the pool.
CreateAddHeader ==
    /\ pc = "c_header"
    /\ \E ok \in Outcomes("add_header") :
          IF ok THEN /\ shelves' = shelves \union {Header}
                     /\ pc' = "c_region"
                     /\ UNCHANGED <<pool_open, ret>>
                ELSE /\ ClosePool
                     /\ Return("create", "HEAP_CREATE_FAILED")
                     /\ UNCHANGED shelves
    /\ UNCHANGED <<pool, formatted, region, zone_ok, is_open, rmb, cleaner>>

\* GetShelfPath(kHeaderIdx), region_->Open, region_->Map, then the lists
\* are zeroed and persisted; each failure returns at once, leaving pool_
\* open and region_ as far as it got.
CreateMapHeader ==
    /\ pc = "c_region"
    /\ \/ /\ region' = "mapped"
          /\ pc' = "c_zone"
          /\ UNCHANGED ret
       \/ /\ {"header_path", "region_open"} \cap Failures /= {}
          /\ Return("create", "HEAP_CREATE_FAILED")
          /\ UNCHANGED region
       \/ /\ "region_map" \in Failures
          /\ region' = "open"
          /\ Return("create", "HEAP_CREATE_FAILED")
    /\ UNCHANGED <<pool, shelves, formatted, pool_open, zone_ok, is_open, rmb, cleaner>>

\* ret = pool_.AddShelf(kZoneIdx, ...): the callback formats the shelf
\* heap.  Success and failure both go on to unmap and close the region.
CreateAddZone ==
    /\ pc = "c_zone"
    /\ \E ok \in Outcomes("add_zone") :
          /\ zone_ok' = ok
          /\ shelves' = IF ok THEN shelves \union {Zone} ELSE shelves
          /\ formatted' = (ok \/ formatted)
    /\ pc' = "c_release"
    /\ UNCHANGED <<pool, pool_open, region, ret, is_open, rmb, cleaner>>

\* region_->Unmap, region_->Close, delete region_; a failure of either
\* returns at once.
CreateRelease ==
    /\ pc = "c_release"
    /\ \/ /\ region' = "none"
          /\ pc' = "c_close"
          /\ UNCHANGED ret
       \/ /\ "unmap" \in Failures
          /\ Return("create", "HEAP_CREATE_FAILED")
          /\ UNCHANGED region
       \/ /\ "region_close" \in Failures
          /\ region' = "open"
          /\ Return("create", "HEAP_CREATE_FAILED")
    /\ UNCHANGED <<pool, shelves, formatted, pool_open, zone_ok, is_open, rmb, cleaner>>

\* Mutant of CreateClose: the result of AddShelf(kZoneIdx) is lost.
CreateCloseIgnoreZone ==
    /\ pc = "c_close"
    /\ \E ok \in Outcomes("pool_close") :
          /\ pool_open' = ~ok
          /\ Return("create", IF ok THEN "NO_ERROR" ELSE "HEAP_CREATE_FAILED")
    /\ UNCHANGED <<pool, shelves, formatted, region, zone_ok, is_open, rmb, cleaner>>

\* pool_.Close(false); Create fails if AddShelf(kZoneIdx) or the close did.
CreateClose ==
    /\ pc = "c_close"
    /\ \E ok \in Outcomes("pool_close") :
          /\ pool_open' = ~ok
          /\ Return("create", IF ok /\ zone_ok THEN "NO_ERROR" ELSE "HEAP_CREATE_FAILED")
    /\ UNCHANGED <<pool, shelves, formatted, region, zone_ok, is_open, rmb, cleaner>>

-----------------------------------------------------------------------------
(* EpochZoneHeap::Destroy *)

\* if (pool_.Exist() == false) return POOL_NOT_FOUND;
DestroyExist ==
    /\ pc = "idle" /\ ~is_open
    /\ IF ~pool THEN Return("destroy", "POOL_NOT_FOUND")
                ELSE pc' = "d_open" /\ UNCHANGED ret
    /\ UNCHANGED <<pool, shelves, formatted, pool_open, region, zone_ok, is_open, rmb, cleaner>>

\* ret = pool_.Open(false); pool_.Recover() only logs what it finds.
DestroyOpen ==
    /\ pc = "d_open"
    /\ \E ok \in Outcomes("pool_open") :
          /\ pool_open' = ok
          /\ IF ok THEN pc' = "d_zone" /\ UNCHANGED ret
                   ELSE Return("destroy", "HEAP_DESTROY_FAILED")
    /\ UNCHANGED <<pool, shelves, formatted, region, zone_ok, is_open, rmb, cleaner>>

\* Mutant of RemoveShelf: a failed RemoveShelf is not checked.
RemoveShelfIgnoreFailure(s, call, next) ==
    IF s \notin shelves
      THEN /\ pc' = "aborted"
           /\ UNCHANGED <<shelves, pool_open, ret>>
      ELSE \E ok \in Outcomes(call) :
              /\ shelves' = IF ok THEN shelves \ {s} ELSE shelves
              /\ pc' = next
              /\ UNCHANGED <<pool_open, ret>>

\* Removal of shelf s: assert(GetShelfPath(s) == NO_ERROR) ends the process
\* when s is missing; otherwise the shelf's contents are destroyed and
\* pool_.RemoveShelf(s) is called, whose failure closes the pool and
\* returns.
RemoveShelf(s, call, next) ==
    IF s \notin shelves
      THEN /\ pc' = "aborted"
           /\ UNCHANGED <<shelves, pool_open, ret>>
      ELSE \E ok \in Outcomes(call) :
              IF ok THEN /\ shelves' = shelves \ {s}
                         /\ pc' = next
                         /\ UNCHANGED <<pool_open, ret>>
                    ELSE /\ ClosePool
                         /\ Return("destroy", "HEAP_DESTROY_FAILED")
                         /\ UNCHANGED shelves

\* GetShelfPath(kZoneIdx); shelf_heap.Destroy(); RemoveShelf(kZoneIdx)
DestroyZone ==
    /\ pc = "d_zone"
    /\ formatted' = (formatted /\ Zone \notin shelves)
    /\ RemoveShelf(Zone, "remove_zone", "d_header")
    /\ UNCHANGED <<pool, region, zone_ok, is_open, rmb, cleaner>>

\* GetShelfPath(kHeaderIdx); shelf_region.Destroy(); RemoveShelf(kHeaderIdx)
DestroyHeader ==
    /\ pc = "d_header"
    /\ RemoveShelf(Header, "remove_header", "d_close")
    /\ UNCHANGED <<pool, formatted, region, zone_ok, is_open, rmb, cleaner>>

\* ret = pool_.Close(false)
DestroyClose ==
    /\ pc = "d_close"
    /\ \E ok \in Outcomes("pool_close") :
          /\ pool_open' = ~ok
          /\ IF ok THEN pc' = "d_destroy" /\ UNCHANGED ret
                   ELSE Return("destroy", "HEAP_DESTROY_FAILED")
    /\ UNCHANGED <<pool, shelves, formatted, region, zone_ok, is_open, rmb, cleaner>>

\* Mutant of DestroyPool: the failure code of Create is returned.
DestroyPoolWrongCode ==
    /\ pc = "d_destroy"
    /\ \E ok \in Outcomes("pool_destroy") :
          /\ pool' = ~ok
          /\ Return("destroy", IF ok THEN "NO_ERROR" ELSE "HEAP_CREATE_FAILED")
    /\ UNCHANGED <<shelves, formatted, pool_open, region, zone_ok, is_open, rmb, cleaner>>

\* ret = pool_.Destroy()
DestroyPool ==
    /\ pc = "d_destroy"
    /\ \E ok \in Outcomes("pool_destroy") :
          /\ pool' = ~ok
          /\ Return("destroy", IF ok THEN "NO_ERROR" ELSE "HEAP_DESTROY_FAILED")
    /\ UNCHANGED <<shelves, formatted, pool_open, region, zone_ok, is_open, rmb, cleaner>>

-----------------------------------------------------------------------------
(* EpochZoneHeap::Open *)

\* assert(IsOpen() == false); ret = pool_.Open(false), which fails on a
\* missing pool.  A failed Open leaves a handle it already had open.
OpenPool ==
    /\ pc = "idle" /\ ~is_open
    /\ \E ok \in Outcomes("pool_open") :
          IF ok /\ pool THEN pool_open' = TRUE /\ pc' = "o_header" /\ UNCHANGED ret
                        ELSE Return("open", "HEAP_OPEN_FAILED") /\ UNCHANGED pool_open
    /\ UNCHANGED <<pool, shelves, formatted, region, zone_ok, is_open, rmb, cleaner>>

\* GetShelfPath(kHeaderIdx) (no such shelf: fail), region_ = new
\* ShelfRegion, region_->Open, region_->Map; each failure returns
\* HEAP_OPEN_FAILED, leaving pool_ open and region_ as far as it got.
OpenRegion ==
    /\ pc = "o_header"
    /\ \/ /\ Header \in shelves
          /\ region' = "mapped"
          /\ pc' = "o_zone"
          /\ UNCHANGED ret
       \/ /\ Header \notin shelves \/ {"header_path", "region_open"} \cap Failures /= {}
          /\ Return("open", "HEAP_OPEN_FAILED")
          /\ UNCHANGED region
       \/ /\ Header \in shelves /\ "region_map" \in Failures
          /\ region' = "open"
          /\ Return("open", "HEAP_OPEN_FAILED")
    /\ UNCHANGED <<pool, shelves, formatted, pool_open, zone_ok, is_open, rmb, cleaner>>

\* GetShelfPath(kZoneIdx); rmb_ = new ShelfHeap; rmb_->Open(header_,
\* region_size_), which fails on an unformatted heap; then is_open_ =
\* true, StartWorker() (it returns 0) and the wait for the cleaner.
OpenRmb ==
    /\ pc = "o_zone"
    /\ \/ /\ Zone \notin shelves
          /\ Return("open", "HEAP_OPEN_FAILED")
          /\ UNCHANGED <<rmb, is_open, cleaner>>
       \/ /\ Zone \in shelves
          /\ ~formatted \/ "rmb_open" \in Failures
          /\ rmb' = "closed"
          /\ Return("open", "HEAP_OPEN_FAILED")
          /\ UNCHANGED <<is_open, cleaner>>
       \/ /\ Zone \in shelves /\ formatted
          /\ rmb' = "open"
          /\ is_open' = TRUE
          /\ cleaner' = TRUE
          /\ Return("open", "NO_ERROR")
    /\ UNCHANGED <<pool, shelves, formatted, pool_open, region, zone_ok>>

-----------------------------------------------------------------------------
(* EpochZoneHeap::Close *)

\* assert(IsOpen() == true); StopWorker() (it returns 0); ret =
\* rmb_->Close(), a failure returning HEAP_CLOSE_FAILED; delete rmb_;
\* rmb_ = NULL.  rmb_->Close() on a NULL rmb_ ends the process.
CloseRmb ==
    /\ pc = "idle" /\ is_open
    /\ cleaner' = FALSE
    /\ \/ /\ rmb = "null"
          /\ pc' = "aborted"
          /\ UNCHANGED <<rmb, ret>>
       \/ /\ rmb /= "null"
          /\ rmb' = "null"
          /\ pc' = "k_region"
          /\ UNCHANGED ret
       \/ /\ rmb /= "null" /\ "rmb_close" \in Failures
          /\ Return("close", "HEAP_CLOSE_FAILED")
          /\ UNCHANGED rmb
    /\ UNCHANGED <<pool, shelves, formatted, pool_open, region, zone_ok, is_open>>

\* region_->Unmap, region_->Close, delete region_; a failure of either
\* returns HEAP_CLOSE_FAILED at once.
CloseRegion ==
    /\ pc = "k_region"
    /\ \/ /\ region' = "none"
          /\ pc' = "k_pool"
          /\ UNCHANGED ret
       \/ /\ "unmap" \in Failures
          /\ Return("close", "HEAP_CLOSE_FAILED")
          /\ UNCHANGED region
       \/ /\ "region_close" \in Failures
          /\ region' = "open"
          /\ Return("close", "HEAP_CLOSE_FAILED")
    /\ UNCHANGED <<pool, shelves, formatted, pool_open, zone_ok, is_open, rmb, cleaner>>

\* ret = pool_.Close(false), a failure returning HEAP_CLOSE_FAILED; then
\* is_open_ = false.
CloseHeapPool ==
    /\ pc = "k_pool"
    /\ \E ok \in Outcomes("pool_close") :
          IF ok THEN pool_open' = FALSE /\ is_open' = FALSE /\ Return("close", "NO_ERROR")
                ELSE Return("close", "HEAP_CLOSE_FAILED") /\ UNCHANGED <<pool_open, is_open>>
    /\ UNCHANGED <<pool, shelves, formatted, region, zone_ok, rmb, cleaner>>

-----------------------------------------------------------------------------
(* The process dies and is started again. *)

\* The process dies in the middle of a call, or with the heap open; the
\* restarted process has no handles and no open heap, and the call it was
\* in returned nothing.
Crash ==
    /\ Crashes
    /\ pc /= "aborted"
    /\ pc /= "idle" \/ is_open
    /\ pc' = "idle"
    /\ pool_open' = FALSE
    /\ region' = "none"
    /\ is_open' = FALSE
    /\ rmb' = "null"
    /\ cleaner' = FALSE
    /\ ret' = [call |-> "none", code |-> "NO_ERROR"]
    /\ UNCHANGED <<pool, shelves, formatted, zone_ok>>

\* The process killed by a failed assert is started again.
Restart ==
    /\ pc = "aborted"
    /\ pc' = "idle"
    /\ pool_open' = FALSE
    /\ region' = "none"
    /\ is_open' = FALSE
    /\ rmb' = "null"
    /\ cleaner' = FALSE
    /\ ret' = [call |-> "none", code |-> "NO_ERROR"]
    /\ UNCHANGED <<pool, shelves, formatted, zone_ok>>

Next ==
    \/ CreateExist \/ CreatePool \/ CreateOpen \/ CreateAddHeader
    \/ CreateMapHeader \/ CreateAddZone \/ CreateRelease \/ CreateClose
    \/ DestroyExist \/ DestroyOpen \/ DestroyZone \/ DestroyHeader
    \/ DestroyClose \/ DestroyPool
    \/ OpenPool \/ OpenRegion \/ OpenRmb
    \/ CloseRmb \/ CloseRegion \/ CloseHeapPool
    \/ Crash \/ Restart

Spec == Init /\ [][Next]_vars

-----------------------------------------------------------------------------
(* Properties *)

\* A step in which a call returns to its caller.
Returns(call) == pc /= "idle" /\ pc' = "idle" /\ ret'.call = call

\* The pool Create reports NO_ERROR for is complete: both shelves are in
\* the pool and the zone shelf holds a formatted heap, whatever failures
\* and crashes came before (spec 3: "formats both ... then unmaps").
CreateSuccessComplete ==
    [][Returns("create") /\ ret'.code = "NO_ERROR" =>
         pool' /\ shelves' = {Header, Zone} /\ formatted']_vars

\* When Destroy reports NO_ERROR, the pool and both shelves are gone
\* (spec 4.4: "removes both shelves and the pool"), even when an earlier
\* Destroy failed half way.
DestroySuccessRemoves ==
    [][Returns("destroy") /\ ret'.code = "NO_ERROR" =>
         ~pool' /\ shelves' = {} /\ ~formatted']_vars

\* A failed call can be retried (spec 5: failures are "propagated as
\* HEAP_*_FAILED ...; caller retries"): no sequence of failed Create and
\* Destroy calls leads a later Destroy into its assert(GetShelfPath(...)
\* == NO_ERROR) on a missing shelf.
DestroyNeverAsserts == pc /= "aborted"

\* Every return from Create or Destroy, failed or not, and every failed
\* Open, has closed the pool_ handle and released region_.
HandlesReleasedOnReturn ==
    [][/\ pc \notin {"idle", "aborted"} /\ pc' = "idle"
       /\ \/ ret'.call \in {"create", "destroy"}
          \/ ret'.call = "open" /\ ret'.code /= "NO_ERROR"
       =>
         ~pool_open' /\ region' = "none"]_vars

\* Between calls, a heap that is open (is_open_) works: rmb_ is an open
\* shelf heap that Alloc, Free and a retried Close can use, and the
\* cleaner runs, so the blocks Free delays are reclaimed.  A Close that
\* failed after StopWorker or after delete rmb_ must not leave is_open_ set
\* without them.
IsOpenUsable == pc = "idle" /\ is_open => rmb = "open" /\ cleaner

=============================================================================
