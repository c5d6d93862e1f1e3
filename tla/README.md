# TLA+ models of the gull NVM heaps

This directory holds TLA+ specifications of the persistent-memory allocator in
`src/`, together with the TLC configurations that check them. Every
definition is translated from the source lines that `PROJECT.json` ("map")
names. The exceptions are marked `spec_modelled`: they stand for code the
repository calls but does not contain (EpochManagerImpl, ZoneEntryStack,
`fork()` in the caller, and `round_up`), and they follow `spec.md`.

## The system

| Part | Source | What it does | State |
|---|---|---|---|
| NvHeapLayout | `src/src/shelf_usage/shelf_heap.h` | A bump allocator laid out in a shared persistent shelf: magic, heap_size, next_free, then the data area. | `magic_num`, `heap_size`, `next_free`, and the data, in the CPU cache and in NVM |
| EpochManager | `src/src/epoch_manager.cc`, `src/include/nvmm/epoch_manager.h` | A singleton that forwards to EpochManagerImpl (not in the repository). Threads of all processes enter and exit critical regions; the manager reports the last quiescent epoch. `Start` creates the epoch shelf and `Reset` removes it. The instance opens the shelf when it is constructed; `ResetBeforeFork` and `ResetAfterFork` tear it down and rebuild it around `fork()`. | frontier epoch, reported epoch, each participant's entry epoch; per process the instance, `em` and the open epoch shelf |
| EpochZoneHeap | `src/src/allocator/epoch_zone_heap.cc` | A pool of two shelves: a header with `kListCnt` delayed-free stacks, and a zone heap. `Free(op, p)` defers the block to list `(e+3) % kListCnt`. A cleaner thread pops list `e % kListCnt` and frees the blocks. Each list is a lock-free ZoneEntryStack (not in the repository): a head word packing (index : tag), with each block's next index in the block's first word. The Free of every process pushes onto it and the cleaner of every process pops from it. | `is_open_`, the cleaner flags and thread, `global_list_`, the zone |
| ShelfFile | `src/src/shelf_mgmt/shelf_file.cc` | Create, open, truncate, close and destroy of a shelf file, with one `fd_` per object. Map and Unmap share one mapping per shelf among the threads of a process through ShelfManager's registry (not in the repository), under `ShelfManager::Lock`. | the file behind the path, each object's `fd_`, the registry entry, the live mappings |

How the parts interact:
- EpochZoneHeap allocates through a shelf heap whose bump cursor is an NvHeapLayout-style CAS loop.
- Free reads `reported_epoch()` of the EpochManager.
- The cleaner runs inside its own EpochOp and uses the reported epoch to choose the list it drains.
- Processes that share heaps fork after `ResetBeforeFork` and rebuild the epoch manager with `ResetAfterFork`; the static destructor tears it down at exit.
- Open and Close start and join the cleaner under `cleaner_mutex_` and `running_cv_`.
- The shelves of a pool are files that ShelfFile creates, opens, maps and removes. Several processes, and several threads of one process, act on the same file.

What makes the code hard to test:
- Concurrent CAS races on `next_free`.
- 64-bit wrap-around in the bound check.
- Crashes between stores and `pmem_persist`.
- The epoch arithmetic of delayed free against a moving epoch manager.
- The handshake between Open, Close and the cleaner thread.
- The check-then-act steps of ShelfFile (`Exist()`, then `creat` or `remove`) across processes.

## Modules

| Module | Models | Variables and actions |
|---|---|---|
| `BumpAlloc` | The promise of spec 4.1: allocation is one atomic bump of the cursor. | `next_free`, `blocks`; `Alloc(id, need)`. |
| `ShelfHeap` | `NvHeapLayout::Alloc` and `IsValid`. Offsets are `Width`-bit unsigned, so wrap-around is kept. | Per thread: `pc`, `req`, `expected`. Actions: `Call` (the call), `GetNextFree` (label `retry`: load and bound check), `CASNextFree` (CAS; success returns, failure goes to `retry`). `Abstract` instantiates `BumpAlloc` as the refinement mapping (identity on `next_free`, `blocks`). |
| `HeapLayout` | `NvHeapLayout::Create`, `Destroy`, `Verify` and a one-line `Alloc` against a cache/NVM split. | `mem` (cache) and `pm` (NVM). Each store is a step; `pmem_persist(addr, len)` is `Persist` of the lines it covers (`PersistedBy`); `Evict`/`EvictData` write a dirty line back at any time; `Crash` replaces `mem` by `pm`; `Verify` is the restart. |
| `EpochManager` | The epoch manager's observable behaviour. | `frontier`, `reported`, `entered`; `enter_critical`, `exit_critical`, `AdvanceFrontier` (only when `reported = frontier - 1`), `ReportEpoch`. |
| `EpochZoneHeap` | Extends `EpochManager`. Covers Open/StartWorker/the wait, Close/StopWorker/join, BackgroundWorker, `Alloc(op, size)` and `Free(op, ptr)`. | `opc` is the Open/Close caller; `wpc` is the cleaner's place in its loop (`sleep`, `check`, `enter`, `read`, `pop`, `free`, `exit`, `done`); `wb` is the block it popped and has not yet handed to `rmb_->Free`. `WorkerPop` (line 551, with the `offset==0` break) and `WorkerFree` (`rmb_->Free`, `i++`) are separate steps, as in the code. `upc` is each user thread. `Free` is two steps: read `e`, then `FreePush`. `Alloc(op, size)` uses `ZoneAlloc`, the `Alloc(size)` it calls. `Reach` is a read through `GlobalToLocal`, which asserts the heap is open. `published`, `held`, `freedAt` and `reclaimed` are the client's view and history. |
| `ZonePool` | `EpochZoneHeap::Create`, `Open`, `Close` and `Destroy`: every step, each call into Pool/ShelfRegion/the shelf heap able to fail (`Failures`), and the process able to die between steps (`Crashes`). | Persistent: `pool`, `shelves`, `formatted`. Process-local: `pool_open`, `region`, `zone_ok`, `is_open` (`is_open_`), `rmb` (`rmb_`: NULL, allocated, or open), `cleaner`, `pc`, `ret`. Open is `OpenPool`, `OpenRegion` and `OpenRmb`; Close is `CloseRmb` (StopWorker, `rmb_->Close`, `delete rmb_`), `CloseRegion` and `CloseHeapPool`. The cleaner handshake is one step here; `EpochZoneHeap` models it. One action per block of code between two failure checks; each failure exit returns with what the code leaves behind. `aborted` is a failed `assert`, followed by `Restart`. |
| `EpochLifecycle` | `EpochManager::Start`, `Reset`, `GetInstance` (the constructor), `ResetBeforeFork`, `ResetAfterFork` and the destructor, with `Impl_::Init` and `Impl_::Final`, across processes created by `fork()`. | File system: `path` (the epoch shelf's inode), `ninodes`. Per process: `status`, `inst` (the static instance exists), `em` (`null`, `live` or `freed`: `Final` does not reset the pointer), `shelf` (what `epoch_shelf_` has open), `attached`. `Fork` copies all of them to the child. `Exit` runs the destructor. `freedTwice` is a history flag. Callers keep the fork discipline of spec 5. |
| `AtomicStack` | What a delayed-free list promises (spec 4.5): a stack of block indices whose push and pop take effect at one instant. | `stack`, `held`; `Push(t, b)` of a block `t` holds, `Pop(t)`. |
| `ZoneEntryStack` | `ZoneEntryStack::push` and `pop` (spec 4.5), as Free (`epoch_zone_heap.cc:457`) and the cleaners (`:552`) call them. | `head` (index : tag), `next` (each block's first word). Per thread: `pc`, `blk`, `exp` (the head word read), `nxt`, `held`. push is `PushCall`, `PushRead`, `PushLink` (store next into the block) and `PushCAS`. pop is `PopCall`, `PopRead` (an empty stack returns 0), `PopNext` (load the block's first word) and `PopCAS`. A failed CAS goes back to the read. `Abstract` instantiates `AtomicStack` with `stack <- ChainFrom(head.idx, NBlocks)`, the chain of next words from the head. `ops` and `done` count calls made and returned. |
| `ShelfFile` | `ShelfFile::Create`, `Destroy`, `Truncate`, `Open`, `Close`, `Rename` and `Exist` for several objects built on one path. | File system: `inode` (what each path names), `ninodes`, `sized`. Per object: `path` (`path_`), `fd` (-1 or an inode), `pc`, `ret`. `Rename(p, q)` is `rename(2)`: it moves the file to `q`, replacing what `q` named, and on success sets `path_`. A method is split wherever it makes a system call after checking the file system: `CreateCheck`/`CreateCreat`/`CreateTruncate`, `DestroyCheck`/`DestroyRemove`, `OpenCheck`/`OpenOpen`. `creat` is O_TRUNC without O_EXCL, so it empties an existing file. An fd keeps naming its inode after the path is removed. `creates` counts, per inode, the Creates that returned `NO_ERROR` on it. |
| `ShelfRegistry` | `ShelfFile::Map(addr_hint, &addr)` and `Unmap(addr, unregister)`, with the inner `Map(..., true)` and `Unmap(addr, length, true)`. | `lock` (holder of ShelfManager's lock), `reg` (the registry entry), `mmaps`, `nmaps`. Per thread: `pc`, `held` (the address its caller got), `ret`. `aborted` is a failed assert. Actions: `MapLookup` (lock, lookup; a hit returns), `MapMmap` (mmap, fam register, RegisterShelf, unlock), `UnmapLock` (lookup, assert, UnregisterShelf or not, unlock), `UnmapMunmap` (munmap after the unlock). |

Each `MC*.tla` module fixes model values and small constant sets for TLC.

## Runs

| Run | Config | Expect | Shows |
|---|---|---|---|
| shelfheap_alloc | `MCShelfHeap.cfg` | pass | Two threads, sizes {1,2,3}, 4 calls, 4-bit offsets. `BlocksDisjoint`; `BumpAllocRefined` (the CAS loop implements `BumpAlloc`); `AllocReturns` under weak fairness of each thread's steps. |
| shelfheap_huge_size | `MCShelfHeap_huge.cfg` | violation | A size of 14 with 4-bit offsets (SIZE_MAX-like) wraps the cursor back into the heap, and two blocks overlap. |
| heaplayout_crash | `MCHeapLayout.cfg` | pass | Create, allocation, writes, evictions, Destroy, a second Create and a crash at any point. Until a Destroy begins, a restart that sees the magic sees a formatted header (`CreateCrashSafe`). A Create that returned leaves an empty, zeroed heap in NVM, also over a destroyed one (`FreshAfterCreate`). |
| heaplayout_destroy_crash | `MCHeapLayout_destroy.cfg` | violation | A crash inside Destroy leaves magic valid with `heap_size = 0`. |
| zoneheap | `MCEpochZoneHeap.cfg` | pass | Two users, one cleaner, 2 blocks, 5 lists, `kFreeCnt = 1`, epochs up to 6. `NoUseAfterFree`; `ReclaimHorizon` (a block is reclaimed only once reported ≥ free epoch + 3); `CleanerJoinedWhenClosed`; `OpenReturns` and `CloseReturns` under the fairness below. |
| zonepool_lifecycle | `MCZonePool.cfg` | pass | Create, Open, Close and Destroy in any order the caller protocol allows. Every call may fail and the process may crash between steps. Create reports `NO_ERROR` only for a complete, formatted pool (`CreateSuccessComplete`). Destroy reports `NO_ERROR` only once the pool and both shelves are gone (`DestroySuccessRemoves`). |
| zonepool_retry | `MCZonePool_retry.cfg` | violation | A Create that failed adding the zone shelf, or a Destroy that failed removing the header shelf, makes the next Destroy die on `assert(GetShelfPath(...) == NO_ERROR)`. The spec says the caller retries. |
| epoch_fork_exit | `MCEpochLifecycle.cfg` | violation | A process calls `ResetBeforeFork` and exits before `ResetAfterFork`. This happens to a child that never rebuilds, or to a parent whose `fork()` failed. `Final` deleted `em` without setting it to NULL, so `~EpochManager` deletes it again (`FinalDeletesOnce`) and then closes the already-closed epoch shelf. |
| zonepool_close_failure | `MCZonePool_close.cfg` | violation | Create, Open, then a Close whose `region_->Unmap` fails. Close has already stopped the cleaner and run `delete rmb_; rmb_ = NULL`, and returns `HEAP_CLOSE_FAILED` with `is_open_` still true (`IsOpenUsable`). A failure of `rmb_->Close()` itself leaves the open heap without its cleaner, so delayed frees are never reclaimed. A retried Close calls `rmb_->Close()` on NULL (`epoch_zone_heap.cc:366`). The caller need not retry: `~EpochZoneHeap` calls `Close()` whenever `IsOpen()` (line 60). |
| shelffile_create_race | `MCShelfFile_race.cfg` | violation | Two objects both pass `Exist()` and both `creat()`. Both Creates return `NO_ERROR` (`ExclusiveCreate` fails), and the second emptied the first's file. |
| registry_sharing | `MCShelfRegistry.cfg` | pass | Three threads map and unmap one shelf with either `unregister` flag, and mmap may fail. Every live mapping is the registered one or is being unmapped (`NoOrphanMapping`). The registry never names an unmapped address (`RegistryMapped`). |
| zonestack_refinement | `MCZoneEntryStack.cfg` | pass | Three threads, three blocks, six calls; a thread pushes only blocks it popped, as a cleaner's popped block comes back through Alloc and Free. The list implements `AtomicStack` (`StackRefined`): the tag defeats the ABA case where a pop reads the head and its next word, and meanwhile the other thread pops that block, pops again and pushes the first block back. Some call always returns (`LockFree`). |

Every property of a passing run has a mutant in `PROJECT.json`: a plausible bug in the mapped code that TLC catches under the same config. Examples: a plain store instead of the CAS, the list index `e+1` instead of `e+3`, reading `frontier_epoch` in the cleaner, Open not waiting, the registry lookup outside `ShelfManager::Lock`, Unmap without `UnregisterShelf`.

### Bounds

- **ShelfHeap.** `HeapSize = 6` with `CacheLine = 2` fits two or three blocks, so the heap becomes full while two threads race. `Width = 4` makes the wrap-around reachable with a size of 14.
- **HeapLayout.** Four data lines let `Alloc`, `UserWrite` and partial eviction leave the data area in mixed cache/NVM states.
- **EpochZoneHeap.**
  - Epochs up to 6 let the frontier lap the 5 lists, so pushes and pops reuse slots. At 8, the run also checking liveness takes over 6 minutes. The mutants of the +3 rule and of the cleaner's epoch read still fail at 6.
  - Two blocks and two users give a reader holding a block that another user frees.
  - `kFreeCnt = 1` makes the cleaner leave blocks behind for a later lap.
  - The run takes about 2.5 to 3.5 minutes (2.24 million states). Most of the time goes to the liveness check.
- **ShelfFile.** Two objects, the smallest number for a race. Three inodes let the path be created, removed and created again while an old fd stays open. A second path gives `Rename` somewhere to move a file, and a file to replace there.
- **ShelfRegistry.** Three threads, so that one thread can be between `UnregisterShelf` and munmap while a second maps again and a third holds the old address. Three mmaps allow a remap after each unmap.
- **EpochLifecycle.** Two processes, a parent and one forked child, the smallest number that exercises fork. Two inodes let `Reset` and `Start` give the path a new epoch shelf.
- **ZoneEntryStack.** Three blocks and two threads are the least for ABA: the popper needs a head block and a next block, and the other thread pops both and pushes the first back. The run uses three threads, so the pops and the push that put a stalled popper's head block back can come from two different threads, as they do when the cleaners of two processes and a Free interleave. Six calls leave room for that plus the popper's own call; the run takes about 40 s. The tag is 32 bits in the code; here it is 16, because TLC's integers are 32-bit. No run of six calls wraps either width, so the wrap of the tag is not checked. The mutant that keeps the tag unchanged breaks `StackRefined`.
- **ZonePool.** It has no numeric bound: the persistent and process-local state is finite, so TLC explores every sequence of Create, Open, Close and Destroy calls, failures and crashes. Callers are assumed to Create and Destroy only a heap they do not have open, and to Close only an open one (Open and Close assert this).

### Fairness

- **ShelfHeap:** each thread's load and CAS are weakly fair, because threads are OS-scheduled. Nothing forces a thread to call Alloc, so deadlock checking is off: callers may stop at any point.
- **EpochZoneHeap:**
  - The cleaner thread's steps are weakly fair, because it is a thread in a `while(1)` with `usleep`.
  - The waiting and joining steps of Open and Close are weakly fair.
  - Users and the epoch manager get no fairness. A user may stay in an EpochOp for ever, and the liveness properties do not depend on epochs advancing.
- **ZoneEntryStack:** each thread's steps inside a call are weakly fair, because threads are OS-scheduled. Making a call is not fair. Every behaviour ends once six calls have returned, so deadlock checking is off. `LockFree` says that while a call is in progress some call returns. A thread may still starve: its CAS can keep losing.
- **EpochLifecycle:** no fairness. Every behaviour ends with all processes exited, so deadlock checking is off.
- **ShelfFile and ShelfRegistry:** no liveness is checked and no fairness assumed. In `ShelfRegistry` a failed assert ends the process, so `MCShelfRegistry.cfg` turns deadlock checking off. A process may also simply stop mapping.

## Observations

- **The +3 rule has one epoch of slack against this epoch manager.** Because the frontier advances only when `reported = frontier - 1`, the reported epoch lags the frontier by at most 2, and a push at `e + 2` would already be safe. With `e + 1` (mutant `FreePushOneAhead`), `NoUseAfterFree` fails.
- **The spec's slot argument is wrong as stated, but the case never happens.** The spec says "pushes at e and pops at e−2 never touch the same slot". In fact `(e+3) % 5 = (e-2) % 5`. Pushes never land on the list being drained only because a user's `e` is at most the cleaner's `e + 1` while the cleaner is inside its EpochOp.

- **Alloc(0) at a full heap.** `NvHeapLayout::Alloc(0)` at a full heap returns `kMetadataSize + heap_size`, which `IsValid` rejects but which is not 0 (`shelf_heap.h:84`). `ReturnedOffsetsValid` in `ShelfHeap` states the expected behaviour; with `Sizes = {0}` TLC finds the violation. No run is kept for it.
- **Destroy's zeroing is not durable.** Destroy sets `heap_size = 0` before `pmem_persist(&heap_size, kCacheLineSize*2 + layout->heap_size)`, so the zeroed data area is never persisted (`shelf_heap.h:48`). `DestroyZeroesData` in `HeapLayout` fails under `Spec`. No run is kept for it.
- **Open and Create leak handles on their error exits.** Every error exit of Create after the header shelf is added, and of Open after `pool_.Open`, returns without `pool_.Close`. After `new ShelfRegion`, they also return without closing or deleting `region_` (`epoch_zone_heap.cc:132`, `:326`). `HandlesReleasedOnReturn` in `ZonePool` states the expected behaviour; with `Failures <- MCLeakFailures` (`{"region_map"}`) and `Crashes = FALSE`, TLC finds the violation after five steps. No run is kept for it.
- **Destroy removes a file it reports as not found.** `ShelfFile::Destroy` sets `SHELF_FILE_NOT_FOUND` when `Exist()` is false but goes on to `remove` the path (`shelf_file.cc:101`). A Create by another object in between has its new file removed. `DestroyNotFoundRemovesNothing` in `ShelfFile` states the expected behaviour; with two objects and no failures (the constants of `MCShelfFile_race.cfg`) TLC finds the violation. No run is kept for it.
- **Map leaks on a failed register or munmap.** When `fam_atomic_register_region` fails (`shelf_file.cc:259`), `Map(addr_hint, &addr)` returns `SHELF_FILE_MAP_FAILED` without munmap. A munmap that fails after `UnregisterShelf` (`:282`) likewise leaves a mapping that nothing names. `NoOrphanMapping` catches both. With two threads, `MaxMaps = 3`, both unregister modes and `Failures <- MCAllFailures`, TLC finds the violation. `registry_sharing` checks the same property with mmap as the only failing call, which reaches neither case. No run is kept for them.
- **Symmetric unmap asserts.** Two threads each call Map (the second gets the cached address) and each call `Unmap(addr, true)`. The second Unmap fails `assert(addr == mapped_addr)` at `shelf_file.cc:343`, after the first has unmapped memory the second still uses. `UnmapNeverAsserts` in `ShelfRegistry` fails with `UnregisterModes = {TRUE}`. The registry has no reference count, so spec 4.2's "unmap must symmetrically unregister" cannot hold for two objects of one process. No run is kept for it.

## Not modelled, and the plan

- **EpochManagerImpl.** It is not in `src/`. `epoch_manager.h` holds only declarations: their stated contracts are the guards `NoOtherUser` (Reset) and `TornDown` (the fork helpers) of `EpochLifecycle`, and the EpochOp scope is `UserEnterOp`/`UserExitOp` of `EpochZoneHeap`. Its advance rule comes from spec 4.3. What happens to the reported epoch when a participant dies inside its critical region is decided there, so it is not modelled and not listed as a hazard of this code.
- **EpochShelf.** It is not in the repository. `EpochLifecycle` takes it to behave like a ShelfFile: `Open` of an open shelf and `Close` of a closed one fail. `Start` runs with no other user (spec 4.3), so the race between its `Exist()` and `Create()` is not modelled.
- **ZoneEntryStack.** It is not in `src/`. `ZoneEntryStack` models it from spec 4.5. Inside `EpochZoneHeap`, push and pop remain single steps; `zonestack_refinement` justifies this. A crash between the cleaner's pop and `rmb_->Free` (`epoch_zone_heap.cc:555`) loses the block, as the code's comment says and spec 4.4 accepts. The pop and the Free are separate steps of `EpochZoneHeap`. The crash itself is not modelled. What a process that dies inside its EpochOp does to the epoch manager belongs to EpochManagerImpl, which is not in the repository. Without that, a restart cannot be modelled faithfully.
- **Pool, ShelfRegion and the zone heap behind `rmb_`.** In `ZonePool`, a failed `Pool::Create` or `AddShelf` is taken to leave nothing behind, and a failed close leaves the handle open. `rmb_->Open(header, size)` is taken to fail on a heap that is not formatted, and it may fail otherwise when `"rmb_open"` is in `Failures`. This code is not in the repository. (`ShelfHeap` in `shelf_heap.h` declares only the parameterless Open.)
- **ShelfFile.**
  - `Size` is read-only.
  - File sizes are abstracted to full or empty. The `Size()` that `Unmap` reads after the unlock can therefore not differ from the mapped length in this model.
  - mmap addresses are fresh numbers. A reused address could let a stale holder pass the assert.
  - A `remove` that throws anything but ENOENT ends the process; it is not modelled.
  - `ShelfManager` is taken to keep one entry per shelf.
- **ShelfRegion, Pool, ShelfManager, MemoryManager.** They are not in the repository.
- **`EpochZoneHeap::Free(GlobalPtr)`, `Size()` and the destructor.** The epoch-less Free hands a block straight back to the shelf heap. It is safe only when the caller knows no thread can reach the block, and nothing in the code checks that. Modelling it would need a client discipline that the repository does not state. `Size()` changes no state. The destructor calls `Close()`, which is `CloseStop`; its hazard is recorded against `IsOpenUsable`.
- **Logging, tracing and error codes.** These are left out: no property distinguishes them.
