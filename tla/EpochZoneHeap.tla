---------------------------- MODULE EpochZoneHeap ----------------------------
(***************************************************************************)
(* The epoch zone heap of src/src/allocator/epoch_zone_heap.cc: user       *)
(* threads allocate blocks from the zone shelf heap and free them under an *)
(* EpochOp; Free(op, ptr) pushes the block's index on the delayed-free     *)
(* list global_list_[(e+3) % kListCnt], e = op.reported_epoch(); the       *)
(* cleaner thread (BackgroundWorker) wakes up, enters its own EpochOp,     *)
(* reads e and hands up to kFreeCnt blocks of global_list_[e % kListCnt]   *)
(* back to the shelf heap.  Open starts the cleaner and waits until it     *)
(* runs; Close stops and joins it, then unmaps the lists.                  *)
(*                                                                         *)
(* Blocks are the block indices offset / min_obj_size_ of same-size        *)
(* allocations.  The shelf heap's Alloc is one atomic step here; module    *)
(* ShelfHeap shows its CAS loop implements exactly that.  The delayed-free *)
(* lists are lock-free stacks whose push and pop are one CAS each, so they *)
(* are single steps on a sequence (head first).                            *)
(*                                                                         *)
(* The client's own structure is modelled by published (the blocks a      *)
(* reader can still reach) and held (what a thread has reached inside its *)
(* current EpochOp); reclaimed and freedAt are history.                    *)
(***************************************************************************)
EXTENDS EpochManager, Sequences

CONSTANTS
    Users,          \* user threads (of any process) using the heap
    Cleaner,        \* the cleaner thread of the process that opened the heap
    NBlocks,        \* blocks of the zone shelf heap
    kListCnt,       \* number of delayed-free lists
    kFreeCnt        \* blocks the cleaner frees per pass

ASSUME Participants = Users \union {Cleaner} /\ Cleaner \notin Users
ASSUME kListCnt >= 1 /\ kFreeCnt >= 1 /\ NBlocks >= 1

Blocks == 1..NBlocks

VARIABLES
    is_open,          \* is_open_
    opc,              \* the thread calling Open/Close: "closed", "wait", "open", "join"
    cleaner_start,    \* cleaner_start_
    cleaner_stop,     \* cleaner_stop_
    cleaner_running,  \* cleaner_running_
    wpc,              \* the cleaner thread: "none" or its place in BackgroundWorker
    we,               \* the epoch e the cleaner read in this pass
    wi,               \* the loop counter i of this pass
    wb,               \* the block the cleaner popped and has not yet freed
    next_block,       \* the zone shelf heap's bump cursor, in blocks
    global_list,      \* the kListCnt delayed-free stacks, head first
    upc,              \* per user: "out", "in" (inside an EpochOp), "free" (in Free)
    ufe,              \* per user: e read by Free
    ufb,              \* per user: the block Free is freeing
    published,        \* blocks the client can still reach
    held,             \* per user: blocks it reached in its current EpochOp
    freedAt,          \* history: the epoch each freed block was freed at
    reclaimed         \* history: blocks the cleaner passed to rmb_->Free

heapVars == <<is_open, opc, cleaner_start, cleaner_stop, cleaner_running,
              wpc, we, wi, wb, next_block, global_list>>
clientVars == <<upc, ufe, ufb, published, held, freedAt, reclaimed>>
vars == <<emVars, heapVars, clientVars>>

Lists == 0..(kListCnt - 1)

WorkerPcs == {"none", "sleep", "check", "enter", "read", "pop", "free", "exit",
              "done"}

TypeOK ==
    /\ EMTypeOK
    /\ is_open \in BOOLEAN
    /\ opc \in {"closed", "wait", "open", "join"}
    /\ {cleaner_start, cleaner_stop, cleaner_running} \subseteq BOOLEAN
    /\ wpc \in WorkerPcs
    /\ we \in 0..MaxEpoch
    /\ wi \in 0..kFreeCnt
    /\ wb \in Blocks \union {0}
    /\ next_block \in 1..(NBlocks + 1)
    /\ global_list \in [Lists -> Seq(Blocks)]
    /\ upc \in [Users -> {"out", "in", "free"}]
    /\ ufe \in [Users -> 0..MaxEpoch]
    /\ ufb \in [Users -> Blocks \union {0}]
    /\ published \subseteq Blocks
    /\ held \in [Users -> SUBSET Blocks]
    /\ freedAt \in [Blocks -> 0..MaxEpoch + 1]
    /\ reclaimed \subseteq Blocks

\* The heap has been created (empty lists, empty zone) and is closed.
Init ==
    /\ EMInit
    /\ is_open = FALSE
    /\ opc = "closed"
    /\ cleaner_start = FALSE
    /\ cleaner_stop = FALSE
    /\ cleaner_running = FALSE
    /\ wpc = "none"
    /\ we = 0
    /\ wi = 0
    /\ wb = 0
    /\ next_block = 1
    /\ global_list = [l \in Lists |-> <<>>]
    /\ upc = [u \in Users |-> "out"]
    /\ ufe = [u \in Users |-> 0]
    /\ ufb = [u \in Users |-> 0]
    /\ published = {}
    /\ held = [u \in Users |-> {}]
    /\ freedAt = [b \in Blocks |-> MaxEpoch + 1]
    /\ reclaimed = {}

-----------------------------------------------------------------------------
(* Open and Close, called by one thread of the owning process. *)

\* StartWorker: under cleaner_mutex_, nothing if cleaner_start_ is set;
\* otherwise set the flags and spawn BackgroundWorker.
StartWorker ==
    IF cleaner_start
      THEN UNCHANGED <<cleaner_start, cleaner_stop, cleaner_running, wpc>>
      ELSE /\ cleaner_start' = TRUE
           /\ cleaner_stop' = FALSE
           /\ cleaner_running' = FALSE
           /\ wpc' = "sleep"

\* Open: map the lists, open the zone heap, is_open_ = true, StartWorker,
\* then wait.
Open ==
    /\ opc = "closed"
    /\ is_open' = TRUE
    /\ opc' = "wait"
    /\ StartWorker
    /\ UNCHANGED <<emVars, we, wi, wb, next_block, global_list, clientVars>>

\* Mutant of OpenWait: Open returns without waiting for the cleaner.
OpenNoWait ==
    /\ opc = "wait"
    /\ opc' = "open"
    /\ UNCHANGED <<emVars, is_open, cleaner_start, cleaner_stop, cleaner_running,
                   wpc, we, wi, wb, next_block, global_list, clientVars>>

\* running_cv_.wait(mutex, [this]{return cleaner_running_==true;})
OpenWait ==
    /\ opc = "wait"
    /\ cleaner_running
    /\ opc' = "open"
    /\ UNCHANGED <<emVars, is_open, cleaner_start, cleaner_stop, cleaner_running,
                   wpc, we, wi, wb, next_block, global_list, clientVars>>

\* Close, first part of StopWorker: if the cleaner is not running it
\* returns at once and Close goes on to unmap; otherwise it sets
\* cleaner_stop_ and joins.  Clients have left all heap calls.
CloseStop ==
    /\ opc = "open"
    /\ \A u \in Users : upc[u] /= "free"
    /\ IF ~cleaner_running \/ ~cleaner_start
         THEN /\ is_open' = FALSE
              /\ opc' = "closed"
              /\ UNCHANGED cleaner_stop
         ELSE /\ cleaner_stop' = TRUE
              /\ opc' = "join"
              /\ UNCHANGED is_open
    /\ UNCHANGED <<emVars, cleaner_start, cleaner_running, wpc, we, wi, wb,
                   next_block, global_list, clientVars>>

\* The end of StopWorker, after the join: under cleaner_mutex_ clear the
\* three flags.
StopWorkerReset ==
    /\ cleaner_start' = FALSE
    /\ cleaner_stop' = FALSE
    /\ cleaner_running' = FALSE

\* cleaner_thread_.join() returns; StopWorker clears the flags; Close
\* closes the zone heap, unmaps the lists and clears is_open_.
CloseJoin ==
    /\ opc = "join"
    /\ wpc = "done"
    /\ wpc' = "none"
    /\ StopWorkerReset
    /\ is_open' = FALSE
    /\ opc' = "closed"
    /\ UNCHANGED <<emVars, we, wi, wb, next_block, global_list, clientVars>>

-----------------------------------------------------------------------------
(* The cleaner thread, BackgroundWorker. *)

\* usleep(kWorkerSleepMicroSeconds) returns.
WorkerWake ==
    /\ wpc = "sleep"
    /\ wpc' = "check"
    /\ UNCHANGED <<emVars, is_open, opc, cleaner_start, cleaner_stop,
                   cleaner_running, we, wi, wb, next_block, global_list, clientVars>>

\* Mutant of WorkerCheck: cleaner_stop_ is never looked at.
WorkerCheckNoStop ==
    /\ wpc = "check"
    /\ cleaner_running' = TRUE
    /\ wpc' = "enter"
    /\ UNCHANGED <<emVars, is_open, opc, cleaner_start, cleaner_stop,
                   we, wi, wb, next_block, global_list, clientVars>>

\* Mutant of WorkerCheck: cleaner_running_ is never set.
WorkerCheckNoRunning ==
    /\ wpc = "check"
    /\ wpc' = IF cleaner_stop THEN "done" ELSE "enter"
    /\ UNCHANGED <<emVars, is_open, opc, cleaner_start, cleaner_stop,
                   cleaner_running, we, wi, wb, next_block, global_list, clientVars>>

\* Under cleaner_mutex_: promote to running (and notify), then return if
\* asked to stop.
WorkerCheck ==
    /\ wpc = "check"
    /\ cleaner_running' = TRUE
    /\ wpc' = IF cleaner_stop THEN "done" ELSE "enter"
    /\ UNCHANGED <<emVars, is_open, opc, cleaner_start, cleaner_stop,
                   we, wi, wb, next_block, global_list, clientVars>>

\* EpochOp op(em): the cleaner enters a critical region.
WorkerEnterOp ==
    /\ wpc = "enter"
    /\ enter_critical(Cleaner)
    /\ wpc' = "read"
    /\ UNCHANGED <<is_open, opc, cleaner_start, cleaner_stop, cleaner_running,
                   we, wi, wb, next_block, global_list, clientVars>>

\* Mutant of WorkerReadEpoch: the cleaner uses frontier_epoch().
WorkerReadFrontier ==
    /\ wpc = "read"
    /\ we' = frontier
    /\ wi' = 0
    /\ wpc' = "pop"
    /\ UNCHANGED <<emVars, is_open, opc, cleaner_start, cleaner_stop,
                   cleaner_running, wb, next_block, global_list, clientVars>>

\* e = op.reported_epoch(); i = 0
WorkerReadEpoch ==
    /\ wpc = "read"
    /\ we' = reported
    /\ wi' = 0
    /\ wpc' = "pop"
    /\ UNCHANGED <<emVars, is_open, opc, cleaner_start, cleaner_stop,
                   cleaner_running, wb, next_block, global_list, clientVars>>

\* offset = global_list_[e % kListCnt].pop(header_) * min_obj_size_; an
\* empty list (index 0) breaks out of the loop.
WorkerPop ==
    LET l == we % kListCnt IN
    /\ wpc = "pop"
    /\ IF global_list[l] = <<>>
         THEN /\ wpc' = "exit"
              /\ UNCHANGED <<wb, global_list>>
         ELSE /\ wb' = Head(global_list[l])
              /\ global_list' = [global_list EXCEPT ![l] = Tail(@)]
              /\ wpc' = "free"
    /\ UNCHANGED <<emVars, is_open, opc, cleaner_start, cleaner_stop,
                   cleaner_running, we, wi, next_block, clientVars>>

\* Mutant of WorkerFree: the loop runs while i <= kFreeCnt.
WorkerFreeOffByOne ==
    /\ wpc = "free"
    /\ reclaimed' = reclaimed \union {wb}
    /\ wb' = 0
    /\ wi' = wi + 1
    /\ wpc' = IF wi + 1 > kFreeCnt THEN "exit" ELSE "pop"
    /\ UNCHANGED <<emVars, is_open, opc, cleaner_start, cleaner_stop,
                   cleaner_running, we, next_block, global_list, upc, ufe,
                   ufb, published, held, freedAt>>

\* rmb_->Free(offset) hands the block back to the shelf heap; then i++,
\* and the pass ends after kFreeCnt blocks.
WorkerFree ==
    /\ wpc = "free"
    /\ reclaimed' = reclaimed \union {wb}
    /\ wb' = 0
    /\ wi' = wi + 1
    /\ wpc' = IF wi + 1 = kFreeCnt THEN "exit" ELSE "pop"
    /\ UNCHANGED <<emVars, is_open, opc, cleaner_start, cleaner_stop,
                   cleaner_running, we, next_block, global_list, upc, ufe,
                   ufb, published, held, freedAt>>

\* ~EpochOp(): the cleaner leaves its critical region and sleeps again.
WorkerExitOp ==
    /\ wpc = "exit"
    /\ exit_critical(Cleaner)
    /\ wpc' = "sleep"
    /\ UNCHANGED <<is_open, opc, cleaner_start, cleaner_stop, cleaner_running,
                   we, wi, wb, next_block, global_list, clientVars>>

-----------------------------------------------------------------------------
(* User threads. *)

\* EpochOp op(em) of a user thread.
UserEnterOp(u) ==
    /\ upc[u] = "out"
    /\ enter_critical(u)
    /\ upc' = [upc EXCEPT ![u] = "in"]
    /\ UNCHANGED <<heapVars, ufe, ufb, published, held, freedAt, reclaimed>>

\* ~EpochOp(): the thread drops every pointer it reached.
UserExitOp(u) ==
    /\ upc[u] = "in"
    /\ exit_critical(u)
    /\ upc' = [upc EXCEPT ![u] = "out"]
    /\ held' = [held EXCEPT ![u] = {}]
    /\ UNCHANGED <<heapVars, ufe, ufb, published, freedAt, reclaimed>>

\* Alloc(size): rmb_->Alloc hands out the next block and a valid offset
\* becomes a GlobalPtr; when the zone is used up the offset is invalid and
\* the null pointer comes back.
ZoneAlloc ==
    /\ next_block <= NBlocks
    /\ next_block' = next_block + 1

\* Alloc(op, size) calls Alloc(size) inside the caller's EpochOp; the
\* client publishes the pointer it gets.  A null pointer changes nothing.
Alloc(u) ==
    /\ upc[u] = "in"
    /\ is_open
    /\ ZoneAlloc
    /\ published' = published \union {next_block}
    /\ held' = [held EXCEPT ![u] = @ \union {next_block}]
    /\ UNCHANGED <<emVars, is_open, opc, cleaner_start, cleaner_stop,
                   cleaner_running, wpc, we, wi, wb, global_list, upc, ufe, ufb,
                   freedAt, reclaimed>>

\* The client reads a published pointer inside its EpochOp, turning it
\* into a local one with GlobalToLocal, which asserts the heap is open.
Reach(u, b) ==
    /\ upc[u] = "in"
    /\ is_open
    /\ b \in published
    /\ held' = [held EXCEPT ![u] = @ \union {b}]
    /\ UNCHANGED <<emVars, heapVars, upc, ufe, ufb, published, freedAt, reclaimed>>

\* The client unlinks b and calls Free(op, ptr): the offset is valid, and
\* e = op.reported_epoch() is read.
Free(u, b) ==
    /\ upc[u] = "in"
    /\ is_open
    /\ b \in published
    /\ published' = published \ {b}
    /\ held' = [held EXCEPT ![u] = @ \union {b}]
    /\ ufe' = [ufe EXCEPT ![u] = reported]
    /\ ufb' = [ufb EXCEPT ![u] = b]
    /\ upc' = [upc EXCEPT ![u] = "free"]
    /\ UNCHANGED <<emVars, heapVars, freedAt, reclaimed>>

\* Mutant of FreePush: the block goes on the list one epoch ahead.
FreePushOneAhead(u) ==
    LET l == (ufe[u] + 1) % kListCnt IN
    /\ upc[u] = "free"
    /\ global_list' = [global_list EXCEPT ![l] = <<ufb[u]>> \o @]
    /\ freedAt' = [freedAt EXCEPT ![ufb[u]] = ufe[u]]
    /\ upc' = [upc EXCEPT ![u] = "in"]
    /\ UNCHANGED <<emVars, is_open, opc, cleaner_start, cleaner_stop,
                   cleaner_running, wpc, we, wi, wb, next_block, ufe, ufb,
                   published, held, reclaimed>>

\* global_list_[(e+3)%kListCnt].push(header_, offset/min_obj_size_)
FreePush(u) ==
    LET l == (ufe[u] + 3) % kListCnt IN
    /\ upc[u] = "free"
    /\ global_list' = [global_list EXCEPT ![l] = <<ufb[u]>> \o @]
    /\ freedAt' = [freedAt EXCEPT ![ufb[u]] = ufe[u]]
    /\ upc' = [upc EXCEPT ![u] = "in"]
    /\ UNCHANGED <<emVars, is_open, opc, cleaner_start, cleaner_stop,
                   cleaner_running, wpc, we, wi, wb, next_block, ufe, ufb,
                   published, held, reclaimed>>

-----------------------------------------------------------------------------

\* The epoch manager advances the frontier or the reported epoch.
ManagerStep ==
    /\ AdvanceFrontier \/ ReportEpoch
    /\ UNCHANGED <<heapVars, clientVars>>

Next ==
    \/ Open \/ OpenWait \/ CloseStop \/ CloseJoin
    \/ WorkerWake \/ WorkerCheck \/ WorkerEnterOp \/ WorkerReadEpoch
    \/ WorkerPop \/ WorkerFree \/ WorkerExitOp
    \/ ManagerStep
    \/ \E u \in Users :
          \/ UserEnterOp(u) \/ UserExitOp(u) \/ Alloc(u) \/ FreePush(u)
          \/ \E b \in Blocks : Reach(u, b) \/ Free(u, b)

Spec == Init /\ [][Next]_vars

\* The cleaner is an OS thread, and the thread calling Open/Close keeps
\* running once inside a call.  Users and the epoch manager owe nothing:
\* a user may stay in an EpochOp for ever, and the properties checked
\* under this fairness do not need epochs to advance.
Fairness ==
    /\ WF_vars(WorkerWake) /\ WF_vars(WorkerCheck) /\ WF_vars(WorkerEnterOp)
    /\ WF_vars(WorkerReadEpoch) /\ WF_vars(WorkerPop) /\ WF_vars(WorkerFree)
    /\ WF_vars(WorkerExitOp)
    /\ WF_vars(OpenWait) /\ WF_vars(CloseJoin)

FairSpec == Spec /\ Fairness

-----------------------------------------------------------------------------
(* Properties *)

\* No use after free: a block the cleaner has handed back to the shelf heap
\* is not held by any thread still inside the EpochOp in which it reached
\* the block.  This is what the "+3" rule and the epoch manager together
\* must give, whatever order frees, pops and epoch advances happen in.
NoUseAfterFree == \A u \in Users : held[u] \cap reclaimed = {}

\* Spec section 8: a block freed at reported epoch e is handed back to the
\* shelf heap only once the reported epoch has reached e + 3, even though
\* the cleaner's list global_list_[e' % kListCnt] is shared by every epoch
\* congruent to e' and a pass may leave blocks behind for a later one.
ReclaimHorizon == \A b \in reclaimed : reported >= freedAt[b] + 3

\* The cleaner thread has been joined whenever the heap is closed, so it
\* never pops lists that Close has unmapped: Open's wait for
\* cleaner_running_ is what keeps StopWorker from returning early.
CleanerJoinedWhenClosed == ~is_open => wpc = "none"

\* Open returns: the cleaner eventually reports that it runs.
OpenReturns == opc = "wait" ~> opc = "open"

\* Close returns: the cleaner eventually sees cleaner_stop_ and exits.
CloseReturns == opc = "join" ~> opc = "closed"

=============================================================================
