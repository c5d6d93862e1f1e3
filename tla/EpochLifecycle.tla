---------------------------- MODULE EpochLifecycle ----------------------------
(***************************************************************************)
(* The process-local lifecycle of the EpochManager singleton across       *)
(* processes and fork(): EpochManager::Start, Reset, GetInstance (the      *)
(* constructor), ResetBeforeFork, ResetAfterFork and the destructor, with  *)
(* Impl_::Init and Impl_::Final, in src/src/epoch_manager.cc.              *)
(*                                                                         *)
(* Each process is single-threaded here: the spec has callers quiesce      *)
(* their threads around these calls, and Start and Reset run with no other *)
(* user.  Callers keep the fork discipline of spec 5: ResetBeforeFork      *)
(* tears down a live manager, fork() follows it, and ResetAfterFork        *)
(* rebuilds the torn-down one; a process may exit at any point.  Processes *)
(* interleave.  The epoch shelf path names an inode or    *)
(* nothing.  EpochShelf and EpochManagerImpl are not in the repository:    *)
(* an EpochShelf is taken to behave like a ShelfFile (Open of an open      *)
(* shelf and Close of a closed one fail), and the EpochManagerImpl object  *)
(* is "live" or, once deleted, "freed" (a dangling em).                    *)
(***************************************************************************)
EXTENDS Naturals

CONSTANTS
    Procs,      \* process slots; Root runs first, the others come from fork()
    Root,
    MaxInode    \* bound on the epoch shelves the path is ever given

ASSUME Root \in Procs /\ MaxInode \in Nat \ {0}

None == 0   \* no inode: the path is missing, or epoch_shelf_ is closed

VARIABLES
    path,       \* the inode kEpochShelfPath names, or None
    ninodes,    \* epoch shelves created so far (they are 1..ninodes)
    status,     \* per process: "unborn", "running", "exited" or "failed" (exit(1))
    inst,       \* per process: the static instance of GetInstance is constructed
    em,         \* per process: Impl_::em is "null", "live" or "freed"
    shelf,      \* per process: the inode epoch_shelf_ has open, or None
    attached,   \* per process: the epoch shelf em was built on
    freedTwice  \* history: some process deleted an em that was already deleted

vars == <<path, ninodes, status, inst, em, shelf, attached, freedTwice>>

TypeOK ==
    /\ path \in 0..ninodes
    /\ ninodes \in 0..MaxInode
    /\ status \in [Procs -> {"unborn", "running", "exited", "failed"}]
    /\ inst \in [Procs -> BOOLEAN]
    /\ em \in [Procs -> {"null", "live", "freed"}]
    /\ shelf \in [Procs -> 0..ninodes]
    /\ attached \in [Procs -> 0..ninodes]
    /\ freedTwice \in BOOLEAN

\* One process runs; the epoch shelf has not been created.
Init ==
    /\ path = None
    /\ ninodes = 0
    /\ status = [p \in Procs |-> IF p = Root THEN "running" ELSE "unborn"]
    /\ inst = [p \in Procs |-> FALSE]
    /\ em = [p \in Procs |-> "null"]
    /\ shelf = [p \in Procs |-> None]
    /\ attached = [p \in Procs |-> None]
    /\ freedTwice = FALSE

Running(p) == status[p] = "running"

\* The contract of Reset (epoch_manager.h): it runs only when no one is
\* using the epoch manager, i.e. no other process has a live em.
NoOtherUser(p) == \A q \in Procs : em[q] = "live" => q = p

\* The contract of the fork helpers (epoch_manager.h): the manager is torn
\* down by ResetBeforeFork around fork().
TornDown(p) == em[p] /= "live"

\* Impl_::Init: exit(1) if the epoch shelf does not exist or its Open
\* fails; else em = new EpochManagerImpl(epoch_shelf_.Addr(), false).  A
\* live em is overwritten (leaked).
ImplInit(p) ==
    IF path = None \/ shelf[p] /= None
      THEN status' = [status EXCEPT ![p] = "failed"] /\ UNCHANGED <<em, shelf, attached>>
      ELSE /\ shelf' = [shelf EXCEPT ![p] = path]
           /\ em' = [em EXCEPT ![p] = "live"]
           /\ attached' = [attached EXCEPT ![p] = path]
           /\ UNCHANGED status

\* Impl_::Final: if (em) delete em (em is not reset); then
\* epoch_shelf_.Close(), and exit(1) if it fails.  The process goes on in
\* state next otherwise.
ImplFinal(p, next) ==
    /\ em' = [em EXCEPT ![p] = IF @ = "null" THEN "null" ELSE "freed"]
    /\ freedTwice' = (freedTwice \/ em[p] = "freed")
    /\ shelf' = [shelf EXCEPT ![p] = None]
    /\ status' = [status EXCEPT ![p] = IF shelf[p] = None THEN "failed" ELSE next]
    /\ UNCHANGED attached

-----------------------------------------------------------------------------

\* EpochManager::Start: if the epoch shelf does not exist, Create it
\* (SHELF_FILE_FOUND is accepted).  (No shelf is created past the bound.)
Start(p) ==
    /\ Running(p)
    /\ path = None
    /\ ninodes < MaxInode
    /\ ninodes' = ninodes + 1
    /\ path' = ninodes + 1
    /\ UNCHANGED <<status, inst, em, shelf, attached, freedTwice>>

\* EpochManager::Reset: rm -f the epoch shelf, with no other user of it.
Reset(p) ==
    /\ Running(p)
    /\ NoOtherUser(p)
    /\ path' = None
    /\ UNCHANGED <<ninodes, status, inst, em, shelf, attached, freedTwice>>

\* The first GetInstance constructs the static instance: Impl_::Init,
\* then assert(ret == NO_ERROR).
GetInstance(p) ==
    /\ Running(p) /\ ~inst[p]
    /\ inst' = [inst EXCEPT ![p] = TRUE]
    /\ ImplInit(p)
    /\ UNCHANGED <<path, ninodes, freedTwice>>

\* ResetBeforeFork: Impl_::Final, on a live manager.
ResetBeforeFork(p) ==
    /\ Running(p) /\ inst[p] /\ em[p] = "live"
    /\ ImplFinal(p, "running")
    /\ UNCHANGED <<path, ninodes, inst>>

\* ResetAfterFork: Impl_::Init, on a torn-down manager.
ResetAfterFork(p) ==
    /\ Running(p) /\ inst[p] /\ TornDown(p)
    /\ ImplInit(p)
    /\ UNCHANGED <<path, ninodes, inst, freedTwice>>

\* fork(): the child c starts as a copy of p, its static instance, em
\* pointer and open epoch_shelf_ included.  A process forks only with no
\* live manager.
Fork(p, c) ==
    /\ Running(p) /\ status[c] = "unborn" /\ TornDown(p)
    /\ status' = [status EXCEPT ![c] = "running"]
    /\ inst' = [inst EXCEPT ![c] = inst[p]]
    /\ em' = [em EXCEPT ![c] = em[p]]
    /\ shelf' = [shelf EXCEPT ![c] = shelf[p]]
    /\ attached' = [attached EXCEPT ![c] = attached[p]]
    /\ UNCHANGED <<path, ninodes, freedTwice>>

\* exit(0): static destructors run, and ~EpochManager calls Impl_::Final
\* if the instance was constructed.
Exit(p) ==
    /\ Running(p)
    /\ IF inst[p]
         THEN ImplFinal(p, "exited")
         ELSE status' = [status EXCEPT ![p] = "exited"] /\ UNCHANGED <<em, shelf, attached, freedTwice>>
    /\ UNCHANGED <<path, ninodes, inst>>

Next ==
    \E p \in Procs :
        \/ Start(p) \/ Reset(p) \/ GetInstance(p)
        \/ ResetBeforeFork(p) \/ ResetAfterFork(p) \/ Exit(p)
        \/ \E c \in Procs : Fork(p, c)

Spec == Init /\ [][Next]_vars

-----------------------------------------------------------------------------
(* Properties *)

\* No process deletes its EpochManagerImpl twice: Impl_::Final, run by
\* ResetBeforeFork and again by ~EpochManager at exit, must not delete the
\* em the first call already deleted.
FinalDeletesOnce == ~freedTwice

=============================================================================
