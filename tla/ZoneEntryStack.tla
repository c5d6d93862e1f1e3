---------------------------- MODULE ZoneEntryStack ----------------------------
(***************************************************************************)
(* One delayed-free list of the epoch zone heap: ZoneEntryStack::push and *)
(* pop, called by EpochZoneHeap::Free (epoch_zone_heap.cc:457) and by the  *)
(* cleaner (line 552) of every process that has the heap open.  The class  *)
(* is not in the repository; this follows spec 4.5.  The head word packs  *)
(* (index : tag); index 0 is the empty stack.  The next index of a block   *)
(* is the first word of the block itself, so a push writes into a block a *)
(* stalled popper may still read.  Every load, store and CAS is one step.  *)
(* A thread holds the blocks it popped (the cleaner frees them and they    *)
(* come back through Alloc and Free) and may push them again.             *)
(***************************************************************************)
EXTENDS Naturals, Sequences, FiniteSets

CONSTANTS
    Threads,    \* threads pushing (Free) and popping (the cleaners)
    NBlocks,    \* blocks 1..NBlocks of the zone
    TagBits,    \* width of the tag half of the head word
    MaxOps      \* bound on the push and pop calls made

ASSUME NBlocks \in Nat \ {0} /\ TagBits \in Nat \ {0} /\ MaxOps \in Nat

Blocks == 1..NBlocks
Nil == 0
Heads == [idx : Blocks \union {Nil}, tag : 0..(2^TagBits - 1)]

VARIABLES
    head,     \* the head word (index : tag)
    next,     \* per block: its first word, the next index
    held,     \* per thread: the blocks it holds
    pc,       \* per thread: "idle" or the step of push or pop it is at
    blk,      \* per thread: the block a push pushes
    exp,      \* per thread: the head word read, the CAS's expected value
    nxt,      \* per thread: the next index a pop read
    ops,      \* push and pop calls made
    done      \* push and pop calls returned

vars == <<head, next, held, pc, blk, exp, nxt, ops, done>>

TypeOK ==
    /\ head \in Heads
    /\ next \in [Blocks -> Blocks \union {Nil}]
    /\ held \in [Threads -> SUBSET Blocks]
    /\ pc \in [Threads -> {"idle", "push_read", "push_link", "push_cas",
                           "pop_read", "pop_next", "pop_cas"}]
    /\ blk \in [Threads -> Blocks \union {Nil}]
    /\ exp \in [Threads -> Heads]
    /\ nxt \in [Threads -> Blocks \union {Nil}]
    /\ ops \in 0..MaxOps
    /\ done \in 0..MaxOps

\* The list after NBlocks pushes: 1 on top, then 2, ..., NBlocks.
Init ==
    /\ head = [idx |-> 1, tag |-> 0]
    /\ next = [b \in Blocks |-> IF b < NBlocks THEN b + 1 ELSE Nil]
    /\ held = [t \in Threads |-> {}]
    /\ pc = [t \in Threads |-> "idle"]
    /\ blk = [t \in Threads |-> Nil]
    /\ exp = [t \in Threads |-> [idx |-> Nil, tag |-> 0]]
    /\ nxt = [t \in Threads |-> Nil]
    /\ ops = 0
    /\ done = 0

\* Mutant of NextTag: the CAS leaves the tag as it was.
SameTag(h) == h.tag

\* The tag of the head word a successful CAS installs: old tag + 1, in
\* TagBits bits.
NextTag(h) == (h.tag + 1) % (2^TagBits)

Goto(t, s) == pc' = [pc EXCEPT ![t] = s]

\* A call returns.
Return(t) == Goto(t, "idle") /\ done' = done + 1

-----------------------------------------------------------------------------
(* push(header, index) *)

\* Free pushes block b the thread holds.
PushCall(t, b) ==
    /\ pc[t] = "idle" /\ ops < MaxOps
    /\ b \in held[t]
    /\ blk' = [blk EXCEPT ![t] = b]
    /\ ops' = ops + 1
    /\ Goto(t, "push_read")
    /\ UNCHANGED <<head, next, held, exp, nxt, done>>

\* Read the head word.
PushRead(t) ==
    /\ pc[t] = "push_read"
    /\ exp' = [exp EXCEPT ![t] = head]
    /\ Goto(t, "push_link")
    /\ UNCHANGED <<head, next, held, blk, nxt, ops, done>>

\* Write the head's index into the first word of the pushed block.
PushLink(t) ==
    /\ pc[t] = "push_link"
    /\ next' = [next EXCEPT ![blk[t]] = exp[t].idx]
    /\ Goto(t, "push_cas")
    /\ UNCHANGED <<head, held, blk, exp, nxt, ops, done>>

\* Mutant of PushCAS: a failed CAS is retried with the old expected word.
PushCASRetryStale(t) ==
    /\ pc[t] = "push_cas"
    /\ IF head = exp[t]
         THEN /\ head' = [idx |-> blk[t], tag |-> NextTag(head)]
              /\ held' = [held EXCEPT ![t] = @ \ {blk[t]}]
              /\ Return(t)
         ELSE UNCHANGED <<pc, head, held, done>>
    /\ UNCHANGED <<next, blk, exp, nxt, ops>>

\* CAS the head from the word read to (block : tag + 1); on failure start
\* over from the read.
PushCAS(t) ==
    /\ pc[t] = "push_cas"
    /\ IF head = exp[t]
         THEN /\ head' = [idx |-> blk[t], tag |-> NextTag(head)]
              /\ held' = [held EXCEPT ![t] = @ \ {blk[t]}]
              /\ Return(t)
         ELSE Goto(t, "push_read") /\ UNCHANGED <<head, held, done>>
    /\ UNCHANGED <<next, blk, exp, nxt, ops>>

-----------------------------------------------------------------------------
(* pop(header) *)

\* The cleaner pops.
PopCall(t) ==
    /\ pc[t] = "idle" /\ ops < MaxOps
    /\ ops' = ops + 1
    /\ Goto(t, "pop_read")
    /\ UNCHANGED <<head, next, held, blk, exp, nxt, done>>

\* Read the head word; an empty stack returns index 0.
PopRead(t) ==
    /\ pc[t] = "pop_read"
    /\ exp' = [exp EXCEPT ![t] = head]
    /\ IF head.idx = Nil THEN Return(t) ELSE Goto(t, "pop_next") /\ UNCHANGED done
    /\ UNCHANGED <<head, next, held, blk, nxt, ops>>

\* Read the first word of the block at index x min_alloc_size.
PopNext(t) ==
    /\ pc[t] = "pop_next"
    /\ nxt' = [nxt EXCEPT ![t] = next[exp[t].idx]]
    /\ Goto(t, "pop_cas")
    /\ UNCHANGED <<head, next, held, blk, exp, ops, done>>

\* Mutant of PopCAS: the new head's index is returned, not the old one.
PopCASReturnsNext(t) ==
    /\ pc[t] = "pop_cas"
    /\ IF head = exp[t]
         THEN /\ head' = [idx |-> nxt[t], tag |-> NextTag(head)]
              /\ held' = [held EXCEPT ![t] = @ \union {nxt[t]}]
              /\ Return(t)
         ELSE Goto(t, "pop_read") /\ UNCHANGED <<head, held, done>>
    /\ UNCHANGED <<next, blk, exp, nxt, ops>>

\* CAS the head from the word read to (next : tag + 1) and return the
\* index; on failure start over from the read.
PopCAS(t) ==
    /\ pc[t] = "pop_cas"
    /\ IF head = exp[t]
         THEN /\ head' = [idx |-> nxt[t], tag |-> NextTag(head)]
              /\ held' = [held EXCEPT ![t] = @ \union {exp[t].idx}]
              /\ Return(t)
         ELSE Goto(t, "pop_read") /\ UNCHANGED <<head, held, done>>
    /\ UNCHANGED <<next, blk, exp, nxt, ops>>

\* The steps of a call in progress.
Step(t) == PushRead(t) \/ PushLink(t) \/ PushCAS(t) \/ PopRead(t) \/ PopNext(t) \/ PopCAS(t)

Next ==
    \E t \in Threads :
        \/ PopCall(t) \/ \E b \in Blocks : PushCall(t, b)
        \/ Step(t)

\* Threads are scheduled by the OS: a call in progress keeps being run.
Spec == Init /\ [][Next]_vars /\ \A t \in Threads : WF_vars(Step(t))

-----------------------------------------------------------------------------
(* Properties *)

\* The indices on the stack: the chain from the head through the first
\* words, cut after NBlocks links (a longer chain has a cycle, and then
\* Nil is appended so that it is no stack of blocks).
RECURSIVE ChainFrom(_, _)
ChainFrom(i, n) ==
    IF i = Nil THEN <<>>
    ELSE IF n = 0 THEN <<Nil>>
    ELSE <<i>> \o ChainFrom(next[i], n - 1)

\* The list is a stack whose push and pop take effect at their CAS
\* (spec 4.5): the tags keep a popper that read a head word before other
\* threads popped and pushed its block again from installing a stale next.
Abstract == INSTANCE AtomicStack WITH stack <- ChainFrom(head.idx, NBlocks)
StackRefined == Abstract!Spec

\* Some thread makes progress: while a call is in progress, some call
\* eventually returns, however the CAS races go.
LockFree == \A k \in 0..MaxOps : (done = k /\ \E t \in Threads : pc[t] /= "idle") ~> done > k

=============================================================================
