----------------------------- MODULE AtomicStack -----------------------------
(***************************************************************************)
(* What a delayed-free list promises (spec 4.5): a stack of block indices *)
(* whose push and pop each take effect at one instant.  A block is on the  *)
(* stack or held by exactly one thread.                                    *)
(***************************************************************************)
EXTENDS Sequences, FiniteSets

CONSTANTS Threads, Blocks

VARIABLES
    stack,   \* the indices on the stack, top first
    held     \* per thread: the blocks it has popped and not pushed again

\* Every block is on the stack, once; no thread holds one.
Init ==
    /\ Len(stack) = Cardinality(Blocks)
    /\ {stack[i] : i \in DOMAIN stack} = Blocks
    /\ held = [t \in Threads |-> {}]

\* Thread t pushes block b it holds.
Push(t, b) ==
    /\ b \in held[t]
    /\ stack' = <<b>> \o stack
    /\ held' = [held EXCEPT ![t] = @ \ {b}]

\* Thread t pops the top block.
Pop(t) ==
    /\ stack /= <<>>
    /\ stack' = Tail(stack)
    /\ held' = [held EXCEPT ![t] = @ \union {Head(stack)}]

Next == \E t \in Threads : Pop(t) \/ \E b \in Blocks : Push(t, b)

Spec == Init /\ [][Next]_<<stack, held>>

=============================================================================
