--------------------------------- MODULE Heap ---------------------------------
(***************************************************************************)
(* What liballocator promises the caller of allocate and release: blocks   *)
(* of memory of at least the size asked for, of which no two overlap, and  *)
(* which stay where they are until they are released.                      *)
(***************************************************************************)
EXTENDS Integers

CONSTANTS AllocSizes, nullptr

VARIABLES
    memory,  \* the addresses the library may hand out
    blocks,  \* address of a block a caller holds -> the size asked for
    reply    \* the last call and what it returned

vars == <<memory, blocks, reply>>

Block(addr, size) == addr..(addr + size - 1)
Nothing == [addr \in 1..0 |-> 0]

Init == memory = {} /\ blocks = Nothing /\ reply.result = nullptr

\* init and clear.
Reset ==
    /\ blocks' = Nothing
    /\ reply'.op \in {"init", "clear"}

Take(size) ==
    /\ size > 0
    /\ reply'.op = "allocate" /\ reply'.size = size
    /\ LET addr == reply'.result
       IN  /\ Block(addr, size) \subseteq memory
           /\ \A b \in DOMAIN blocks :
                 addr + size <= b \/ b + blocks[b] <= addr
           /\ blocks' = [b \in DOMAIN blocks \cup {addr} |->
                            IF b = addr THEN size ELSE blocks[b]]
    /\ UNCHANGED memory

\* By the null pointer, or by an exception.
Refuse(size) ==
    /\ reply'.op \in {"allocate", "throws"}
    /\ reply'.size = size /\ reply'.result = nullptr
    /\ UNCHANGED <<memory, blocks>>

\* A block is gone as soon as it is passed to release.
GiveBack(addr) ==
    /\ blocks' = [b \in DOMAIN blocks \ {addr} |-> blocks[b]]
    /\ reply'.op = "none"
    /\ UNCHANGED memory

\* A call starts; release returns.
Acknowledge ==
    /\ reply'.op \in {"none", "release"}
    /\ UNCHANGED <<memory, blocks>>

Next ==
    \/ Reset
    \/ \E size \in AllocSizes : Refuse(size) \/ Take(size)
    \/ \E addr \in DOMAIN blocks : GiveBack(addr)
    \/ Acknowledge

Spec == Init /\ [][Next]_vars
===============================================================================
