-------------------------------- MODULE Heap --------------------------------
(***************************************************************************)
(* What every allocator promises: the blocks that clients hold are apart   *)
(* from each other and aligned as they asked.                              *)
(***************************************************************************)
EXTENDS Integers

CONSTANT Base(_)  \* the address of the first byte of a piece of memory

VARIABLE blocks   \* the blocks that are held: [at |-> memory, lo |-> offset, size, align]

Bytes(b)   == {<<b.at, i>> : i \in b.lo .. (b.lo + b.size - 1)}
Aligned(b) == (Base(b.at) + b.lo) % b.align = 0
Apart(b, others) == \A c \in others : Bytes(b) \cap Bytes(c) = {}

Init == blocks = {}

Allocate == \E b \in blocks' \ blocks :
              /\ blocks' = blocks \cup {b}
              /\ Aligned(b) /\ Apart(b, blocks)
Free == \E b \in blocks : blocks' = blocks \ {b}

\* In place: the block keeps its address; or it is moved away from all blocks, itself included.
Resize == \E b \in blocks, c \in blocks' :
            /\ blocks' = (blocks \ {b}) \cup {c}
            /\ c.align = b.align /\ Aligned(c)
            /\ \/ c.at = b.at /\ c.lo = b.lo /\ Apart(c, blocks \ {b})
               \/ Apart(c, blocks)

\* Blocks become invalid, all those of an arena at once.
Reset == blocks' \subseteq blocks

Next == Allocate \/ Free \/ Resize \/ Reset
Spec == Init /\ [][Next]_blocks
=============================================================================
