------------------------ MODULE CoalescingAllocator ------------------------
(***************************************************************************)
(* ouly::coalescing_allocator, whose clients remember offset and size of   *)
(* their blocks, and ouly::compacting_allocator, which remembers them      *)
(* under a number and can slide the blocks together.                       *)
(***************************************************************************)
EXTENDS FreeRanges

CONSTANTS
  Space,      \* the largest size_type
  Sizes,      \* the sizes of blocks, not 0
  Budgets,    \* the budgets of compact, in units; none for a coalescing_allocator
  BlockBound  \* bound: how many blocks are in use at once

CoalescingAssumption ==
  /\ Space \in Nat \ {0} /\ Sizes \subseteq Nat \ {0} /\ Budgets \subseteq Nat
  /\ BlockBound \in Nat

VARIABLES
  offsets,     \* the offsets of the free ranges
  sizes,       \* and their sizes
  entries,     \* the entry_ arrays: number |-> the block, or NoBlock
  freeEntries, \* the list that begins at free_entry_
  memory       \* what the clients' memory holds: <<1, unit>> |-> <<number, its n-th unit>>

vars == <<offsets, sizes, entries, freeEntries, memory>>

Init ==
  /\ offsets = <<0>> /\ sizes = <<Space>>
  /\ entries = <<>> /\ freeEntries = <<>>
  /\ memory = [p \in {1} \X (0 .. (Space - 1)) |-> Nothing]

Free    == [i \in DOMAIN offsets |-> Span(offsets[i], sizes[i])]
NoBlock == Span(0, 0)
Live    == {id \in DOMAIN entries : entries[id] # NoBlock}
Written(id, r) == Filled(memory, 1, r, id)

-----------------------------------------------------------------------------

\* The first free range that is large enough gives its first units, and vanishes if that is all.
Allocate(n) ==
  /\ Cardinality(Live) < BlockBound
  /\ \E i \in DOMAIN sizes :
       /\ sizes[i] >= n /\ \A j \in 1 .. (i - 1) : sizes[j] < n
       /\ LET id == IF freeEntries = <<>> THEN Len(entries) + 1 ELSE Head(freeEntries)
              block == Span(offsets[i], n)
          IN /\ offsets' = IF sizes[i] = n THEN RemoveAt(offsets, i) ELSE [offsets EXCEPT ![i] = @ + n]
             /\ sizes'   = IF sizes[i] = n THEN RemoveAt(sizes, i) ELSE [sizes EXCEPT ![i] = @ - n]
             /\ entries' = IF freeEntries = <<>> THEN Append(entries, block)
                                                 ELSE [entries EXCEPT ![id] = block]
             /\ freeEntries' = IF freeEntries = <<>> THEN <<>> ELSE Tail(freeEntries)
             /\ memory' = Written(id, block)

\* Mutant of Freed: a block that closes a gap grows the left range and leaves the right one.
FreedLeft(offset, n) ==
  LET at == LowerBound(offsets, offset)
      left == at > 0 /\ offsets[at] + sizes[at] = offset
  IN IF left THEN <<offsets, [sizes EXCEPT ![at] = @ + n]>>
     ELSE <<InsertAt(offsets, at + 1, offset), InsertAt(sizes, at + 1, n)>>

\* deallocate: the range joins the neighbours it touches, or is entered between them.
Freed(offset, n) ==
  LET at    == LowerBound(offsets, offset)
      left  == at > 0 /\ offsets[at] + sizes[at] = offset
      right == at < Len(offsets) /\ offset + n = offsets[at + 1]
  IN CASE left /\ right  -> <<RemoveAt(offsets, at + 1),
                              RemoveAt([sizes EXCEPT ![at] = @ + n + sizes[at + 1]], at + 1)>>
       [] left /\ ~right -> <<offsets, [sizes EXCEPT ![at] = @ + n]>>
       [] ~left /\ right -> <<[offsets EXCEPT ![at + 1] = offset], [sizes EXCEPT ![at + 1] = @ + n]>>
       [] OTHER -> <<InsertAt(offsets, at + 1, offset), InsertAt(sizes, at + 1, n)>>

Deallocate(id) ==
  /\ id \in Live
  /\ offsets' = Freed(entries[id].lo, entries[id].size)[1]
  /\ sizes' = Freed(entries[id].lo, entries[id].size)[2]
  /\ entries' = [entries EXCEPT ![id] = NoBlock]
  /\ freeEntries' = <<id>> \o freeEntries
  /\ memory' = Filled(memory, 1, entries[id], 0)

-----------------------------------------------------------------------------
(* compact.                                                                *)

\* One block after the other in the order of their offsets: it moves down to the cursor unless the
\* budget is spent; moves of neighbours by the same distance become one.
Slide(budget) ==
  LET Place(r, id) ==
        LET b == entries[id]
            stays == ~r.left \/ r.cursor = b.lo
            over  == ~stays /\ r.bytes + b.size > budget
            to    == IF stays \/ over THEN b.lo ELSE r.cursor
        IN [cursor  |-> to + b.size,
            left    |-> r.left /\ ~over,
            bytes   |-> IF to = b.lo THEN r.bytes ELSE r.bytes + b.size,
            moves   |-> IF to = b.lo THEN r.moves
                        ELSE Joined(r.moves, [src |-> 1, dst |-> 1, from |-> b.lo, to |-> to, size |-> b.size]),
            entries |-> [r.entries EXCEPT ![id].lo = to],
            free    |-> IF to > r.cursor THEN Append(r.free, Span(r.cursor, to - r.cursor)) ELSE r.free]
      all == FoldLeft(Place, [cursor |-> 0, left |-> TRUE, bytes |-> 0, moves |-> <<>>,
                              entries |-> entries, free |-> <<>>],
                      SetToSortSeq(Live, LAMBDA a, b : entries[a].lo < entries[b].lo))
  IN IF all.cursor = Space THEN all
     ELSE [all EXCEPT !.free = Append(@, Span(all.cursor, Space - all.cursor))]

Compact(budget) ==
  /\ LET r == Slide(budget) IN
       /\ offsets' = [i \in DOMAIN r.free |-> r.free[i].lo]
       /\ sizes'   = [i \in DOMAIN r.free |-> r.free[i].size]
       /\ entries' = r.entries
       /\ memory'  = Kept(Moved(memory, r.moves), {<<1, r.entries[id]>> : id \in Live})
  /\ UNCHANGED freeEntries

Next ==
  \/ \E n \in Sizes : Allocate(n)
  \/ \E id \in DOMAIN entries : Deallocate(id)
  \/ \E budget \in Budgets : Compact(budget)

Spec == Init /\ [][Next]_vars

-----------------------------------------------------------------------------
(* Properties.                                                             *)

\* Every variable has its type.
TypeOK ==
  /\ DOMAIN offsets = DOMAIN sizes
  /\ Len(freeEntries) + Cardinality(Live) = Len(entries)

\* Blocks and free ranges cover the space exactly once and free neighbours are merged, after
\* whatever sequence of calls.
LayoutExact == Tiles(Free, {entries[id] : id \in Live}, Space)

\* Every block has its contents, also when compact moved it: no move overwrote what was not moved.
ContentsKept == \A id \in Live : Holds(memory, 1, entries[id], id)
=============================================================================
