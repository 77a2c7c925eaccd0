--------------------------- MODULE BestFitDefrag ---------------------------
(***************************************************************************)
(* ouly::coalescing_arena_allocator, whose free blocks are kept sorted by  *)
(* their size, and ouly::best_fit_defrag_allocator, which adds the         *)
(* defragmentation.  A block is as large as the request and the padding    *)
(* that its alignment may need; the client uses an aligned part of it.     *)
(* Calls are serialised, a call is a step.  A number or a slot that is not *)
(* in use is as good as any other: the least one is taken.                 *)
(***************************************************************************)
EXTENDS FreeRanges

CONSTANTS
  ArenaSize,  \* arena_size_
  Requests,   \* what clients ask for: <<size, alignment>>, not 0 and a power of two
  Budgets,    \* the budgets of defragment, in units; none for a coalescing_arena_allocator
  Arenas,     \* bound: how many slots for arenas, as 1 .. Arenas
  Extent,     \* bound: an upper bound of the arenas' sizes
  BlockBound  \* bound: how many blocks are in use at once

BestFitAssumption ==
  /\ {ArenaSize, Arenas, Extent} \cup UNION {{q[1], q[2]} : q \in Requests} \subseteq Nat \ {0}
  /\ Budgets \subseteq Nat /\ BlockBound \in Nat

VARIABLES
  arenas,      \* arena_entries_: the numbers of the blocks in the order of their offsets, ...
  order,       \* arenas_
  blocks,      \* block_entries_
  sizes,       \* sizes_: the sizes of the free blocks, ascending
  ordering,    \* free_ordering_: and their numbers
  memory       \* what the arenas hold

vars == <<arenas, order, blocks, sizes, ordering, memory>>

NoArena == [blocks |-> <<>>, size |-> 0, free |-> 0]
Block(a, lo, n, free) == [arena |-> a, lo |-> lo, size |-> n, free |-> free, align |-> 1, dedicated |-> FALSE]
NoBlock == Block(0, 0, 0, TRUE)

Init ==
  /\ arenas = [a \in 1 .. Arenas |-> NoArena] /\ order = <<>>
  /\ blocks = [id \in 1 .. (2 * BlockBound + Arenas) |-> NoBlock]
  /\ sizes = <<>> /\ ordering = <<>>
  /\ memory = [p \in (1 .. Arenas) \X (0 .. (Extent - 1)) |-> Nothing]

State == [arenas |-> arenas, order |-> order, blocks |-> blocks,
          sizes |-> sizes, ordering |-> ordering]
Becomes(s) ==
  /\ arenas' = s.arenas /\ order' = s.order /\ blocks' = s.blocks
  /\ sizes' = s.sizes /\ ordering' = s.ordering

InUse(s) == {id \in DOMAIN s.blocks : ~s.blocks[id].free}
\* The part of block b that its client uses.
Used(b) == Span(AlignedUp(b.lo, b.align), b.size - b.align + 1)

-----------------------------------------------------------------------------
(* Numbers, and the two arrays of free blocks.                             *)

NewId(s)   == CHOOSE x \in DOMAIN s.blocks : s.blocks[x] = NoBlock /\ \A y \in 1 .. (x - 1) : s.blocks[y] # NoBlock
Push(s, b)  == [s EXCEPT !.blocks[NewId(s)] = b]
Drop(s, id) == [s EXCEPT !.blocks[id] = NoBlock]

\* Where the free block id is in the arrays: from the first of its size on.
IndexOf(s, id) ==
  LET from == LowerBound(s.sizes, s.blocks[id].size) + 1
      is == {i \in from .. Len(s.ordering) : s.ordering[i] = id}
  IN CHOOSE i \in is : \A j \in is : i <= j

Removed(s, i) == [s EXCEPT !.sizes = RemoveAt(@, i), !.ordering = RemoveAt(@, i)]
Inserted(s, at, n, id) == [s EXCEPT !.sizes = InsertAt(@, at + 1, n), !.ordering = InsertAt(@, at + 1, id)]

\* add_free.
AddFree(s, id) == Inserted(s, LowerBound(s.sizes, s.blocks[id].size), s.blocks[id].size, id)

\* Mutant of ReinsertRight: the grown block stays where it was.
ReinsertRightInPlace(s, i, n, id) == [s EXCEPT !.sizes[i] = n, !.ordering[i] = id]

\* reinsert_left, reinsert_right: entry i is now block id of size n, and moves to the left or right.
ReinsertLeft(s, i, n, id) ==
  LET r == Removed(s, i) IN Inserted(r, LowerBound(SubSeq(s.sizes, 1, i - 1), n), n, id)
ReinsertRight(s, i, n, id) ==
  LET r == Removed(s, i)
  IN Inserted(r, i - 1 + LowerBound(SubSeq(s.sizes, i + 1, Len(s.sizes)), n), n, id)

-----------------------------------------------------------------------------
(* allocate.                                                               *)

\* add_arena.
AddArena(s, n, free) ==
  LET a  == CHOOSE x \in DOMAIN s.arenas : ~Contains(s.order, x) /\ \A y \in 1 .. (x - 1) : Contains(s.order, y)
      id == NewId(s)
      p  == Push(s, Block(a, 0, n, free))
      f  == IF free THEN [p EXCEPT !.sizes = Append(@, n), !.ordering = Append(@, id)] ELSE p
  IN [f EXCEPT !.arenas[a] = [blocks |-> <<id>>, size |-> n, free |-> IF free THEN n ELSE 0],
               !.order = Append(@, a)]

\* find_free and commit: the smallest free block that is large enough; what is left is a new block.
Best(s, n) == LowerBound(s.sizes, n) + 1
Commit(s, n) ==
  LET i    == Best(s, n)
      id   == s.ordering[i]
      a    == s.blocks[id].arena
      rest == s.sizes[i] - n
      new  == NewId(s)
      t    == [s EXCEPT !.blocks[id].free = FALSE, !.blocks[id].size = n, !.arenas[a].free = @ - n]
      u    == Push(t, Block(a, s.blocks[id].lo + n, rest, TRUE))
      at   == CHOOSE k \in DOMAIN s.arenas[a].blocks : s.arenas[a].blocks[k] = id
  IN IF rest = 0 THEN Removed(t, i)
     ELSE ReinsertLeft([u EXCEPT !.arenas[a].blocks = InsertAt(@, at + 1, new)], i, rest, new)

\* The block of the request is entered with its alignment.
Given(s, id, align, dedicated) ==
  /\ Becomes([s EXCEPT !.blocks[id].align = align, !.blocks[id].dedicated = dedicated])
  /\ LET b == [s.blocks[id] EXCEPT !.align = align] IN memory' = Filled(memory, b.arena, Used(b), id)

Allocate(n, align, dedicated) ==
  /\ Cardinality(InUse(State)) < BlockBound
  /\ LET size == n + align - 1
         own  == dedicated \/ size >= ArenaSize
         room == sizes # <<>> /\ Last(sizes) >= size
         s    == IF own THEN AddArena(State, size, FALSE)
                 ELSE IF room THEN State ELSE AddArena(State, ArenaSize, TRUE)
     IN /\ (own \/ ~room) => Len(order) < Arenas
        /\ own => size <= Extent
        /\ IF own THEN Given(s, NewId(State), align, TRUE)
           ELSE Given(Commit(s, size), s.ordering[Best(s, size)], align, FALSE)

-----------------------------------------------------------------------------
(* deallocate.                                                             *)

\* The blocks of arena a without those of the set, whose numbers are free.
Unlinked(s, a, ids) ==
  FoldLeft(Drop, [s EXCEPT !.arenas[a].blocks = SelectSeq(@, LAMBDA x : x \notin {ids[i] : i \in DOMAIN ids})], ids)

Freed(s, id) ==
  LET b     == s.blocks[id]
      a     == b.arena
      list  == s.arenas[a].blocks
      at    == CHOOSE k \in DOMAIN list : list[k] = id
      left  == IF at > 1 /\ s.blocks[list[at - 1]].free THEN list[at - 1] ELSE 0
      right == IF at < Len(list) /\ s.blocks[list[at + 1]].free THEN list[at + 1] ELSE 0
      SizeOf(x) == IF x = 0 THEN 0 ELSE s.blocks[x].size
      Erased(t, x) == IF x = 0 THEN t ELSE Removed(t, IndexOf(t, x))
      t     == [s EXCEPT !.arenas[a].free = @ + b.size]
      all   == SizeOf(left) + b.size + SizeOf(right)
      Grown(u, x) == ReinsertRight([u EXCEPT !.blocks[x].size = all], IndexOf(u, x), all, x)
  IN IF t.arenas[a].free = t.arenas[a].size
       THEN [Unlinked(Erased(Erased(t, left), right), a, list) EXCEPT
               !.arenas[a] = NoArena, !.order = SelectSeq(@, LAMBDA x : x # a)]
     ELSE CASE left = 0 /\ right = 0 -> AddFree([t EXCEPT !.blocks[id].free = TRUE], id)
            [] left # 0 /\ right = 0 -> Unlinked(Grown(t, left), a, <<id>>)
            [] left = 0 /\ right # 0 ->
                 Unlinked(ReinsertRight([t EXCEPT !.blocks[id].size = all, !.blocks[id].free = TRUE],
                                        IndexOf(t, right), all, id), a, <<right>>)
            [] OTHER -> Unlinked(Grown(Erased(t, right), left), a, <<id, right>>)

Deallocate(id) ==
  /\ id \in InUse(State)
  /\ Becomes(Freed(State, id))
  /\ memory' = Filled(memory, blocks[id].arena, Used(blocks[id]), 0)

-----------------------------------------------------------------------------
(* defragment.                                                             *)

\* The blocks in the order of arenas and offsets.
InOrder == FlattenSeq([i \in DOMAIN order |-> arenas[order[i]].blocks])

\* Mutant of FindPlacement: an arena is tried that comes after the block's own.
FindPlacementAnywhere(b, cursor) ==
  LET room == {k \in DOMAIN order : order[k] # b.arena /\ cursor[order[k]] + b.size <= arenas[order[k]].size}
      a == IF room = {} THEN b.arena ELSE order[CHOOSE k \in room : \A j \in room : k <= j]
  IN <<a, cursor[a]>>

\* find_placement: the earliest arena before its own with room after what was placed there.
FindPlacement(b, cursor) ==
  LET pos  == CHOOSE i \in DOMAIN order : order[i] = b.arena
      room == {k \in 1 .. (pos - 1) : cursor[order[k]] + b.size <= arenas[order[k]].size}
      a == IF room = {} THEN b.arena ELSE order[CHOOSE k \in room : \A j \in room : k <= j]
  IN <<a, cursor[a]>>

Planned(budget) ==
  LET Place(r, id) ==
        LET b == blocks[id]
            here   == <<b.arena, b.lo>>
            target == IF r.left /\ ~b.dedicated THEN FindPlacement(b, r.cursor) ELSE here
            over   == target # here /\ r.bytes + Used(b).size > budget
            place  == IF over THEN here ELSE target
            moved  == [b EXCEPT !.arena = place[1], !.lo = place[2]]
        IN IF b.free THEN r
           ELSE [left   |-> r.left /\ ~over,
                 bytes  |-> IF place = here THEN r.bytes ELSE r.bytes + Used(b).size,
                 moves  |-> IF place = here THEN r.moves
                            ELSE Joined(r.moves, [src |-> b.arena, dst |-> place[1], from |-> Used(b).lo,
                                                  to |-> Used(moved).lo, size |-> Used(b).size]),
                 cursor |-> [r.cursor EXCEPT ![place[1]] = place[2] + b.size],
                 blocks |-> [r.blocks EXCEPT ![id] = moved]]
  IN FoldLeft(Place, [left |-> TRUE, bytes |-> 0, moves |-> <<>>,
                      cursor |-> [a \in DOMAIN arenas |-> 0], blocks |-> blocks], InOrder)

\* rebuild_lists, for arena a: its blocks, and a free block for each gap and for the rest.
Rebuilt(s, a) ==
  LET ids == SetToSortSeq({id \in InUse(State) : s.blocks[id].arena = a},
                          LAMBDA x, y : s.blocks[x].lo < s.blocks[y].lo)
      Gap(r, n) == IF n = 0 THEN r
                   ELSE [Push(r, Block(a, r.pos, n, TRUE)) EXCEPT !.list = Append(@, NewId(r))]
      Put(r, id) == [Gap(r, r.blocks[id].lo - r.pos) EXCEPT
                       !.list = Append(@, id), !.pos = r.blocks[id].lo + r.blocks[id].size,
                       !.used = @ + r.blocks[id].size]
      all  == FoldLeft(Put, [blocks |-> s.blocks, list |-> <<>>, pos |-> 0, used |-> 0], ids)
      last == Gap(all, arenas[a].size - all.pos)
  IN IF ids = <<>> THEN [s EXCEPT !.arenas[a] = NoArena, !.order = SelectSeq(@, LAMBDA x : x # a)]
     ELSE [s EXCEPT !.blocks = last.blocks,
                    !.arenas[a] = [blocks |-> last.list, size |-> arenas[a].size,
                                   free |-> arenas[a].size - last.used]]

Sorted(s) ==
  LET free == {id \in DOMAIN s.blocks : s.blocks[id].free /\ s.blocks[id] # NoBlock}
      list == SetToSortSeq(free, LAMBDA x, y : \/ s.blocks[x].size < s.blocks[y].size
                                               \/ s.blocks[x].size = s.blocks[y].size /\ x < y)
  IN [s EXCEPT !.ordering = list, !.sizes = [i \in DOMAIN list |-> s.blocks[list[i]].size]]

Defragment(budget) ==
  LET plan == Planned(budget)
      s == FoldLeft(Drop, [State EXCEPT !.blocks = plan.blocks], SelectSeq(InOrder, LAMBDA id : blocks[id].free))
      t == Sorted(FoldLeft(Rebuilt, s, SortSeq(order, <)))
  IN /\ Becomes(t)
     /\ memory' = Kept(Moved(memory, plan.moves),
                       {<<plan.blocks[id].arena, Used(plan.blocks[id])>> : id \in InUse(State)})

Next ==
  \/ \E q \in Requests, dedicated \in BOOLEAN : Allocate(q[1], q[2], dedicated)
  \/ \E id \in DOMAIN blocks : Deallocate(id)
  \/ \E budget \in Budgets : Defragment(budget)

Spec == Init /\ [][Next]_vars

-----------------------------------------------------------------------------
(* Properties.                                                             *)

Blocks(a) == {arenas[a].blocks[i] : i \in DOMAIN arenas[a].blocks}

\* Every variable has its type.
TypeOK ==
  /\ IsInjective(order) /\ \A i \in DOMAIN order : order[i] \in DOMAIN arenas
  /\ DOMAIN sizes = DOMAIN ordering
  /\ \A id \in UNION {Blocks(a) : a \in DOMAIN arenas} : id \in DOMAIN blocks

\* In every arena the blocks follow each other without gap and overlap, no two free ones are
\* neighbours, an arena in use has a block in use, and every block is in the list of its arena.
LayoutExact ==
  /\ \A a \in DOMAIN arenas :
       LET A == arenas[a]
           End(i) == IF i = 0 THEN 0 ELSE blocks[A.blocks[i]].lo + blocks[A.blocks[i]].size
       IN /\ \A i \in DOMAIN A.blocks : LET b == blocks[A.blocks[i]] IN
               b.arena = a /\ b.lo = End(i - 1) /\ b.size > 0
          /\ End(Len(A.blocks)) = A.size
          /\ \A i \in 1 .. (Len(A.blocks) - 1) : ~blocks[A.blocks[i]].free \/ ~blocks[A.blocks[i + 1]].free
          /\ A.free = FoldLeft(LAMBDA x, id : IF blocks[id].free THEN x + blocks[id].size ELSE x, 0, A.blocks)
          /\ Contains(order, a) <=> Blocks(a) \cap InUse(State) # {}
  /\ \A id \in DOMAIN blocks : blocks[id] # NoBlock => Contains(arenas[blocks[id].arena].blocks, id)

\* The arrays list every free block once with its size, in ascending order.
FreeSorted ==
  /\ IsInjective(ordering)
  /\ {ordering[i] : i \in DOMAIN ordering} = {id \in DOMAIN blocks : blocks[id].free /\ blocks[id] # NoBlock}
  /\ \A i \in DOMAIN sizes : sizes[i] = blocks[ordering[i]].size
  /\ \A i \in 1 .. (Len(sizes) - 1) : sizes[i] <= sizes[i + 1]

\* What a client uses of its block is as large as it asked for, and has its contents wherever the
\* block was moved.
ContentsKept ==
  \A id \in InUse(State) : LET b == blocks[id] IN
    SpanEnd(Used(b)) <= b.lo + b.size /\ Holds(memory, b.arena, Used(b), id)
=============================================================================
