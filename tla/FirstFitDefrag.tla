--------------------------- MODULE FirstFitDefrag ---------------------------
(***************************************************************************)
(* ouly::first_fit_defrag_allocator: blocks in arenas that a memory        *)
(* manager provides, and the defragmentation that moves blocks to the      *)
(* front of earlier arenas.  Calls are serialised, a call is a step, and   *)
(* the manager completes each move before it returns.  A number or a slot  *)
(* that is not in use is as good as any other: the least one is taken.     *)
(***************************************************************************)
EXTENDS FreeRanges

CONSTANTS
  ArenaSize,  \* arena_size_
  Requests,   \* what clients ask for: <<size, alignment>>, not 0 and a power of two
  Budgets,    \* the budgets of defragment, in units
  Arenas,     \* bound: how many slots for arenas, as 1 .. Arenas
  Extent,     \* bound: an upper bound of the arenas' sizes
  BlockBound  \* bound: how many blocks are in use at once

FirstFitAssumption ==
  /\ {ArenaSize, Arenas, Extent} \cup UNION {{q[1], q[2]} : q \in Requests} \subseteq Nat \ {0}
  /\ Budgets \subseteq Nat /\ BlockBound \in Nat

VARIABLES
  arenas,      \* arena_pool_, without the slot 0
  order,       \* arena_order_
  entries,     \* the entry_ arrays
  memory       \* what the arenas hold

vars == <<arenas, order, entries, memory>>

NoArena == [size |-> 0, free |-> 0, ranges |-> <<>>, blocks |-> 0]
NoBlock == [live |-> FALSE, arena |-> 0, lo |-> 0, size |-> 0, align |-> 1, dedicated |-> FALSE]

Init ==
  /\ arenas = [a \in 1 .. Arenas |-> NoArena] /\ order = <<>>
  /\ entries = [id \in 1 .. BlockBound |-> NoBlock]
  /\ memory = [p \in (1 .. Arenas) \X (0 .. (Extent - 1)) |-> Nothing]

Live       == {id \in DOMAIN entries : entries[id].live}
Extents(e, id) == Span(e[id].lo, e[id].size)
Written(id, b) == Filled(memory, b.arena, Span(b.lo, b.size), id)

-----------------------------------------------------------------------------
(* allocate.                                                               *)

Least(S) == CHOOSE x \in S : \A y \in S : x <= y
NewId    == Least(DOMAIN entries \ Live)
NewArena == Least({a \in DOMAIN arenas : ~Contains(order, a)})

\* push_entry.
Enter(b) ==
  /\ entries' = [entries EXCEPT ![NewId] = b]
  /\ memory' = Written(NewId, b)

\* create_arena, with its first block in place.
Create(A, b) ==
  /\ Len(order) < Arenas
  /\ arenas' = [arenas EXCEPT ![NewArena] = A]
  /\ order' = Append(order, NewArena)
  /\ Enter(b)

\* try_allocate: where the block begins, what is left; the padding before it stays free.
Taken(A, n, align) ==
  LET i  == FirstFit(A.ranges, n, align)
      lo == AlignedUp(A.ranges[i].lo, align)
  IN [A EXCEPT !.ranges = Occupy(@, i, lo, n), !.free = @ - n, !.blocks = @ + 1]
Begin(A, n, align) == AlignedUp(A.ranges[FirstFit(A.ranges, n, align)].lo, align)

Block(a, lo, n, align, dedicated) ==
  [live |-> TRUE, arena |-> a, lo |-> lo, size |-> n, align |-> align, dedicated |-> dedicated]

Allocate(n, align) ==
  /\ Live # DOMAIN entries
  /\ n + align - 1 < ArenaSize
  /\ LET fits == {i \in DOMAIN order : LET A == arenas[order[i]] IN
                    A.free >= n /\ FirstFit(A.ranges, n, align) # 0}
         a    == order[CHOOSE i \in fits : \A j \in fits : i <= j]
         fresh == [size |-> ArenaSize, free |-> ArenaSize, ranges |-> <<Span(0, ArenaSize)>>, blocks |-> 0]
     IN IF fits # {}
          THEN /\ arenas' = [arenas EXCEPT ![a] = Taken(@, n, align)]
               /\ Enter(Block(a, Begin(arenas[a], n, align), n, align, FALSE))
               /\ UNCHANGED order
          ELSE Create(Taken(fresh, n, align), Block(NewArena, 0, n, align, FALSE))

\* A block that asks for it, or that fills an arena, has an arena of its own and stays in it.
AllocateDedicated(n, align) ==
  /\ Live # DOMAIN entries
  /\ n <= Extent
  /\ Create([size |-> n, free |-> 0, ranges |-> <<>>, blocks |-> 1], Block(NewArena, 0, n, align, TRUE))

-----------------------------------------------------------------------------
(* deallocate.                                                             *)

Deallocate(id) ==
  /\ entries[id].live
  /\ LET b == entries[id]  a == b.arena IN
       /\ IF arenas[a].blocks = 1
            THEN /\ arenas' = [arenas EXCEPT ![a] = NoArena]
                 /\ order' = SelectSeq(order, LAMBDA x : x # a)
            ELSE /\ arenas' = [arenas EXCEPT ![a].ranges = Release(@, b.lo, b.size),
                                             ![a].free = @ + b.size, ![a].blocks = @ - 1]
                 /\ UNCHANGED order
       /\ memory' = Filled(memory, a, Span(b.lo, b.size), 0)
  /\ entries' = [entries EXCEPT ![id] = NoBlock]

-----------------------------------------------------------------------------
(* defragment.                                                             *)

Position(a) == CHOOSE i \in DOMAIN order : order[i] = a

\* snapshot_allocations: by arena, then by offset.
Snapshot ==
  SetToSortSeq(Live, LAMBDA x, y :
    LET px == Position(entries[x].arena)  py == Position(entries[y].arena)
    IN IF px # py THEN px < py ELSE entries[x].lo < entries[y].lo)

\* Mutant of FindPlacement: a later arena with room will do as well.
FindPlacementAnywhere(b, cursor) ==
  LET at(a) == AlignedUp(cursor[a], b.align)
      room == {k \in DOMAIN order : order[k] = b.arena \/ at(order[k]) + b.size <= arenas[order[k]].size}
      a == order[CHOOSE k \in room : \A j \in room : k >= j]
  IN <<a, at(a)>>

\* find_placement: the earliest arena, up to its own, with room after what was placed there.
FindPlacement(b, cursor) ==
  LET at(a) == AlignedUp(cursor[a], b.align)
      room == {k \in 1 .. Position(b.arena) :
                 order[k] = b.arena \/ at(order[k]) + b.size <= arenas[order[k]].size}
      a == order[CHOOSE k \in room : \A j \in room : k <= j]
  IN <<a, at(a)>>

\* One block after the other: it is placed, or stays because it is pinned or the budget is spent.
Planned(budget) ==
  LET Place(r, id) ==
        LET b == entries[id]
            target == IF r.left /\ ~b.dedicated THEN FindPlacement(b, r.cursor) ELSE <<b.arena, b.lo>>
            over   == target # <<b.arena, b.lo>> /\ r.bytes + b.size > budget
            place  == IF over THEN <<b.arena, b.lo>> ELSE target
            moves  == place # <<b.arena, b.lo>>
        IN [left    |-> r.left /\ ~over,
            bytes   |-> IF moves THEN r.bytes + b.size ELSE r.bytes,
            moves   |-> IF moves THEN Joined(r.moves, [src |-> b.arena, dst |-> place[1], from |-> b.lo,
                                                       to |-> place[2], size |-> b.size])
                        ELSE r.moves,
            cursor  |-> [r.cursor EXCEPT ![place[1]] = place[2] + b.size],
            entries |-> [r.entries EXCEPT ![id].arena = place[1], ![id].lo = place[2]]]
  IN FoldLeft(Place, [left |-> TRUE, bytes |-> 0, moves |-> <<>>,
                      cursor |-> [a \in DOMAIN arenas |-> 0], entries |-> entries], Snapshot)

\* apply_plan: the free ranges are the gaps between the blocks in order, and the rest.
Gaps(e, a) ==
  LET ids == SetToSortSeq({id \in Live : e[id].arena = a}, LAMBDA x, y : e[x].lo < e[y].lo)
      r == FoldLeft(LAMBDA s, id : [pos |-> SpanEnd(Extents(e, id)),
                                    free |-> IF e[id].lo > s.pos THEN Append(s.free, Span(s.pos, e[id].lo - s.pos))
                                             ELSE s.free],
                    [pos |-> 0, free |-> <<>>], ids)
  IN IF r.pos < arenas[a].size THEN Append(r.free, Span(r.pos, arenas[a].size - r.pos)) ELSE r.free
Applied(e, a) ==
  LET ids == {id \in Live : e[id].arena = a}
  IN [arenas[a] EXCEPT !.ranges = Gaps(e, a), !.blocks = Cardinality(ids),
                       !.free = arenas[a].size - FoldLeft(LAMBDA x, id : x + e[id].size, 0, SetToSeq(ids))]

Defragment(budget) ==
  LET plan  == Planned(budget)
      empty == SelectSeq(order, LAMBDA a : \A id \in Live : plan.entries[id].arena # a)
  IN /\ entries' = plan.entries
     /\ arenas' = [a \in DOMAIN arenas |-> IF Contains(order, a) /\ ~Contains(empty, a)
                                             THEN Applied(plan.entries, a) ELSE NoArena]
     /\ order' = SelectSeq(order, LAMBDA a : ~Contains(empty, a))
     /\ memory' = Kept(Moved(memory, plan.moves),
                       {<<plan.entries[id].arena, Extents(plan.entries, id)>> : id \in Live})

Next ==
  \/ \E q \in Requests : Allocate(q[1], q[2]) \/ AllocateDedicated(q[1], q[2])
  \/ \E id \in DOMAIN entries : Deallocate(id)
  \/ \E budget \in Budgets : Defragment(budget)

Spec == Init /\ [][Next]_vars

-----------------------------------------------------------------------------
(* Properties.                                                             *)

\* Every variable has its type.
TypeOK ==
  /\ DOMAIN arenas = 1 .. Arenas /\ DOMAIN entries = 1 .. BlockBound
  /\ IsInjective(order) /\ \A i \in DOMAIN order : order[i] \in DOMAIN arenas
  /\ \A id \in Live : entries[id].lo % entries[id].align = 0

\* In every arena in use the blocks and the free ranges cover it exactly once with free neighbours
\* merged, the counters are right and there is a block; an arena that is not in use has none.
LayoutExact ==
  \A a \in DOMAIN arenas :
    LET ids == {id \in Live : entries[id].arena = a}  A == arenas[a] IN
    /\ Tiles(A.ranges, {Extents(entries, id) : id \in ids}, A.size)
    /\ A.blocks = Cardinality(ids)
    /\ A.free = A.size - FoldLeft(LAMBDA x, id : x + entries[id].size, 0, SetToSeq(ids))
    /\ Contains(order, a) <=> ids # {}

\* Every block has its contents, wherever it was moved: no move of a defragmentation overwrote what
\* a later one moves, and joined moves move the same units.
ContentsKept == \A id \in Live : Holds(memory, entries[id].arena, Extents(entries, id), id)
=============================================================================
