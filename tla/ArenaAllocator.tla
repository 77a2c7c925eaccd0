--------------------------- MODULE ArenaAllocator ---------------------------
(***************************************************************************)
(* ouly::arena_allocator with a memory manager and one of its strategies,  *)
(* which keep the free blocks sorted by size (best_fit_v2), in a list      *)
(* (greedy_v1) or in slots (greedy_v0).  Calls are serialised, a call is a *)
(* step, and the manager completes each move before it returns.  The       *)
(* numbers of arenas are reused last in first out, those of blocks as it   *)
(* comes: the least one that is not in use is taken.                       *)
(***************************************************************************)
EXTENDS FreeRanges

CONSTANTS
  Strategies, \* of "sorted", "list", "slots"
  ArenaSize,  \* arena_size_
  Requests,   \* what clients ask for: <<size, alignment>>, not 0 and a power of two
  Arenas,     \* bound: how many arenas at once, as 1 .. Arenas
  BlockBound, \* bound: how many blocks are in use at once
  FreeBound   \* bound: how long the strategy's list may be for a call to be made

ArenaAssumption ==
  /\ {ArenaSize, Arenas} \cup UNION {{q[1], q[2]} : q \in Requests} \subseteq Nat \ {0}
  /\ {BlockBound, FreeBound} \subseteq Nat
  /\ Strategies \subseteq {"sorted", "list", "slots"}

VARIABLES
  strategy,    \* the strategy of this allocator
  arenas,      \* arenas_ without its sentinel
  freeArenas,  \* free_pool_ of arenas_
  order,       \* arena_order_
  blocks,      \* blocks_
  free,        \* the free blocks as the strategy keeps them; 0 is a slot without one
  freeSlot     \* free_slot_ of greedy_v0

vars == <<strategy, arenas, freeArenas, order, blocks, free, freeSlot>>

NoArena == [blocks |-> <<>>, size |-> 0, free |-> 0, data |-> 0]
\* asked: the alignment the client asked for; align: the one that is recorded.
Block(a, lo, n, unused) == [arena |-> a, lo |-> lo, size |-> n, free |-> unused, align |-> 1, asked |-> 1]
NoBlock == Block(0, 0, 0, TRUE)

Fresh(list) == [arenas |-> [a \in 1 .. Arenas |-> NoArena], freeArenas |-> <<>>, order |-> <<>>,
                blocks |-> list, free |-> <<>>, freeSlot |-> 0]
Empty == [id \in 1 .. (2 * BlockBound + Arenas) |-> NoBlock]

State == [arenas |-> arenas, freeArenas |-> freeArenas, order |-> order, blocks |-> blocks,
          free |-> free, freeSlot |-> freeSlot]
Becomes(s) ==
  /\ arenas' = s.arenas /\ freeArenas' = s.freeArenas /\ order' = s.order
  /\ blocks' = s.blocks /\ free' = s.free /\ freeSlot' = s.freeSlot
  /\ UNCHANGED strategy

Init ==
  /\ strategy \in Strategies
  /\ arenas = Fresh(Empty).arenas /\ freeArenas = <<>> /\ order = <<>>
  /\ blocks = Empty /\ free = <<>> /\ freeSlot = 0

InUse(s) == {id \in DOMAIN s.blocks : ~s.blocks[id].free}
\* The part of block b that its client uses.
Used(b) == Span(AlignedUp(b.lo, b.align), b.size - b.align + 1)

Least(S) == CHOOSE x \in S : \A y \in S : x <= y
NewId(s) == Least({x \in DOMAIN s.blocks : s.blocks[x] = NoBlock})
Push(s, b)  == [s EXCEPT !.blocks[NewId(s)] = b]
Drop(s, id) == [s EXCEPT !.blocks[id] = NoBlock]

-----------------------------------------------------------------------------
(* The strategies.                                                         *)

At(s, id) == CHOOSE i \in DOMAIN s.free : s.free[i] = id
SizesOf(s) == [i \in DOMAIN s.free |-> s.blocks[s.free[i]].size]

SortedAdd(s, id) == [s EXCEPT !.free = InsertAt(@, LowerBound(SizesOf(s), s.blocks[id].size) + 1, id)]
ListAdd(s, id)   == [s EXCEPT !.free = <<id>> \o @]
\* ensure_free_slot: slot 0 is never found again, and taking a slot forgets the others.
SlotsAdd(s, id)  == IF s.freeSlot = 0 THEN [s EXCEPT !.free = Append(@, id)]
                    ELSE [s EXCEPT !.free[s.freeSlot + 1] = id, !.freeSlot = 0]
SlotsErase(s, id) == [s EXCEPT !.free[At(s, id)] = 0, !.freeSlot = At(s, id) - 1]

\* add_free, erase.
AddFree(s, id) == CASE strategy = "sorted" -> SortedAdd(s, id)
                    [] strategy = "list"   -> ListAdd(s, id)
                    [] strategy = "slots"  -> SlotsAdd(s, id)
Erase(s, id) == IF strategy = "slots" THEN SlotsErase(s, id)
                ELSE [s EXCEPT !.free = RemoveAt(@, At(s, id))]

\* Mutant of Replace: the old entry stays.
ReplaceKeeping(s, old, new, n) == AddFree([s EXCEPT !.blocks[new].size = n], new)

\* grow_free_node, replace_and_grow: block old is not free any more, new of size n is.
Replace(s, old, new, n) == AddFree([Erase(s, old) EXCEPT !.blocks[new].size = n], new)

\* try_allocate: the first entry that is large enough, or 0.
Found(s, n) ==
  LET large == {i \in DOMAIN s.free : s.free[i] # 0 /\ s.blocks[s.free[i]].size >= n}
  IN IF large = {} THEN 0 ELSE s.free[CHOOSE i \in large : \A j \in large : i <= j]

\* commit: what is left of block id is a new block, which takes its entry or is sorted in.
Commit(s, id, n) ==
  LET a    == s.blocks[id].arena
      rest == s.blocks[id].size - n
      new  == NewId(s)
      at   == CHOOSE k \in DOMAIN s.arenas[a].blocks : s.arenas[a].blocks[k] = id
      t    == [s EXCEPT !.blocks[id].free = FALSE, !.blocks[id].size = n, !.arenas[a].free = @ - n]
      u    == [Push(t, Block(a, s.blocks[id].lo + n, rest, TRUE)) EXCEPT
                 !.arenas[a].blocks = InsertAt(@, at + 1, new)]
  IN IF rest = 0 THEN Erase(t, id)
     ELSE IF strategy = "sorted" THEN SortedAdd([u EXCEPT !.free = RemoveAt(@, At(s, id))], new)
     ELSE [u EXCEPT !.free[At(s, id)] = new]

-----------------------------------------------------------------------------
(* allocate.                                                               *)

\* The number that the next arena has.
NewArena(s) == IF s.freeArenas = <<>> THEN Least({a \in DOMAIN s.arenas : s.arenas[a] = NoArena})
               ELSE Head(s.freeArenas)

\* add_arena, with memory of the manager.
AddArena(s, n, data, unused) ==
  LET a  == NewArena(s)
      id == NewId(s)
      t  == [Push(s, Block(a, 0, n, unused)) EXCEPT
               !.freeArenas = IF @ = <<>> THEN <<>> ELSE Tail(@),
               !.order = Append(@, a),
               !.arenas[a] = [blocks |-> <<id>>, size |-> n, free |-> IF unused THEN n ELSE 0, data |-> data]]
  IN IF ~unused THEN t
     ELSE IF strategy = "sorted" THEN [t EXCEPT !.free = Append(@, id)] ELSE AddFree(t, id)

\* A place of the manager that is not in use.
NewData == CHOOSE d \in 1 .. Arenas : \A a \in DOMAIN arenas : arenas[a].data # d

\* finalize_commit.
Given(s, id, align) ==
  LET b == [s.blocks[id] EXCEPT !.align = align, !.asked = align]
  IN Becomes([s EXCEPT !.blocks[id] = b])

Allocate(n, align) ==
  /\ Cardinality(InUse(State)) < BlockBound /\ Len(free) < FreeBound
  /\ LET size == n + align - 1
         s == IF Found(State, size) # 0 THEN State ELSE AddArena(State, ArenaSize, NewData, TRUE)
     IN /\ size < ArenaSize
        /\ Found(State, size) = 0 => Len(order) < Arenas
        /\ Given(Commit(s, Found(s, size), size), Found(s, size), align)

\* A block that asks for it, or that is as large as an arena, has an arena of its own; its alignment
\* is not recorded.
AllocateDedicated(n, align) ==
  /\ Cardinality(InUse(State)) < BlockBound /\ Len(free) < FreeBound
  /\ Len(order) < Arenas
  /\ LET size == n + align - 1
         id == NewId(State)
         s == AddArena(State, size, NewData, FALSE)
     IN /\ size <= ArenaSize
        /\ Becomes([s EXCEPT !.blocks[id].asked = align])

-----------------------------------------------------------------------------
(* deallocate.                                                             *)

\* The blocks of arena a without those of the sequence, whose numbers are free.
Unlinked(s, a, ids) ==
  FoldLeft(Drop, [s EXCEPT !.arenas[a].blocks = SelectSeq(@, LAMBDA x : ~Contains(ids, x))], ids)

\* The arena's number is free, the first to be used again.
Removed(s, a) == [Unlinked(s, a, s.arenas[a].blocks) EXCEPT
                    !.arenas[a] = NoArena, !.order = SelectSeq(@, LAMBDA x : x # a),
                    !.freeArenas = <<a>> \o @]

Freed(s, id, drop) ==
  LET b     == s.blocks[id]
      a     == b.arena
      list  == s.arenas[a].blocks
      at    == CHOOSE k \in DOMAIN list : list[k] = id
      left  == IF at > 1 /\ s.blocks[list[at - 1]].free THEN list[at - 1] ELSE 0
      right == IF at < Len(list) /\ s.blocks[list[at + 1]].free THEN list[at + 1] ELSE 0
      SizeOf(x) == IF x = 0 THEN 0 ELSE s.blocks[x].size
      Erased(t, x) == IF x = 0 THEN t ELSE Erase(t, x)
      t     == [s EXCEPT !.arenas[a].free = @ + b.size]
      all   == SizeOf(left) + b.size + SizeOf(right)
      now   == [t EXCEPT !.blocks[id].free = TRUE, !.blocks[id].align = 1, !.blocks[id].asked = 1]
  IN IF t.arenas[a].free = t.arenas[a].size /\ drop THEN Removed(Erased(Erased(t, left), right), a)
     ELSE CASE left = 0 /\ right = 0 -> AddFree(now, id)
            [] left # 0 /\ right = 0 -> Unlinked(Replace(t, left, left, all), a, <<id>>)
            [] left = 0 /\ right # 0 -> Unlinked(Replace(now, right, id, all), a, <<right>>)
            [] OTHER -> Unlinked(Replace(Erase(t, right), left, left, all), a, <<id, right>>)

\* The manager may refuse to drop an arena that is empty.
Deallocate(id) ==
  /\ id \in InUse(State) /\ Len(free) < FreeBound
  /\ \E drop \in BOOLEAN : Becomes(Freed(State, id, drop))

-----------------------------------------------------------------------------
(* defragment.                                                             *)

\* Mutant of PushMove: a move is left out if the place in the arena is the same.
PushMoveSamePlace(moves, v) == IF v.from = v.to THEN moves ELSE Joined(moves, v)

\* push_memmove: src is a number of the old arenas, dst of the new ones.
PushMove(moves, v) == IF v.from = v.to /\ v.src = v.dst THEN moves ELSE Joined(moves, v)

\* The blocks in the order of arenas and offsets are allocated again in a new bank; the first block
\* of an arena that finds no room there adds an arena to it, with the memory of its own.
Repacked ==
  LET list(a) == SelectSeq(arenas[a].blocks, LAMBDA id : ~blocks[id].free)
      Place(r, id) ==
        LET b == blocks[id]
            s == IF Found(r.bank, b.size) # 0 THEN r.bank
                 ELSE AddArena(r.bank, arenas[b.arena].size, arenas[b.arena].data, TRUE)
            new == Found(s, b.size)
            t == Commit(s, new, b.size)
            moved == [t.blocks[new] EXCEPT !.align = b.align, !.asked = b.asked]
        IN [bank |-> [t EXCEPT !.blocks[new] = moved],
            ids |-> [r.ids EXCEPT ![id] = new],
            moves |-> PushMove(r.moves, [src |-> b.arena, dst |-> moved.arena, from |-> Used(b).lo,
                                         to |-> Used(moved).lo, size |-> Used(b).size])]
  IN FoldLeft(Place, [bank |-> Fresh(Empty), ids |-> [id \in DOMAIN blocks |-> 0], moves |-> <<>>],
              FlattenSeq([i \in DOMAIN order |-> list(order[i])]))

Defragment == Becomes(Repacked.bank)

Next ==
  \/ \E q \in Requests : Allocate(q[1], q[2]) \/ AllocateDedicated(q[1], q[2])
  \/ \E id \in DOMAIN blocks : Deallocate(id)
  \/ Defragment

Spec == Init /\ [][Next]_vars

-----------------------------------------------------------------------------
(* Properties.                                                             *)

\* Every variable has its type.
TypeOK ==
  /\ IsInjective(order \o freeArenas)
  /\ \A i \in DOMAIN order : order[i] \in DOMAIN arenas
  /\ \A i \in DOMAIN free : free[i] \in DOMAIN blocks \cup {0}

\* In every arena the blocks follow each other without gap and overlap, no two free ones are
\* neighbours, the counter of free units is right, and every block is in the list of its arena.
\* The strategy has every free block once and no other one.
LayoutExact ==
  /\ \A i \in DOMAIN order :
       LET A == arenas[order[i]]
           End(k) == IF k = 0 THEN 0 ELSE blocks[A.blocks[k]].lo + blocks[A.blocks[k]].size
       IN /\ \A k \in DOMAIN A.blocks : LET b == blocks[A.blocks[k]] IN
               b.arena = order[i] /\ b.lo = End(k - 1) /\ b.size > 0
          /\ End(Len(A.blocks)) = A.size
          /\ \A k \in 1 .. (Len(A.blocks) - 1) : ~blocks[A.blocks[k]].free \/ ~blocks[A.blocks[k + 1]].free
          /\ A.free = FoldLeft(LAMBDA x, id : IF blocks[id].free THEN x + blocks[id].size ELSE x, 0, A.blocks)
  /\ \A id \in DOMAIN blocks : blocks[id] # NoBlock =>
       /\ Contains(arenas[blocks[id].arena].blocks, id)
       /\ blocks[id].free <=> Cardinality({i \in DOMAIN free : free[i] = id}) = 1
  /\ strategy = "sorted" => \A i \in 1 .. (Len(free) - 1) : SizesOf(State)[i] <= SizesOf(State)[i + 1]

\* What the managers' arenas hold now, and after the moves of a defragmentation.
Contents ==
  [p \in (1 .. Arenas) \X (0 .. (ArenaSize - 1)) |->
     LET ids == {id \in InUse(State) : Within(p, arenas[blocks[id].arena].data, Used(blocks[id]))}
     IN IF ids = {} THEN Nothing ELSE <<Least(ids), p[2] - Used(blocks[Least(ids)]).lo>>]
Keeps(r) ==
  LET between == [i \in DOMAIN r.moves |-> [r.moves[i] EXCEPT !.src = arenas[@].data,
                                                          !.dst = r.bank.arenas[@].data]]
      after == Moved(Contents, between)
  IN \A id \in InUse(State) : LET b == r.bank.blocks[r.ids[id]] IN
       Holds(after, r.bank.arenas[b.arena].data, Used(b), id)

\* A defragmentation, whenever it is called, moves every block with its contents, if it finds the
\* arenas in the order of their numbers.
ContentsKept == (\A i \in 1 .. (Len(order) - 1) : order[i] < order[i + 1]) => Keeps(Repacked)

\* The same without that condition, which the code does not meet: a block that moves to the same
\* offset of an arena that has, in the new bank, the number of its old one is not copied.
ContentsAlwaysKept == Keeps(Repacked)

\* The place a client uses is aligned as it asked for, also after a defragmentation.
PlacesAligned == \A id \in InUse(State) : Used(blocks[id]).lo % blocks[id].asked = 0
=============================================================================
