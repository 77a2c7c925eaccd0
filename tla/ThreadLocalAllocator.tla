------------------------- MODULE ThreadLocalAllocator -------------------------
(***************************************************************************)
(* ouly::ts_thread_local_allocator: a thread bumps the offset of its own   *)
(* page, which it finds in a thread-local variable that all allocators of  *)
(* the program share; a generation tells whose page it is.                 *)
(*                                                                         *)
(* A page has one user and the lists change under the mutex, so that each  *)
(* call is a step.  reset, release and the moves are called while no other *)
(* thread uses the allocator.  Generations are random numbers: they are    *)
(* different here by construction.                                         *)
(***************************************************************************)
EXTENDS Integers, Sequences, FiniteSets

CONSTANTS
  Allocators, Threads,
  Pages,       \* the memory ::operator new may return
  Base(_),     \* the address of data_ in a page: a multiple of Alignment
  Alignment,   \* alignment
  DefaultSize, \* default_page_size_
  Sizes,       \* the sizes clients ask for, not 0
  Aligns,      \* the alignments they ask for
  CallBound,   \* bound: how many calls are made
  UseMoved,    \* whether clients go on using an allocator that was moved from
  None

LocalAssumption ==
  /\ Alignment \in Nat \ {0} /\ \A p \in Pages : Base(p) % Alignment = 0
  /\ DefaultSize \in Nat /\ Sizes \subseteq Nat \ {0} /\ Aligns \subseteq Nat \ {0}
  /\ CallBound \in Nat /\ UseMoved \in BOOLEAN
  /\ None \notin Pages \cup Allocators

VARIABLES
  used, size,   \* of each page
  generation,   \* of each allocator: its identity and how often it was reset
  list, available, large,  \* of each allocator: page_list_, available_pages_, pages_to_free_
  local,        \* local_page of each thread
  blocks,       \* the blocks clients hold; "of" is the allocator that has to free them
  moved,        \* the allocators that were moved from and not reset since
  calls

lists == <<list, available, large>>
vars == <<used, size, generation, list, available, large, local, blocks, moved, calls>>

Init ==
  /\ used = [p \in Pages |-> 0] /\ size = [p \in Pages |-> 0]
  /\ generation = [a \in Allocators |-> [id |-> a, n |-> 0]]
  /\ list = [a \in Allocators |-> <<>>]
  /\ available = [a \in Allocators |-> <<>>]
  /\ large = [a \in Allocators |-> <<>>]
  /\ local = [t \in Threads |-> [generation |-> None, page |-> None]]
  /\ blocks = {} /\ moved = {} /\ calls = 0

Called == calls < CallBound /\ calls' = calls + 1
Usable(a) == a \notin moved \/ UseMoved
AlignUp(n) == ((n + Alignment - 1) \div Alignment) * Alignment
Big(al) == al > Alignment
Padding(p, off, al) == IF Big(al) THEN (-(Base(p) + off)) % al ELSE 0
Members(s) == {s[n] : n \in DOMAIN s}
Owned(a) == Members(list[a]) \cup Members(available[a]) \cup Members(large[a])
InUse == UNION {Owned(a) : a \in Allocators}
Block(a, p, lo, n, al) ==
  [of |-> a, at |-> p, lo |-> lo, size |-> n, align |-> IF Big(al) THEN al ELSE Alignment]
End(b) == b.lo + b.size

\* Mutant of PageOf: the generation is not compared.
PageOfAny(t, a) == local[t].page

\* The page of thread t if it is one of allocator a.
PageOf(t, a) == IF local[t].generation = generation[a] THEN local[t].page ELSE None

-----------------------------------------------------------------------------
(* allocate and realloc.  The block b, if any, is given up for the new one. *)

Hold(b, old) == blocks' = (blocks \ old) \cup {b}

\* The page of the thread has room.
Fits(t, a, n, al) ==
  LET p == PageOf(t, a) IN p # None /\ used[p] + Padding(p, used[p], al) + n <= size[p]

Bump(t, a, n, al, old) ==
  LET p  == PageOf(t, a)
      lo == used[p] + Padding(p, used[p], al)
  IN /\ used' = [used EXCEPT ![p] = lo + n]
     /\ Hold(Block(a, p, lo, n, al), old)
     /\ UNCHANGED <<size, lists, local>>

Reserved(n, al) == n + IF Big(al) THEN al - 1 ELSE 0
Recycled(a) == available[a] # <<>> /\ size[available[a][1]] >= DefaultSize

\* The slow path: a page for this block alone, or a new page for this thread.
NewPage(t, a, n, al, old) ==
  /\ \E p \in Pages :
       LET lo == Padding(p, 0, al) IN
       /\ \/ /\ Reserved(n, al) > DefaultSize
             /\ p \notin InUse
             /\ size' = [size EXCEPT ![p] = Reserved(n, al)]
             /\ large' = [large EXCEPT ![a] = <<p>> \o @]
             /\ UNCHANGED <<list, available, local>>
          \/ /\ Reserved(n, al) <= DefaultSize
             /\ IF Recycled(a)
                  THEN /\ p = available[a][1]
                       /\ available' = [available EXCEPT ![a] = Tail(@)]
                       /\ UNCHANGED size
                  ELSE /\ p \notin InUse
                       /\ size' = [size EXCEPT ![p] = DefaultSize]
                       /\ UNCHANGED available
             /\ list' = [list EXCEPT ![a] = <<p>> \o @]
             /\ local' = [local EXCEPT ![t] = [generation |-> generation[a], page |-> p]]
             /\ UNCHANGED large
       /\ used' = [used EXCEPT ![p] = lo + n]
       /\ Hold(Block(a, p, lo, n, al), old)

Obtain(t, a, n, al, old) ==
  IF Fits(t, a, n, al) THEN Bump(t, a, n, al, old) ELSE NewPage(t, a, n, al, old)

Allocate(t, a) ==
  /\ Called /\ Usable(a)
  /\ \E n \in Sizes, al \in Aligns : Obtain(t, a, AlignUp(n), al, {})
  /\ UNCHANGED <<generation, moved>>

\* The block is the last one of the page of the thread.
Last(t, b) == PageOf(t, b.of) = b.at /\ End(b) = used[b.at]

Deallocate(t) ==
  /\ Called
  /\ \E b \in blocks :
       /\ Usable(b.of)
       /\ used' = IF Last(t, b) THEN [used EXCEPT ![b.at] = b.lo] ELSE used
       /\ blocks' = blocks \ {b}
  /\ UNCHANGED <<size, generation, lists, local, moved>>

Realloc(t) ==
  /\ Called
  /\ \E b \in blocks, k \in Sizes :
       LET n == AlignUp(k) IN
       /\ Usable(b.of)
       /\ IF Last(t, b) /\ b.lo + n <= size[b.at]
            THEN /\ used' = [used EXCEPT ![b.at] = b.lo + n]
                 /\ Hold([b EXCEPT !.size = n], {b})
                 /\ UNCHANGED <<size, lists, local>>
            ELSE Obtain(t, b.of, n, b.align, {b})
  /\ UNCHANGED <<generation, moved>>

-----------------------------------------------------------------------------

\* Mutant of NextGeneration: the generation stays.
SameGeneration(a) == UNCHANGED generation

NextGeneration(a) == generation' = [generation EXCEPT ![a].n = @ + 1]
Recycle(a) == list[a] \o available[a]
Lose(A) == blocks' = {b \in blocks : b.of \notin A}

Reset(a) ==
  /\ Called
  /\ NextGeneration(a)
  /\ list' = [list EXCEPT ![a] = <<>>]
  /\ large' = [large EXCEPT ![a] = <<>>]
  /\ available' = [available EXCEPT ![a] = Recycle(a)]
  /\ Lose({a})
  /\ moved' = moved \ {a}
  /\ UNCHANGED <<used, size, local>>

Release(a) ==
  /\ Called
  /\ NextGeneration(a)
  /\ list' = [list EXCEPT ![a] = <<>>]
  /\ large' = [large EXCEPT ![a] = <<>>]
  /\ available' = [available EXCEPT ![a] = <<>>]
  /\ Lose({a})
  /\ moved' = moved \ {a}
  /\ UNCHANGED <<used, size, local>>

\* a = std::move(b): a is reset and takes the pages of b.
MoveAssign(a, b) ==
  /\ Called /\ a # b
  /\ NextGeneration(a)
  /\ list' = [list EXCEPT ![a] = list[b], ![b] = <<>>]
  /\ large' = [large EXCEPT ![a] = large[b], ![b] = <<>>]
  /\ available' = [available EXCEPT ![a] = available[b], ![b] = <<>>]
  /\ blocks' = {c \in blocks : c.of \notin {a, b}} \cup {[c EXCEPT !.of = a] : c \in {d \in blocks : d.of = b}}
  /\ moved' = (moved \ {a}) \cup {b}
  /\ UNCHANGED <<used, size, local>>

Next ==
  \/ \E t \in Threads : (\E a \in Allocators : Allocate(t, a)) \/ Deallocate(t) \/ Realloc(t)
  \/ \E a \in Allocators : Reset(a) \/ Release(a) \/ \E b \in Allocators : MoveAssign(a, b)

Spec == Init /\ [][Next]_vars

-----------------------------------------------------------------------------
(* Properties.                                                             *)

\* Every variable has its type; a block is in a page of its allocator, below the offset.
TypeOK ==
  /\ \A p \in Pages : used[p] \in Nat /\ size[p] \in Nat
  /\ \A b \in blocks : b.at \in Owned(b.of) /\ End(b) <= used[b.at] /\ used[b.at] <= size[b.at]
  /\ moved \subseteq Allocators /\ calls \in 0 .. CallBound

\* A page has one user: no two threads have the same page and a generation that is in use,
\* no page is in two lists, and the page of a thread is not one that waits for its next use.
OneUser ==
  /\ \A t, u \in Threads, a, b \in Allocators :
       PageOf(t, a) # None /\ Usable(a) =>
         /\ PageOf(t, a) \in Members(list[a])
         /\ t # u /\ Usable(b) => PageOf(u, b) # PageOf(t, a)
  /\ \A a, b \in Allocators : a # b => Owned(a) \cap Owned(b) = {}

\* The blocks of all allocators are those of a Heap.
H == INSTANCE Heap WITH
  blocks <- {[at |-> b.at, lo |-> b.lo, size |-> b.size, align |-> b.align] : b \in blocks}
Implements == H!Spec

\* Every page that was allocated belongs to an allocator that frees it, or is freed.
PagesKept == [][\A p \in InUse : p \in InUse' \/ \E a \in Allocators :
                  /\ p \in Owned(a)
                  /\ generation'[a] # generation[a]
                  /\ p \in Members(large[a]) \/ Owned(a)' = {}]_vars
=============================================================================
