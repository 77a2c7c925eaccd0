---------------------------- MODULE GpuAllocator ----------------------------
(***************************************************************************)
(* ouly::gpu_allocator: allocations in arenas, and the evacuation of one   *)
(* arena at a time by copies that an executor runs asynchronously.         *)
(*                                                                         *)
(* Calls are serialised; a call is a step.  The executor may refuse a copy *)
(* or a switch of references and completes them whenever it likes.         *)
(* Resource classes, move numbers and statistics are left out.             *)
(***************************************************************************)
EXTENDS FreeRanges, SequencesExt

CONSTANTS
  ArenaSize,     \* arena_size_
  Sizes,         \* the sizes of allocations, not 0
  Options,       \* the options of allocations: [align, class, movable, dedicated]
  Budgets,       \* budgets of defragment: [bytes, moves, blocks]
  AllocateBound, \* bound: how many allocations are made
  None

GpuAssumption ==
  /\ ArenaSize \in Nat \ {0} /\ Sizes \subseteq Nat \ {0}
  /\ \A o \in Options : o.align \in Nat \ {0} /\ {o.movable, o.dedicated} \subseteq BOOLEAN
  /\ AllocateBound \in Nat
  /\ \A b \in Budgets : {b.bytes, b.moves, b.blocks} \subseteq Nat

VARIABLES
  arenas,      \* arena_pool_
  order,       \* arena_order_
  freeArenas,  \* free_arenas_
  entries,     \* the entry_ arrays
  freeEntries, \* the list that begins at free_entry_
  target,      \* target_: the evacuation in progress, or None
  allocated    \* how many allocations were made

vars == <<arenas, order, freeArenas, entries, freeEntries, target, allocated>>

Init ==
  /\ arenas = <<>> /\ order = <<>> /\ freeArenas = <<>>
  /\ entries = <<>> /\ freeEntries = <<>>
  /\ target = None /\ allocated = 0

\* A call works on the state as a whole.
State == [arenas |-> arenas, order |-> order, freeArenas |-> freeArenas,
          entries |-> entries, freeEntries |-> freeEntries, target |-> target]
Becomes(s) ==
  /\ arenas' = s.arenas /\ order' = s.order /\ freeArenas' = s.freeArenas
  /\ entries' = s.entries /\ freeEntries' = s.freeEntries /\ target' = s.target

NoArena == [active |-> FALSE, capacity |-> 0, free |-> 0, ranges |-> <<>>, allocations |-> 0,
            reservations |-> 0, retiring |-> 0, class |-> 0, evacuated |-> FALSE, dedicated |-> FALSE]
NewArena(capacity, class, dedicated) ==
  [NoArena EXCEPT !.active = TRUE, !.capacity = capacity, !.free = capacity,
                  !.ranges = <<Span(0, capacity)>>, !.class = class, !.dedicated = dedicated]

NoEntry == [live |-> FALSE, arena |-> 0, lo |-> 0, size |-> 0, align |-> 1, class |-> 0, movable |-> FALSE]

-----------------------------------------------------------------------------
(* Ranges of an arena.                                                     *)

\* The range [lo, lo + n) is reserved; reserving a range that is not free fails.
Holding(s, a, lo, n) == {i \in DOMAIN s.arenas[a].ranges :
                           LET r == s.arenas[a].ranges[i] IN r.lo <= lo /\ lo + n <= SpanEnd(r)}
Reserve(s, a, lo, n) ==
  [s EXCEPT !.arenas[a].ranges = Occupy(@, CHOOSE i \in Holding(s, a, lo, n) : TRUE, lo, n),
            !.arenas[a].free = @ - n,
            !.arenas[a].reservations = @ + 1]

FreeRange(s, a, lo, n) ==
  [s EXCEPT !.arenas[a].ranges = Release(@, lo, n), !.arenas[a].free = @ + n]

\* Mutant of Unreserve: the reservation is still counted.
UnreserveUncounted(s, a, lo, n) == FreeRange(s, a, lo, n)

Unreserve(s, a, lo, n) ==
  [FreeRange(s, a, lo, n) EXCEPT !.arenas[a].reservations = @ - 1]

CanRelease(s, a) ==
  LET A == s.arenas[a] IN
  A.active /\ ~A.evacuated /\ A.allocations = 0 /\ A.reservations = 0 /\ A.retiring = 0
    /\ A.free = A.capacity

\* An arena that is empty goes back to the manager.
Drop(s, a) ==
  [s EXCEPT !.arenas[a] = NoArena,
            !.order = SelectSeq(@, LAMBDA b : b # a),
            !.freeArenas = Append(@, a)]
DropIfEmpty(s, a) == IF CanRelease(s, a) THEN Drop(s, a) ELSE s

-----------------------------------------------------------------------------
(* allocate.                                                               *)

Place(s, a, n, o) ==
  LET lo == AlignedUp(s.arenas[a].ranges[FirstFit(s.arenas[a].ranges, n, o.align)].lo, o.align)
      r  == Reserve(s, a, lo, n)
      e  == [live |-> TRUE, arena |-> a, lo |-> lo, size |-> n, align |-> o.align, class |-> o.class,
             movable |-> o.movable]
      t  == [r EXCEPT !.arenas[a].reservations = @ - 1, !.arenas[a].allocations = @ + 1]
  IN IF s.freeEntries = <<>>
       THEN [t EXCEPT !.entries = Append(@, e)]
       ELSE [t EXCEPT !.entries[Head(s.freeEntries)] = e, !.freeEntries = Tail(@)]

Room(a, n, o) ==
  /\ ~arenas[a].evacuated /\ ~arenas[a].dedicated /\ arenas[a].class = o.class
  /\ arenas[a].free >= n
  /\ FirstFit(arenas[a].ranges, n, o.align) # 0

Create(s, A) ==
  IF s.freeArenas = <<>>
    THEN [s EXCEPT !.arenas = Append(@, A), !.order = Append(@, Len(s.arenas) + 1)]
    ELSE [s EXCEPT !.arenas[Last(s.freeArenas)] = A, !.order = Append(@, Last(s.freeArenas)),
                   !.freeArenas = Front(@)]

Allocate(n, o) ==
  /\ allocated < AllocateBound
  /\ allocated' = allocated + 1
  /\ LET dedicated == o.dedicated \/ n >= ArenaSize
         with == {i \in DOMAIN order : ~dedicated /\ Room(order[i], n, o)}
         new  == Create(State, NewArena(IF dedicated THEN n ELSE ArenaSize, o.class, dedicated))
     IN IF with # {}
          THEN Becomes(Place(State, order[CHOOSE i \in with : \A j \in with : i <= j], n, o))
          ELSE Becomes(Place(new, Last(new.order), n, [o EXCEPT !.movable = @ /\ ~dedicated]))

-----------------------------------------------------------------------------
(* Moves.                                                                  *)

\* The moves of the evacuation, and those that are in state st.
Moves(s) == IF s.target = None THEN <<>> ELSE s.target.moves
In(s, st) == {k \in DOMAIN Moves(s) : Moves(s)[k].state = st}
Mark(s, k, st) == [s EXCEPT !.target.moves[k].state = st]

CancelMove(s, k) ==
  LET m == s.target.moves[k] IN
  Mark(IF m.state \in {"reserved", "copy_scheduled"} THEN Unreserve(s, m.to, m.toLo, m.size) ELSE s,
       k, "cancelled")

\* abort_evacuation: the reserved moves are cancelled, the copies that run are not.
Abort(s) == FoldLeftDomain(LAMBDA r, k : IF k \in In(s, "reserved") THEN CancelMove(r, k) ELSE r,
                           [s EXCEPT !.target.aborted = TRUE], Moves(s))

Finished(s) == DOMAIN Moves(s) = In(s, "source_retired") \cup In(s, "cancelled")

FinishTarget(s) ==
  IF s.target = None \/ ~Finished(s) THEN s
  ELSE DropIfEmpty([s EXCEPT !.arenas[s.target.source].evacuated = FALSE, !.target = None],
                   s.target.source)

-----------------------------------------------------------------------------
(* try_deallocate.                                                         *)

Planned(s, id) == {k \in DOMAIN Moves(s) : Moves(s)[k].id = id}

\* Mutant of Prepared: a move that has not begun is left alone.
PreparedUncancelled(s, id) == s

\* A planned move of the allocation that has not begun is cancelled.
Prepared(s, id) ==
  LET ks == Planned(s, id) \cap In(s, "reserved")
  IN IF ks = {} THEN s ELSE CancelMove(s, CHOOSE k \in ks : TRUE)

TryDeallocate(id) ==
  /\ entries[id].live
  /\ Planned(State, id) \cap In(State, "copy_scheduled") = {}
  /\ LET s == Prepared(State, id)
         e == s.entries[id]
         f == [FreeRange(s, e.arena, e.lo, e.size) EXCEPT
                 !.arenas[e.arena].allocations = @ - 1,
                 !.entries[id] = NoEntry,
                 !.freeEntries = <<id>> \o @]
     IN Becomes(FinishTarget(DropIfEmpty(f, e.arena)))
  /\ UNCHANGED allocated

SetMovable(id) ==
  /\ entries[id].live
  /\ Planned(State, id) \subseteq In(State, "source_retired") \cup In(State, "cancelled")
  /\ \E movable \in BOOLEAN :
       /\ ~arenas[entries[id].arena].dedicated \/ ~movable
       /\ entries' = [entries EXCEPT ![id].movable = movable]
  /\ UNCHANGED <<arenas, order, freeArenas, freeEntries, target, allocated>>

-----------------------------------------------------------------------------
(* process_completions.                                                    *)

Switch(s, k) ==
  LET m == s.target.moves[k] IN
  [Mark(s, k, "references_switched") EXCEPT
     !.arenas[m.from].allocations = @ - 1, !.arenas[m.from].retiring = @ + 1,
     !.arenas[m.to].reservations = @ - 1, !.arenas[m.to].allocations = @ + 1,
     !.entries[m.id].arena = m.to, !.entries[m.id].lo = m.toLo]

Retire(s, k) ==
  LET m == s.target.moves[k] IN
  [FreeRange(Mark(s, k, "source_retired"), m.from, m.fromLo, m.size) EXCEPT
     !.arenas[m.from].retiring = @ - 1]

\* What the executor answers for each move: nothing yet; the copy is complete and the switch
\* of references fails, or succeeds; the old place is not used any more.
Answers(s) ==
  {f \in [DOMAIN Moves(s) -> {"wait", "failed", "switched", "retired"}] :
     \A k \in DOMAIN f :
       /\ f[k] \in {"failed", "switched"} => k \in In(s, "copy_scheduled")
       /\ f[k] = "retired" => k \in In(s, "copy_scheduled") \cup In(s, "references_switched")}

AnswerMove(s, k, answer) ==
  CASE k \in In(s, "copy_scheduled") /\ answer = "failed"   -> Abort(CancelMove(s, k))
    [] k \in In(s, "copy_scheduled") /\ answer = "switched" -> Switch(s, k)
    [] k \in In(s, "copy_scheduled") /\ answer = "retired"  -> Retire(Switch(s, k), k)
    [] k \in In(s, "references_switched") /\ answer = "retired" -> Retire(s, k)
    [] OTHER -> s

Processed(s, f) ==
  FinishTarget(FoldLeftDomain(LAMBDA r, k : AnswerMove(r, k, f[k]), s, Moves(s)))

ProcessCompletions ==
  /\ target # None
  /\ \E f \in Answers(State) : Becomes(Processed(State, f))
  /\ UNCHANGED allocated

-----------------------------------------------------------------------------
(* begin_evacuation.                                                       *)

LiveIn(s, a) == {id \in DOMAIN s.entries : s.entries[id].live /\ s.entries[id].arena = a}
SumSizes(s, ids) == FoldLeft(LAMBDA x, id : x + s.entries[id].size, 0, SetToSeq(ids))

CanEvacuate(s, a) ==
  LET A == s.arenas[a] IN
  /\ ~A.evacuated /\ ~A.dedicated /\ A.allocations # 0 /\ A.free # 0
  /\ A.reservations = 0 /\ A.retiring = 0
  /\ \A id \in LiveIn(s, a) : s.entries[id].movable

RecoversMore(s, a, b) ==
  LET live(x) == SumSizes(s, LiveIn(s, x))
      recovery(x) == s.arenas[x].capacity - live(x)
      count(x) == Cardinality(LiveIn(s, x))
  IN CASE recovery(a) # recovery(b) -> recovery(a) > recovery(b)
       [] live(a) # live(b)   -> live(a) < live(b)
       [] count(a) # count(b) -> count(a) < count(b)
       [] OTHER -> a < b

\* The moves of the allocations of arena a, the most aligned and then the largest first.
Before(s, i, j) == LET e == s.entries[i]  f == s.entries[j] IN
  CASE e.align # f.align -> e.align > f.align
    [] e.size # f.size   -> e.size > f.size
    [] OTHER -> i < j
MoveList(s, a) == SetToSortSeq(LiveIn(s, a), LAMBDA i, j : Before(s, i, j))

\* The best fit of a block over the free ranges of the destinations: the least waste, then the
\* fullest arena, then the first.
Destinations(s, a) ==
  {i \in DOMAIN s.order : LET b == s.order[i] IN
     b # a /\ ~s.arenas[b].evacuated /\ ~s.arenas[b].dedicated /\ s.arenas[b].class = s.arenas[a].class}
Places(s, a, n, al) ==
  {p \in Destinations(s, a) \X (1 .. ArenaSize) :
     LET A == s.arenas[s.order[p[1]]] IN A.free >= n /\ p[2] \in DOMAIN A.ranges /\ Fit(A.ranges[p[2]], n, al)}
Better(s, p, q) ==
  LET A == s.arenas[s.order[p[1]]]  B == s.arenas[s.order[q[1]]]
      wp == A.ranges[p[2]].size  wq == B.ranges[q[2]].size
  IN CASE wp # wq -> wp < wq
       [] A.free # B.free -> A.free < B.free
       [] p[1] # q[1] -> p[1] < q[1]
       [] OTHER -> p[2] <= q[2]

\* The plan for one allocation more: its destination is reserved, or there is no plan.
PlanMove(s, id) ==
  LET e == s.entries[id]
      ps == Places(s, s.target.source, e.size, e.align)
      p == CHOOSE q \in ps : \A r \in ps : Better(s, q, r)
      b == s.order[p[1]]
      lo == AlignedUp(s.arenas[b].ranges[p[2]].lo, e.align)
  IN IF s.target.aborted \/ ps = {} THEN [s EXCEPT !.target.aborted = TRUE]
     ELSE [Reserve(s, b, lo, e.size) EXCEPT !.target.moves = Append(@,
             [id |-> id, from |-> e.arena, fromLo |-> e.lo, to |-> b, toLo |-> lo, size |-> e.size,
              state |-> "reserved"])]
Plan(s, a) == FoldLeft(PlanMove, [s EXCEPT !.target = [source |-> a, moves |-> <<>>, aborted |-> FALSE]],
                       MoveList(s, a))

\* The first of the best candidates that can be evacuated as a whole.
BeginEvacuation(s, blocks) ==
  LET candidates == SetToSortSeq({a \in {s.order[i] : i \in DOMAIN s.order} : CanEvacuate(s, a)},
                                 LAMBDA a, b : RecoversMore(s, a, b))
      works == {i \in DOMAIN candidates : i <= blocks /\ ~Plan(s, candidates[i]).target.aborted}
      a == candidates[CHOOSE i \in works : \A j \in works : i <= j]
  IN IF works = {} THEN s ELSE [Plan(s, a) EXCEPT !.arenas[a].evacuated = TRUE]

-----------------------------------------------------------------------------
(* defragment: completions, a new target if there is none, and copies      *)
(* within the budget, of which the n-th may be refused.                    *)

Scheduled(s, budget, refused) ==
  LET ScheduleOne(r, k) ==
        LET ks == {i \in In(r.s, "reserved") : r.s.target.moves[i].size <= r.bytes}
            i  == CHOOSE x \in ks : \A y \in ks : x <= y
        IN IF r.moves = 0 \/ r.bytes = 0 \/ ks = {} THEN r
           ELSE IF k = refused THEN [r EXCEPT !.s = Abort(CancelMove(@, i)), !.moves = 0]
           ELSE [s |-> Mark(r.s, i, "copy_scheduled"), bytes |-> r.bytes - r.s.target.moves[i].size,
                 moves |-> r.moves - 1]
  IN FoldLeftDomain(ScheduleOne, [s |-> s, bytes |-> budget.bytes, moves |-> budget.moves], Moves(s)).s

Defragment(budget) ==
  /\ \E f \in Answers(State), refused \in 0 .. 2 :
       LET p == Processed(State, f)
           q == IF p.target = None /\ budget.bytes # 0 /\ budget.moves # 0
                  THEN BeginEvacuation(p, budget.blocks) ELSE p
       IN Becomes(FinishTarget(Scheduled(q, budget, refused)))
  /\ UNCHANGED allocated

Next ==
  \/ \E n \in Sizes, o \in Options : Allocate(n, o)
  \/ \E id \in DOMAIN entries : TryDeallocate(id) \/ SetMovable(id)
  \/ ProcessCompletions
  \/ \E budget \in Budgets : Defragment(budget)

Spec == Init /\ [][Next]_vars

-----------------------------------------------------------------------------
(* Properties.                                                             *)

Live == {id \in DOMAIN entries : entries[id].live}
MovesIn(states) == {Moves(State)[k] : k \in UNION {In(State, st) : st \in states}}
Reserved(a) == {m \in MovesIn({"reserved", "copy_scheduled"}) : m.to = a}
Retiring(a) == {m \in MovesIn({"references_switched"}) : m.from = a}

\* Every variable has its type.
TypeOK ==
  /\ Len(freeArenas) + Len(order) = Len(arenas)
  /\ \A a \in DOMAIN arenas : arenas[a].active <=> \E i \in DOMAIN order : order[i] = a
  /\ \A id \in Live : entries[id].lo % entries[id].align = 0
  /\ target # None => target.moves # <<>>
  /\ allocated \in 0 .. AllocateBound

\* The live allocations, the reserved destinations, the old places the executor may still read
\* and the free ranges cover every arena exactly once, whatever was cancelled, refused or freed
\* in between, and the counters that decide when an arena is removed are exact.
LayoutExact ==
  \A a \in DOMAIN arenas :
    /\ Tiles(arenas[a].ranges,
             {Span(entries[id].lo, entries[id].size) : id \in LiveIn(State, a)}
               \cup {Span(m.toLo, m.size) : m \in Reserved(a)}
               \cup {Span(m.fromLo, m.size) : m \in Retiring(a)},
             arenas[a].capacity)
    /\ arenas[a].allocations = Cardinality(LiveIn(State, a))
    /\ arenas[a].reservations = Cardinality(Reserved(a))
    /\ arenas[a].retiring = Cardinality(Retiring(a))
    /\ arenas[a].evacuated <=> target # None /\ target.source = a

\* A copy that is planned or running is of the allocation it was planned for, which is where it
\* was then; its number was not given to another one meanwhile.
MovesValid ==
  \A m \in MovesIn({"reserved", "copy_scheduled"}) :
    /\ entries[m.id].live /\ entries[m.id].movable
    /\ entries[m.id].arena = m.from /\ entries[m.id].lo = m.fromLo /\ entries[m.id].size = m.size

\* Without an evacuation in progress an arena has allocations: empty ones go back to the manager.
NoneIdle == target = None => \A i \in DOMAIN order : arenas[order[i]].allocations > 0
=============================================================================
