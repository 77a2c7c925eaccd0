------------------------------ MODULE MCMemory ------------------------------
(* Each initial state runs one of the allocators, SharedLinear or one of the instances; the others *)
(* stay as they are.                                                                               *)
EXTENDS SharedLinear, TLC

CONSTANTS t1, t2, a1, a2

VARIABLES
  which,
  lUsed, lSize, lGeneration, lList, lAvailable, lLarge, lLocal, lBlocks, lMoved, lCalls,
  gArenas, gOrder, gFreeArenas, gEntries, gFreeEntries, gTarget, gAllocated,
  cOffsets, cSizes, cEntries, cFreeEntries, cMemory,
  fArenas, fOrder, fEntries, fMemory,
  bArenas, bOrder, bBlocks, bSizes, bOrdering, bMemory,
  rStrategy, rArenas, rFreeArenas, rOrder, rBlocks, rFree, rFreeSlot,
  pArenas, pArrays, pSolos, pBlocks,
  tTables, tElements, tErased,
  eFree, eFreeSlot, eMaxSize, eRevisions, eTicket, eAlive, eErased

\* Where a page begins: the first is less aligned.
MCBase(p) == IF p = 1 THEN 2 ELSE 0

\* Where an arena of the pool begins.
ArenaBase(a) == 8 * a

Local == INSTANCE ThreadLocalAllocator WITH
  Threads <- {t1, t2}, Allocators <- {a1, a2}, Pages <- 1 .. 3,
  Alignment <- 2, DefaultSize <- 10, Sizes <- {1, 3}, Aligns <- {8}, CallBound <- 5, UseMoved <- FALSE,
  used <- lUsed, size <- lSize, generation <- lGeneration, list <- lList, available <- lAvailable,
  large <- lLarge, local <- lLocal, blocks <- lBlocks, moved <- lMoved, calls <- lCalls
\* The same with requests that need no padding, of one size and in a call less.
Mixed == INSTANCE ThreadLocalAllocator WITH
  Threads <- {t1, t2}, Allocators <- {a1, a2}, Pages <- 1 .. 3,
  Alignment <- 2, DefaultSize <- 10, Sizes <- {3}, Aligns <- {1, 8}, CallBound <- 4, UseMoved <- FALSE,
  used <- lUsed, size <- lSize, generation <- lGeneration, list <- lList, available <- lAvailable,
  large <- lLarge, local <- lLocal, blocks <- lBlocks, moved <- lMoved, calls <- lCalls
Gpu == INSTANCE GpuAllocator WITH
  ArenaSize <- 5, Sizes <- {1}, AllocateBound <- 4,
  Options <- [align : {2}, class : {0}, movable : {TRUE}, dedicated : BOOLEAN],
  Budgets <- {[bytes |-> 9, moves |-> 1, blocks |-> 1], [bytes |-> 9, moves |-> 9, blocks |-> 9]},
  arenas <- gArenas, order <- gOrder, freeArenas <- gFreeArenas, entries <- gEntries,
  freeEntries <- gFreeEntries, target <- gTarget, allocated <- gAllocated
\* Arenas for two allocations, so that one of the four is made while an arena is evacuated.
Small == INSTANCE GpuAllocator WITH
  ArenaSize <- 3, Sizes <- {1}, AllocateBound <- 4,
  Options <- [align : {2}, class : {0}, movable : {TRUE}, dedicated : BOOLEAN],
  Budgets <- {[bytes |-> 9, moves |-> 1, blocks |-> 1], [bytes |-> 9, moves |-> 9, blocks |-> 9]},
  arenas <- gArenas, order <- gOrder, freeArenas <- gFreeArenas, entries <- gEntries,
  freeEntries <- gFreeEntries, target <- gTarget, allocated <- gAllocated
Coalescing == INSTANCE CoalescingAllocator WITH
  Space <- 6, Sizes <- {1, 2, 3}, Budgets <- {1, 2, 9}, BlockBound <- 4,
  offsets <- cOffsets, sizes <- cSizes, entries <- cEntries, freeEntries <- cFreeEntries,
  memory <- cMemory
FirstFit == INSTANCE FirstFitDefrag WITH
  ArenaSize <- 4, Requests <- {<<1, 1>>, <<2, 2>>}, Budgets <- {2, 9}, Arenas <- 2,
  Extent <- 4, BlockBound <- 4,
  arenas <- fArenas, order <- fOrder, entries <- fEntries, memory <- fMemory
BestFit == INSTANCE BestFitDefrag WITH
  ArenaSize <- 4, Requests <- {<<1, 1>>, <<2, 2>>}, Budgets <- {2, 9}, Arenas <- 2,
  Extent <- 4, BlockBound <- 3,
  arenas <- bArenas, order <- bOrder, blocks <- bBlocks, sizes <- bSizes, ordering <- bOrdering,
  memory <- bMemory
Arena == INSTANCE ArenaAllocator WITH
  Strategies <- {"sorted", "list", "slots"}, ArenaSize <- 5, Arenas <- 2,
  Requests <- {<<1, 1>>, <<2, 2>>}, BlockBound <- 2, FreeBound <- 4,
  strategy <- rStrategy, arenas <- rArenas, freeArenas <- rFreeArenas, order <- rOrder,
  blocks <- rBlocks, free <- rFree, freeSlot <- rFreeSlot
Pool == INSTANCE PoolAllocator WITH
  AtomSize <- 8, AtomCount <- 5, OffsetSize <- 4, Guaranteed <- 8, Base <- ArenaBase,
  Requests <- {<<8, 8>>, <<9, 1>>, <<1, 16>>}, ArenaBound <- 2, BlockBound <- 3,
  arenas <- pArenas, arrays <- pArrays, solos <- pSolos, blocks <- pBlocks
Table == INSTANCE SparseTable WITH
  Tables <- {a1, a2}, PoolSize <- 2, Hazards <- 2, Values <- {1}, SlotBound <- 3,
  tables <- tTables, elements <- tElements, erased <- tErased
Entities == INSTANCE Registry WITH
  Threads <- {t1, t2}, Revisions <- 2, IndexBound <- 3, SpanBound <- 2,
  free <- eFree, freeSlot <- eFreeSlot, maxSize <- eMaxSize, revisions <- eRevisions,
  ticket <- eTicket, alive <- eAlive, erased <- eErased

ASSUME
  /\ SharedAssumption
  /\ Local!LocalAssumption /\ Mixed!LocalAssumption
  /\ Gpu!GpuAssumption /\ Small!GpuAssumption
  /\ Coalescing!CoalescingAssumption
  /\ FirstFit!FirstFitAssumption
  /\ BestFit!BestFitAssumption
  /\ Arena!ArenaAssumption
  /\ Pool!PoolAllocatorAssumption
  /\ Table!SparseTableAssumption
  /\ Entities!RegistryAssumption

\* The searches of BestFitDefrag, of which the run has few free blocks: they compare with the key
\* and look at nothing else, so zeros and ones stand for every ascending sequence.
ASSUME \A n \in 0 .. 12 : \A k \in 0 .. n :
  BestFit!LowerBound([i \in 1 .. n |-> IF i <= k THEN 0 ELSE 1], 1) = k

localVars == <<lUsed, lSize, lGeneration, lList, lAvailable, lLarge, lLocal, lBlocks, lMoved,
  lCalls>>
gpuVars == <<gArenas, gOrder, gFreeArenas, gEntries, gFreeEntries, gTarget, gAllocated>>
coalescingVars == <<cOffsets, cSizes, cEntries, cFreeEntries, cMemory>>
firstfitVars == <<fArenas, fOrder, fEntries, fMemory>>
bestfitVars == <<bArenas, bOrder, bBlocks, bSizes, bOrdering, bMemory>>
arenaVars == <<rStrategy, rArenas, rFreeArenas, rOrder, rBlocks, rFree, rFreeSlot>>
poolVars == <<pArenas, pArrays, pSolos, pBlocks>>
tableVars == <<tTables, tElements, tErased>>
registryVars == <<eFree, eFreeSlot, eMaxSize, eRevisions, eTicket, eAlive, eErased>>
allVars == <<which, vars, localVars, gpuVars, coalescingVars, firstfitVars, bestfitVars, arenaVars, poolVars, tableVars, registryVars>>

MCInit ==
  /\ which \in {"shared", "local", "mixed", "gpu", "small", "coalescing", "firstfit", "bestfit", "arena", "pool", "table", "registry"}
  /\ Init
  /\ Local!Init
  /\ Gpu!Init
  /\ Coalescing!Init
  /\ FirstFit!Init
  /\ BestFit!Init
  /\ Arena!Init
  /\ Pool!Init
  /\ Table!Init
  /\ Entities!Init
  /\ which # "arena" => rStrategy = "sorted"

\* The machines but which keep their states.
Others(machine) ==
  /\ IF machine = "shared" THEN TRUE ELSE UNCHANGED vars
  /\ IF machine \in {"local", "mixed"} THEN TRUE ELSE UNCHANGED localVars
  /\ IF machine \in {"gpu", "small"} THEN TRUE ELSE UNCHANGED gpuVars
  /\ IF machine = "coalescing" THEN TRUE ELSE UNCHANGED coalescingVars
  /\ IF machine = "firstfit" THEN TRUE ELSE UNCHANGED firstfitVars
  /\ IF machine = "bestfit" THEN TRUE ELSE UNCHANGED bestfitVars
  /\ IF machine = "arena" THEN TRUE ELSE UNCHANGED arenaVars
  /\ IF machine = "pool" THEN TRUE ELSE UNCHANGED poolVars
  /\ IF machine = "table" THEN TRUE ELSE UNCHANGED tableVars
  /\ IF machine = "registry" THEN TRUE ELSE UNCHANGED registryVars

MCNext ==
  /\ UNCHANGED which /\ Others(which)
  /\ \/ which = "shared" /\ Next
     \/ which = "local" /\ Local!Next
     \/ which = "mixed" /\ Mixed!Next
     \/ which = "gpu" /\ Gpu!Next
     \/ which = "small" /\ Small!Next
     \/ which = "coalescing" /\ Coalescing!Next
     \/ which = "firstfit" /\ FirstFit!Next
     \/ which = "bestfit" /\ BestFit!Next
     \/ which = "arena" /\ Arena!Next
     \/ which = "pool" /\ Pool!Next
     \/ which = "table" /\ Table!Next
     \/ which = "registry" /\ Entities!Next

MCSpec == MCInit /\ [][MCNext]_allVars

Symmetry == Permutations({t1, t2})

-----------------------------------------------------------------------------

\* The types of all variables.
TypesOK ==
  /\ TypeOK
  /\ Local!TypeOK /\ Gpu!TypeOK /\ Coalescing!TypeOK /\ FirstFit!TypeOK /\ BestFit!TypeOK
  /\ Arena!TypeOK /\ Pool!TypeOK /\ Table!TypeOK /\ Entities!TypeOK

\* The blocks of the thread-local allocator are those of a Heap, whoever allocates and frees them.
LocalImplements == Local!Implements

\* A page of the thread-local allocator has one place and one user.
OneUser == which \in {"local", "mixed"} => Local!OneUser

\* Blocks in use, what is reserved or still read, and free ranges cover every arena exactly once, free
\* neighbours are merged, the counters are right and the lists of free blocks are those and sorted.
LayoutExact ==
  /\ which \in {"gpu", "small"} => Gpu!LayoutExact
  /\ which = "coalescing" => Coalescing!LayoutExact
  /\ which = "firstfit" => FirstFit!LayoutExact
  /\ which = "bestfit" => BestFit!LayoutExact
  /\ which = "bestfit" => BestFit!FreeSorted
  /\ which = "arena" => Arena!LayoutExact
  /\ which = "pool" => Pool!LayoutExact

\* Defragmentation moves every block with its contents; a copy that is planned or running is of the
\* allocation it was planned for.
ContentsKept ==
  /\ which \in {"gpu", "small"} => Gpu!MovesValid
  /\ which = "coalescing" => Coalescing!ContentsKept
  /\ which = "firstfit" => FirstFit!ContentsKept
  /\ which = "bestfit" => BestFit!ContentsKept
  /\ which = "arena" => Arena!ContentsKept

\* The links and entities that clients have are told from those given back, and lead to their elements;
\* the chain of unused slots visits each slot without an element once.
LookupsExact ==
  /\ which = "table" => Table!LookupsExact /\ Table!LinksExact
  /\ which = "registry" => Entities!LookupsExact
=============================================================================
