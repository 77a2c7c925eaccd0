--------------------------- MODULE PoolAllocator ---------------------------
(***************************************************************************)
(* ouly::pool_allocator: blocks are runs of atoms of equally large arenas. *)
(* Free runs are kept from long to short, single free atoms in a list of   *)
(* their own, and no two runs are ever joined.                             *)
(***************************************************************************)
EXTENDS Integers, Sequences, FiniteSets, Functions

CONSTANTS
  AtomSize, AtomCount,  \* of an arena
  OffsetSize,           \* bytes of the word ahead of a padded block
  Guaranteed,           \* alignment of what the underlying allocator returns
  Base(_),              \* where the memory of an arena begins
  Requests,             \* pairs of a size and an alignment
  ArenaBound,           \* bound: how many arenas there are
  BlockBound            \* bound: how many blocks clients have

PoolAllocatorAssumption ==
  /\ AtomSize \in Nat \ {0} /\ AtomCount \in Nat \ {0, 1} /\ OffsetSize \in Nat
  /\ \A r \in Requests : r \in (Nat \ {0}) \X (Nat \ {0})
  /\ \A a \in 1 .. ArenaBound : Base(a) % Guaranteed = 0

VARIABLES
  arenas,  \* how many there are
  arrays,  \* arrays_: free runs
  solos,   \* solo_: free atoms
  blocks   \* what the clients have, with the word ahead of the block

vars == <<arenas, arrays, solos, blocks>>

Atoms == (1 .. ArenaBound) \X (0 .. (AtomCount - 1))
Run(atom, n) == [atom |-> atom, length |-> n]
Cells(run) == {<<run.atom[1], run.atom[2] + k>> : k \in 0 .. (run.length - 1)}
Address(atom) == Base(atom[1]) + atom[2] * AtomSize

Init == arenas = 0 /\ arrays = <<>> /\ solos = <<>> /\ blocks = {}

\* needs_alignment_fixup.
Padded(align) ==
  align > 1 /\ (align > Guaranteed \/ AtomSize < align \/ AtomSize % align # 0)

Count(size, align) ==
  ((IF Padded(align) THEN size + align + OffsetSize ELSE size) + AtomSize - 1) \div AtomSize

\* Mutant of Pointer: the word ahead of the block is not thought of.
PointerBare(address, align) ==
  IF Padded(align) THEN ((address + align - 1) \div align) * align ELSE address

Pointer(address, align) ==
  IF Padded(align) THEN ((address + OffsetSize + align - 1) \div align) * align ELSE address

\* Mutant of Inserted: a run that is as long as the first goes behind it, and shorter ones too.
InsertedSecond(runs, run) ==
  IF runs # <<>> /\ runs[1].length > run.length THEN <<runs[1], run>> \o Tail(runs) ELSE <<run>> \o runs

\* A run goes before the first that is not longer.
Inserted(runs, run) ==
  LET longer == Cardinality({k \in DOMAIN runs : runs[k].length > run.length})
  IN SubSeq(runs, 1, longer) \o <<run>> \o SubSeq(runs, longer + 1, Len(runs))

\* consume of the longest run, or of a new arena that goes in front of it.
Consume(n) ==
  LET grows == arrays = <<>> \/ arrays[1].length < n
      runs  == IF grows THEN <<Run(<<arenas + 1, 0>>, AtomCount)>> \o arrays ELSE arrays
      left  == runs[1].length - n
      head  == <<runs[1].atom[1], runs[1].atom[2] + n>>
  IN [arenas |-> IF grows THEN arenas + 1 ELSE arenas, atom |-> runs[1].atom,
      arrays |-> IF left > 1 THEN Inserted(Tail(runs), Run(head, left)) ELSE Tail(runs),
      solos  |-> IF left = 1 THEN <<head>> \o solos ELSE solos]

ConsumeSolo == [arenas |-> arenas, atom |-> Head(solos), arrays |-> arrays, solos |-> Tail(solos)]

\* What takes more atoms than an arena has comes from the underlying allocator.
Allocate(size, align) ==
  LET n == Count(size, align)
      taken == IF n = 1 /\ solos # <<>> THEN ConsumeSolo ELSE Consume(n)
      pointer == Pointer(Address(taken.atom), align)
  IN /\ n <= AtomCount /\ taken.arenas <= ArenaBound /\ Cardinality(blocks) < BlockBound
     /\ arenas' = taken.arenas /\ arrays' = taken.arrays /\ solos' = taken.solos
     /\ blocks' = blocks \cup
          {[pointer |-> pointer, size |-> size, align |-> align, arena |-> taken.atom[1],
            word |-> pointer - Address(taken.atom)]}

\* The run of a block, found again from its pointer, its word and its size.
RunOf(b) ==
  Run(<<b.arena, ((IF Padded(b.align) THEN b.pointer - b.word ELSE b.pointer) - Base(b.arena)) \div AtomSize>>,
      Count(b.size, b.align))

\* release of a run reads the length of the first free one: without one the code reads through null.
Deallocate(b) ==
  LET run == RunOf(b)
  IN /\ blocks' = blocks \ {b}
     /\ \/ /\ run.length = 1
           /\ solos' = <<run.atom>> \o solos /\ UNCHANGED arrays
        \/ /\ run.length > 1 /\ arrays # <<>>
           /\ arrays' = Inserted(arrays, run) /\ UNCHANGED solos
     /\ UNCHANGED arenas

Next ==
  \/ \E r \in Requests : Allocate(r[1], r[2])
  \/ \E b \in blocks : Deallocate(b)

-----------------------------------------------------------------------------

\* Every variable has its type.
TypeOK ==
  /\ arenas \in 0 .. ArenaBound
  /\ \A k \in DOMAIN arrays : arrays[k].atom \in Atoms /\ arrays[k].length \in 2 .. AtomCount
  /\ \A k \in DOMAIN solos : solos[k] \in Atoms

\* Blocks, free runs and free atoms cover every arena exactly once; the first run is the longest,
\* so that an arena is allocated only if no run is long enough; a block is aligned, in its run, and
\* the word ahead of it is in its run too.
LayoutExact ==
  LET used  == {RunOf(b) : b \in blocks}
      free  == Range(arrays) \cup {Run(s, 1) : s \in Range(solos)}
      owned == used \cup free
  IN /\ UNION {Cells(r) : r \in owned} = (1 .. arenas) \X (0 .. (AtomCount - 1))
     /\ \A r, s \in owned : r # s => Cells(r) \cap Cells(s) = {}
     /\ Cardinality(used) = Cardinality(blocks) /\ used \cap free = {}
     /\ Cardinality(free) = Len(arrays) + Len(solos)
     /\ \A j, k \in DOMAIN arrays : j < k => arrays[j].length >= arrays[k].length
     /\ \A b \in blocks :
          LET start == Address(RunOf(b).atom)
          IN /\ b.pointer % b.align = 0
             /\ b.pointer >= start + (IF Padded(b.align) THEN OffsetSize ELSE 0)
             /\ b.pointer + b.size <= start + RunOf(b).length * AtomSize
=============================================================================
