----------------------------- MODULE FreeRanges -----------------------------
(***************************************************************************)
(* What the suballocators share: ranges of units, the list of free ranges  *)
(* that some keep sorted by offset with no two of them adjacent, and the   *)
(* copies that move blocks.                                                *)
(***************************************************************************)
EXTENDS Integers, Sequences, FiniteSets, SequencesExt

Span(lo, n) == [lo |-> lo, size |-> n]
SpanEnd(r)  == r.lo + r.size

\* align_offset, for offsets that do not overflow.
AlignedUp(off, a) == ((off + a - 1) \div a) * a

\* Where a block of n units with alignment a begins in range r, if it fits.
Fit(r, n, a) == AlignedUp(r.lo, a) + n <= SpanEnd(r)

\* The first range that has room for it, or 0.
FirstFit(s, n, a) ==
  LET fits == {i \in DOMAIN s : Fit(s[i], n, a)}
  IN IF fits = {} THEN 0 ELSE CHOOSE i \in fits : \A j \in fits : i <= j

\* What is left of range i when the block [lo, lo + n) is taken out of it.
Occupy(s, i, lo, n) ==
  LET r == s[i]
      left  == IF lo > r.lo THEN <<Span(r.lo, lo - r.lo)>> ELSE <<>>
      right == IF lo + n < SpanEnd(r) THEN <<Span(lo + n, SpanEnd(r) - lo - n)>> ELSE <<>>
  IN SubSeq(s, 1, i - 1) \o left \o right \o SubSeq(s, i + 1, Len(s))

\* Mutant of Release: a block that fills a gap merges to the left only.
ReleaseLeftOnly(s, lo, n) ==
  LET k     == Cardinality({i \in DOMAIN s : s[i].lo < lo})
      left  == k > 0 /\ SpanEnd(s[k]) = lo
      right == ~left /\ k < Len(s) /\ lo + n = s[k + 1].lo
      first == IF left THEN s[k].lo ELSE lo
      end   == IF right THEN SpanEnd(s[k + 1]) ELSE lo + n
  IN SubSeq(s, 1, IF left THEN k - 1 ELSE k) \o <<Span(first, end - first)>>
       \o SubSeq(s, IF right THEN k + 2 ELSE k + 1, Len(s))

\* The block is free again and merges with its free neighbours.
Release(s, lo, n) ==
  LET k     == Cardinality({i \in DOMAIN s : s[i].lo < lo})
      left  == k > 0 /\ SpanEnd(s[k]) = lo
      right == k < Len(s) /\ lo + n = s[k + 1].lo
      first == IF left THEN s[k].lo ELSE lo
      end   == IF right THEN SpanEnd(s[k + 1]) ELSE lo + n
  IN SubSeq(s, 1, IF left THEN k - 1 ELSE k) \o <<Span(first, end - first)>>
       \o SubSeq(s, IF right THEN k + 2 ELSE k + 1, Len(s))

\* The free ranges and the blocks in use, a set of ranges, cover [0, capacity) exactly once, and
\* adjacent free ranges were merged.
Tiles(s, inUse, capacity) ==
  LET all == {s[i] : i \in DOMAIN s} \cup inUse IN
  /\ \A r \in all : r.size > 0 /\ r.lo >= 0 /\ SpanEnd(r) <= capacity
  /\ \A r, q \in all : r # q => SpanEnd(r) <= q.lo \/ SpanEnd(q) <= r.lo
  /\ \A x \in 0 .. (capacity - 1) : \E r \in all : r.lo <= x /\ x < SpanEnd(r)
  /\ \A i \in 1 .. (Len(s) - 1) : SpanEnd(s[i]) < s[i + 1].lo

-----------------------------------------------------------------------------
(* The two-steps-at-a-time binary search mini2: how many numbers of the    *)
(* ascending sequence s, which is not empty, are below key.                *)

Halve(r, s, key) ==
  [at |-> IF s[r.at + (r.size \div 2) + 1] < key THEN r.at + (r.size \div 2) ELSE r.at,
   size |-> (r.size + 1) \div 2]
Search(s, key) ==
  LET Twice(r) == Halve(Halve(r, s, key), s, key)
      found[k \in 0 .. Len(s)] ==
        IF k = 0 THEN Twice([at |-> 0, size |-> Len(s)])
        ELSE IF found[k - 1].size <= 2 THEN found[k - 1] ELSE Twice(found[k - 1])
      r  == found[Len(s)]
      at == IF r.size > 1 /\ s[r.at + 1] < key THEN r.at + 1 ELSE r.at
  IN IF r.size > 0 /\ s[at + 1] < key THEN at + 1 ELSE at
LowerBound(s, key) == IF s = <<>> THEN 0 ELSE Search(s, key)

-----------------------------------------------------------------------------
(* Memory: <<arena, unit>> |-> Nothing, or <<id, k>> for the k-th unit of  *)
(* block id.                                                               *)

Nothing == <<0, 0>>

Within(p, arena, r) == p[1] = arena /\ r.lo <= p[2] /\ p[2] < SpanEnd(r)

Filled(memory, arena, r, id) ==
  [p \in DOMAIN memory |->
     IF Within(p, arena, r) THEN IF id = 0 THEN Nothing ELSE <<id, p[2] - r.lo>> ELSE memory[p]]
Holds(memory, arena, r, id) ==
  \A x \in r.lo .. (SpanEnd(r) - 1) : memory[<<arena, x>>] = <<id, x - r.lo>>

\* move_memory, with the semantics of memmove, for each move in order.
Moved(memory, moves) ==
  FoldLeft(LAMBDA m, v : [p \in DOMAIN m |->
                            IF Within(p, v.dst, Span(v.to, v.size))
                              THEN m[<<v.src, p[2] - v.to + v.from>>] ELSE m[p]],
           memory, moves)

\* push_move: a move that continues the last one is made one with it.
Joined(moves, v) ==
  IF moves # <<>> /\ LET b == Last(moves) IN
       b.src = v.src /\ b.dst = v.dst /\ b.from + b.size = v.from /\ b.to + b.size = v.to
    THEN [moves EXCEPT ![Len(moves)].size = @ + v.size]
    ELSE Append(moves, v)

\* What no block of the set, of pairs <<arena, range>>, contains is forgotten.
Kept(memory, blocks) ==
  [p \in DOMAIN memory |-> IF \E b \in blocks : Within(p, b[1], b[2]) THEN memory[p] ELSE Nothing]
=============================================================================
