---------------------------- MODULE ParallelFor ----------------------------
(***************************************************************************)
(* ouly::default_parallel_for and ouly::auto_parallel_for: a range of      *)
(* elements is cut into chunks; all but the last go to a task scope, the   *)
(* caller executes the last one, joins the scope and rethrows.             *)
(*                                                                         *)
(* The scope is used as TaskScope models it: a child runs once, on any     *)
(* thread, and join returns when all have.  A step of a thread visits one  *)
(* element or makes one decision of auto_range::execute.                   *)
(***************************************************************************)
EXTENDS Integers, Sequences, FiniteSets, FiniteSetsExt, SequencesExt

CONSTANTS
  Threads,
  Caller,
  Counts,     \* how long the range may be
  Throws,     \* the elements for which the function throws
  Grain, Threshold, BatchesPerWorker, FixedBatch,  \* of the traits
  DepthMax, DepthIncrement, PoolCap,
  None

MaxCount == Max(Counts)
Kinds == {"range", "element", "auto"}
ParallelForAssumption ==
  /\ Caller \in Threads /\ Counts \subseteq Nat /\ Throws \subseteq Nat
  /\ Grain \in Nat \ {0} /\ BatchesPerWorker \in Nat \ {0} /\ PoolCap \in Nat \ {0}
  /\ {Threshold, FixedBatch, DepthMax, DepthIncrement} \subseteq Nat

VARIABLES
  kind, count,  \* which function, and how long the range is
  pc,           \* of the caller: "call", "submit", "own", "join", "done"
  cut,          \* the chunks that are still to be submitted, the caller's is the last
  children,     \* chunks in the scope that no thread has begun
  work,         \* what each thread executes
  failed,       \* a child has thrown
  thrown,       \* what the caller throws: "own", "child" or None
  visits        \* how often the function was called for each element

vars == <<kind, count, pc, cut, children, work, failed, thrown, visits>>

WorkerCount == Cardinality(Threads)
Least(a, b) == IF a < b THEN a ELSE b
CeilDiv(a, b) == (a + b - 1) \div b
\* A range, how deep it may be split, and the logarithm of the divisor.
Chunk(b, e, depth, log) == [b |-> b, e |-> e, depth |-> depth, log |-> log]
Size(r) == r.e - r.b

-----------------------------------------------------------------------------
(* How a range is cut.                                                     *)

WorkCount == IF kind = "element" THEN count
             ELSE IF FixedBatch > 0 THEN CeilDiv(count, FixedBatch)
             ELSE CeilDiv(count, WorkerCount * BatchesPerWorker)

\* How many chunks; 1: the caller executes the range itself.
Chunks ==
  IF count <= Threshold THEN 1
  ELSE IF kind = "auto" THEN Least(WorkerCount * Grain, count \div Grain)
  ELSE Least(WorkCount, WorkerCount)

Log2(n) == CHOOSE l \in 0 .. n : 2 ^ l <= n /\ n < 2 ^ (l + 1)

\* Mutant: the last chunk has the size of the others.
CutShort(n) ==
  LET base == count \div n
      extra == count % n
      start(i) == i * base + Least(i, extra) IN
  [i \in 1 .. n |-> Chunk(start(i - 1), start(i - 1) + base, 0,
                          IF kind = "auto" /\ n > 0 THEN Log2(n) ELSE 0)]

\* The first chunks are one element longer if there is a remainder; the last takes the rest.
Cut(n) ==
  LET base == count \div n
      extra == count % n
      start(i) == i * base + Least(i, extra) IN
  [i \in 1 .. n |-> Chunk(start(i - 1), IF i = n THEN count ELSE start(i), 0,
                          IF kind = "auto" /\ n > 0 THEN Log2(n) ELSE 0)]

-----------------------------------------------------------------------------
(* auto_range: the pool of ranges of a thread.                             *)

Divisible(r, depth, granularity) == Size(r) > granularity /\ r.depth < depth

\* split_to_fill: if the end to split is divisible the loop turns to the other end, and stops
\* when both ends are the same slot.
RECURSIVE Fill(_, _, _, _)
Fill(pool, depth, granularity, fromBack) ==
  LET n == Len(pool)
      idx == IF fromBack THEN n ELSE 1
      alt == IF fromBack THEN 1 ELSE n
      turn == n > 0 /\ Divisible(pool[idx], depth, granularity)
      stop == \/ n = PoolCap \/ n = 0 \/ ~Divisible(pool[n], depth, granularity)
              \/ turn /\ alt = idx
              \/ turn /\ Size(pool[alt]) < granularity /\ pool[alt].depth < depth IN
  IF stop THEN pool
  ELSE LET from == IF turn THEN pool[alt] ELSE pool[idx]
           back == IF turn THEN ~fromBack ELSE fromBack
           mid == from.b + Size(from) \div 2
           left == [from EXCEPT !.e = mid, !.depth = @ + 1]
           right == [from EXCEPT !.b = mid, !.depth = @ + 1]
           kept == [pool EXCEPT ![idx] = left] IN
       Fill(IF back THEN <<right>> \o kept ELSE Append(kept, right), depth, granularity, ~back)

\* What a thread has to do for a chunk.  A stolen one is split more conservatively.
Begin(t, c) ==
  LET stolen == kind = "auto" /\ t # Caller
      depth == IF stolen /\ c.depth < DepthMax THEN c.depth + DepthIncrement ELSE c.depth
      log == IF stolen THEN c.log + 2 ELSE c.log
      whole == kind # "auto" \/ Size(c) <= Grain * 2 ^ log \/ depth = 0 IN
  [stolen |-> stolen, depth |-> depth, log |-> log, own |-> FALSE,
   now |-> IF whole THEN <<c.b, c.e>> ELSE None,
   pool |-> IF whole THEN <<>> ELSE <<[c EXCEPT !.depth = 0]>>]

-----------------------------------------------------------------------------

Init ==
  /\ kind \in Kinds /\ count \in Counts
  /\ pc = "call" /\ cut = <<>> /\ children = {}
  /\ work = [t \in Threads |-> None]
  /\ failed = FALSE /\ thrown = None
  /\ visits = [x \in 0 .. MaxCount - 1 |-> 0]

Call ==
  /\ pc = "call"
  /\ cut' = IF Chunks <= 1 THEN <<Chunk(0, count, 0, 0)>> ELSE Cut(Chunks)
  /\ pc' = "submit"
  /\ UNCHANGED <<kind, count, children, work, failed, thrown, visits>>

Submit ==
  /\ pc = "submit" /\ Len(cut) > 1
  /\ children' = children \cup {Head(cut)}
  /\ cut' = Tail(cut)
  /\ UNCHANGED <<kind, count, pc, work, failed, thrown, visits>>
Own ==
  /\ pc = "submit" /\ Len(cut) = 1
  /\ work' = [work EXCEPT ![Caller] = [Begin(Caller, cut[1]) EXCEPT !.own = TRUE]]
  /\ cut' = <<>> /\ pc' = "own"
  /\ UNCHANGED <<kind, count, children, failed, thrown, visits>>

\* A worker, or the caller in join, begins a child.
Take(t) ==
  /\ work[t] = None /\ (t = Caller => pc = "join")
  /\ \E c \in children : /\ children' = children \ {c}
                         /\ work' = [work EXCEPT ![t] = Begin(t, c)]
  /\ UNCHANGED <<kind, count, pc, cut, failed, thrown, visits>>

\* auto_range::execute: fill the pool, give its front away or execute its back.
PoolStep(t) ==
  /\ work[t] # None
  /\ LET w == work[t]
         pool == Fill(w.pool, w.depth, Grain * 2 ^ w.log, TRUE) IN
       /\ w.now = None /\ w.pool # <<>>
       /\ IF (w.stolen \/ Grain > 1) /\ Len(pool) > 1
          THEN /\ children' = children \cup {[Head(pool) EXCEPT !.log = IF w.log > 0 THEN w.log - 1 ELSE 0]}
               /\ work' = [work EXCEPT ![t].pool = Tail(pool)]
          ELSE /\ work' = [work EXCEPT ![t].now = <<Last(pool).b, Last(pool).e>>, ![t].pool = Front(pool)]
               /\ UNCHANGED children
  /\ UNCHANGED <<kind, count, pc, cut, failed, thrown, visits>>

Ends(t) == /\ work' = [work EXCEPT ![t] = None]
           /\ pc' = IF work[t].own THEN "join" ELSE pc
\* The function is called for the next element; an exception ends the chunk.
Visit(t) ==
  /\ work[t] # None /\ work[t].now # None /\ work[t].now[1] < work[t].now[2]
  /\ LET x == work[t].now[1] IN
       /\ visits' = [visits EXCEPT ![x] = @ + 1]
       /\ \/ /\ x \notin Throws
             /\ work' = [work EXCEPT ![t].now[1] = x + 1]
             /\ UNCHANGED <<pc, failed, thrown>>
          \/ /\ x \in Throws
             /\ Ends(t)
             /\ IF work[t].own THEN thrown' = "own" /\ UNCHANGED failed
                               ELSE failed' = TRUE /\ UNCHANGED thrown
  /\ UNCHANGED <<kind, count, cut, children>>
ChunkEnds(t) ==
  /\ work[t] # None /\ work[t].now # None /\ work[t].now[1] = work[t].now[2]
  /\ IF work[t].pool = <<>> THEN Ends(t)
     ELSE work' = [work EXCEPT ![t].now = None] /\ UNCHANGED pc
  /\ UNCHANGED <<kind, count, cut, children, failed, thrown, visits>>

\* join returns when all children have ended; an exception of the caller's own chunk wins.
Join ==
  /\ pc = "join" /\ children = {} /\ \A t \in Threads : work[t] = None
  /\ pc' = "done"
  /\ thrown' = IF thrown = None /\ failed THEN "child" ELSE thrown
  /\ UNCHANGED <<kind, count, cut, children, work, failed, visits>>

ThreadStep(t) == Take(t) \/ PoolStep(t) \/ Visit(t) \/ ChunkEnds(t)
Ended == pc = "done" /\ UNCHANGED vars
CallerStep == Call \/ Submit \/ Own \/ Join
Next == CallerStep \/ (\E t \in Threads : ThreadStep(t)) \/ Ended
Spec == Init /\ [][Next]_vars
FairSpec == Spec /\ WF_vars(CallerStep) /\ \A t \in Threads : WF_vars(ThreadStep(t))

-----------------------------------------------------------------------------

Ranges == [b : 0 .. MaxCount, e : 0 .. MaxCount, depth : Nat, log : Nat]
\* The types of all variables.
TypeOK ==
  /\ kind \in Kinds /\ count \in Counts
  /\ pc \in {"call", "submit", "own", "join", "done"}
  /\ cut \in Seq(Ranges) /\ children \subseteq Ranges
  /\ \A t \in Threads : work[t] # None =>
       /\ work[t].own => t = Caller
       /\ work[t].pool \in Seq(Ranges) /\ Len(work[t].pool) <= PoolCap
  /\ failed \in BOOLEAN /\ thrown \in {None, "own", "child"}
  /\ visits \in [0 .. MaxCount - 1 -> Nat]

\* The function is never called twice for an element, nor for one outside the range; when the
\* call is over nothing of it runs any more, it throws if and only if the function did, and
\* unless it throws every element has been visited.
VisitedOnce ==
  /\ \A x \in DOMAIN visits : visits[x] <= (IF x < count THEN 1 ELSE 0)
  /\ pc = "done" =>
       /\ children = {} /\ \A t \in Threads : work[t] = None
       /\ (thrown # None) = (\E x \in Throws \cap DOMAIN visits : visits[x] > 0)
       /\ thrown = None => \A x \in 0 .. count - 1 : visits[x] = 1

\* The call returns.
Over == pc = "done"
AllEnd == <>Over
=============================================================================
