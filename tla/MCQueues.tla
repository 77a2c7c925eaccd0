----------------------------- MODULE MCQueues -----------------------------
(***************************************************************************)
(* The queues side by side; a behaviour uses one of them.                  *)
(* mailbox: MpmcRing itself, three threads and a ring of two slots, one of *)
(* which is used again.  deque: an owner with delayed stores, two thieves  *)
(* and a ring of two slots that four pushes go around twice.  buckets: two *)
(* threads and five elements, so that a freed bucket is used again; the    *)
(* constructor of element 2 throws.                                        *)
(***************************************************************************)
EXTENDS MpmcRing, TLC

\* t1, t2 are threads; x1, x2, x3 are the threads of the mailbox and the buckets of the chain.
CONSTANTS t1, t2, x1, x2, x3, Torn, Poison

VARIABLES which, top, bottom, buffer, stores, dpc, own, loc, dpushes, danswer,
          fast, first, last, live, enqueuePos, dequeuePos, next, committed, data, shared, bpc, reg,
          emplaced, banswer

Deque == INSTANCE SpmcRing WITH
  Thieves <- {t1, t2}, Capacity <- 2, PushBound <- 4,
  pc <- dpc, pushes <- dpushes, answer <- danswer

Chained == INSTANCE ConcurrentQueue WITH
  Threads <- {t1, t2}, Buckets <- {x1, x2, x3}, PoolSize <- 2, EmplaceBound <- 5, Throws <- {2},
  head <- first, tail <- last, pc <- bpc, answer <- banswer

ASSUME Deque!RingAssumption /\ Chained!QueueAssumption

dequeVars  == <<top, bottom, buffer, stores, dpc, own, loc, dpushes, danswer>>
bucketVars == <<fast, first, last, live, enqueuePos, dequeuePos, next, committed, data, shared,
                bpc, reg, emplaced, banswer>>

MCInit ==
  /\ which \in {"deque", "mailbox", "buckets"}
  /\ Init /\ Deque!Init /\ Chained!Init
  /\ which \in {"deque", "mailbox"} => fast = TRUE
MCNext == /\ UNCHANGED which
          /\ \/ which = "mailbox" /\ Next /\ UNCHANGED <<dequeVars, bucketVars>>
             \/ which = "deque" /\ Deque!Next /\ UNCHANGED <<vars, bucketVars>>
             \/ which = "buckets" /\ Chained!Next /\ UNCHANGED <<vars, dequeVars>>
MCSpec == MCInit /\ [][MCNext]_<<which, vars, dequeVars, bucketVars>>

Symmetry == Permutations({t1, t2}) \cup Permutations({x1, x2, x3})

-----------------------------------------------------------------------------

\* Every variable of the queues has its type; no cursor overtakes another.
TypesOK == TypeOK /\ Deque!TypeOK /\ Chained!TypeOK

\* The deque implements WorkDeque and the chain of buckets TicketQueue (MpmcRing states the
\* same of the mailbox): whatever threads do at the same time, no item is lost, taken twice,
\* reordered or returned half written, and no call fails without reason.
OthersImplement == Deque!Implements /\ Chained!Implements

\* The unsigned distances between the ends of both rings never wrap and never exceed the
\* capacity, although the deque's bottom_ goes below top_ for a moment.
Distances == Deque!IndexDistance /\ HeadTail

\* No thread inside the shared lock has a bucket that is freed, and no bucket is freed with
\* an element in it.
BucketsSafe == Chained!NoDangling /\ Chained!NoneLeft
=============================================================================
