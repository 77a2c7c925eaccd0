----------------------------- MODULE SearchOrder -----------------------------
(***************************************************************************)
(* The order in which a worker of ouly::v1::scheduler examines the queues  *)
(* of its groups.                                                          *)
(***************************************************************************)
EXTENDS Integers, Sequences, FiniteSets, SequencesExt

CONSTANTS
  WorkerCount,   \* workers are 0 .. WorkerCount - 1; worker 0 is the main thread
  Groups,        \* workgroup indices
  Start, Count,  \* start_thread_idx_, thread_count_ of each group
  Priority       \* priority_ of each group

Workers == 0 .. (WorkerCount - 1)
Members(g)   == Start[g] .. (Start[g] + Count[g] - 1)
Offsets(g)   == 0 .. (Count[g] - 1)
Offset(t, g) == t - Start[g]
AllOffsets   == UNION {Offsets(g) : g \in Groups}

\* update_seed() % n: the mask makes every seed even.
Starts(n) == {s \in 0 .. (n - 1) : n % 2 = 1 \/ s % 2 = 0}

\* The groups of a worker, by priority and then by index.
GroupOrder(t) ==
  SetToSortSeq({g \in Groups : t \in Members(g)},
               LAMBDA f, g : Priority[f] > Priority[g] \/ (Priority[f] = Priority[g] /\ f < g))

\* The neighbours: the code adds the distance to the index of the thread, not to its
\* offset in the group.
Nearby(t, g) ==
  LET c == Count[g]
      Side(d, s) == (t + s * d + c) % c
  IN FlattenSeq([d \in 1 .. (c \div 2) |-> <<Side(d, -1), Side(d, 1)>>])

\* The rest of a round from a random offset; its first half counts as examined.
Distant(g, s) == [k \in 1 .. (Count[g] - 1 - Count[g] \div 2) |-> (s + Count[g] \div 2 + k) % Count[g]]

\* The offsets that thread t examines in group g, in order.
Victims(t, g, s) ==
  <<Offset(t, g)>> \o SelectSeq(Nearby(t, g) \o Distant(g, s), LAMBDA o : o # Offset(t, g))

\* The searches of each worker: the queues in the order it examines them.
WorkerPlans == [t \in Workers |->
  LET gs == GroupOrder(t) IN
    {FlattenSeq([i \in DOMAIN gs |-> LET v == Victims(t, gs[i], f[gs[i]]) IN
                                       [k \in DOMAIN v |-> <<gs[i], v[k]>>]]) :
       f \in {h \in [Groups -> AllOffsets] : \A g \in Groups : h[g] \in Starts(Count[g])}}]
=============================================================================
