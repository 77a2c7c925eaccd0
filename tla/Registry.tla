------------------------------ MODULE Registry ------------------------------
(***************************************************************************)
(* ouly::ecs::basic_registry: entities are handed out by several threads   *)
(* and given back by one while no other is at work.  An entity is an index *)
(* and the number of times the index was given back.                       *)
(***************************************************************************)
EXTENDS Integers, Sequences, FiniteSets, Functions

CONSTANTS
  Threads,    \* they call emplace
  Revisions,  \* 2 ^ RevisionBits: 1 for entity, 256 for rxentity
  IndexBound, \* bound: emplace makes no index above it
  SpanBound,  \* bound: how many entities are erased at once
  None

RegistryAssumption ==
  Revisions \in Nat \ {0} /\ IndexBound \in Nat /\ SpanBound \in Nat /\ None \notin Int

VARIABLES
  free,       \* free_: the prefix of free_slot_ entities can be handed out
  freeSlot,   \* free_slot_
  maxSize,    \* max_size_: the next index that was never used
  revisions,  \* revisions_: 0 where it has no entry yet
  ticket,     \* what fetch_sub gave a thread that is inside emplace, or None
  alive,      \* the entities that clients have
  erased      \* of each index that was erased, the entity that was erased last

vars == <<free, freeSlot, maxSize, revisions, ticket, alive, erased>>

Indices == 1 .. IndexBound
Entity(i, r) == [at |-> i, revision |-> r]
Entities == [at : Indices, revision : 0 .. (Revisions - 1)]
Revised(e) == [e EXCEPT !.revision = (@ + 1) % Revisions]

Init ==
  /\ free = <<>> /\ freeSlot = 0 /\ maxSize = 1
  /\ revisions = [i \in Indices |-> 0]
  /\ ticket = [t \in Threads |-> None]
  /\ alive = {} /\ erased = {}

Quiet == \A t \in Threads : ticket[t] = None
Remaining == IF freeSlot > 0 THEN freeSlot ELSE 0
Valid(e) == e.revision = revisions[e.at]

-----------------------------------------------------------------------------

\* Mutant of Take: the number is read and written back, and another thread reads it in between.
TakeLate(t) ==
  /\ ticket[t] = None
  /\ ticket' = [ticket EXCEPT ![t] = freeSlot]
  /\ freeSlot' = IF \E u \in Threads \ {t} : ticket[u] = freeSlot THEN freeSlot - 1 ELSE freeSlot
  /\ UNCHANGED <<free, maxSize, revisions, alive, erased>>

Take(t) ==
  /\ ticket[t] = None
  /\ ticket' = [ticket EXCEPT ![t] = freeSlot]
  /\ freeSlot' = freeSlot - 1
  /\ UNCHANGED <<free, maxSize, revisions, alive, erased>>

Emplaced(t, e) ==
  /\ alive' = alive \cup {e}
  /\ ticket' = [ticket EXCEPT ![t] = None]
  /\ UNCHANGED <<free, freeSlot, revisions, erased>>

Reuse(t) ==
  /\ ticket[t] # None /\ ticket[t] > 0
  /\ Emplaced(t, free[ticket[t]])
  /\ UNCHANGED maxSize

Extend(t) ==
  /\ ticket[t] # None /\ ticket[t] <= 0
  /\ maxSize <= IndexBound
  /\ maxSize' = maxSize + 1
  /\ Emplaced(t, Entity(maxSize, 0))

\* Mutant of Listed: what was handed out is not trimmed.
ListedUntrimmed(ls) == free \o [k \in DOMAIN ls |-> Revised(ls[k])]

\* Mutant of Listed: the entity is given back as it is.
ListedUnrevised(ls) == SubSeq(free, 1, Remaining) \o ls

\* Entries that emplace handed out are trimmed before those of the erased entities.
Listed(ls) == SubSeq(free, 1, Remaining) \o [k \in DOMAIN ls |-> Revised(ls[k])]

\* erase of one entity, or of a span.
Erase(ls) ==
  /\ Quiet
  /\ free' = Listed(ls)
  /\ freeSlot' = Len(free')
  /\ revisions' = [i \in Indices |->
       IF \E e \in Range(ls) : e.at = i THEN (revisions[i] + 1) % Revisions ELSE revisions[i]]
  /\ alive' = alive \ Range(ls)
  /\ erased' = {d \in erased : \A e \in Range(ls) : e.at # d.at} \cup Range(ls)
  /\ UNCHANGED <<maxSize, ticket>>

\* The first n entries of the list in the order of their indices.
Sorted(n) ==
  LET Prefix == Range(SubSeq(free, 1, n))
  IN {s \in [1 .. n -> Prefix] : Range(s) = Prefix /\ \A j, k \in 1 .. n : j < k => s[j].at <= s[k].at}

\* Mutant of ForEachIndex: what was handed out is sorted with the rest.
ForEachUntrimmed ==
  /\ Quiet
  /\ free' \in Sorted(Len(free))
  /\ UNCHANGED <<freeSlot, maxSize, revisions, ticket, alive, erased>>

\* shrink, sort_free and the walk.  sort_free alone would mix what was handed out with the rest.
ForEachIndex ==
  /\ Quiet
  /\ free' \in Sorted(Remaining)
  /\ UNCHANGED <<freeSlot, maxSize, revisions, ticket, alive, erased>>

Next ==
  \/ \E t \in Threads : Take(t) \/ Reuse(t) \/ Extend(t)
  \/ \E n \in 0 .. SpanBound : \E ls \in [1 .. n -> alive] :
       (\A j, k \in 1 .. n : ls[j] = ls[k] => j = k) /\ Erase(ls)
  \/ ForEachIndex

Spec == Init /\ [][Next]_vars

-----------------------------------------------------------------------------

\* Every variable has its type.
TypeOK ==
  /\ free \in Seq(Entities) /\ freeSlot \in Int /\ freeSlot <= Len(free)
  /\ maxSize \in 1 .. (IndexBound + 1)
  /\ revisions \in [Indices -> 0 .. (Revisions - 1)]
  /\ ticket \in [Threads -> Int \cup {None}]
  /\ alive \subseteq Entities
  /\ erased \subseteq Entities

\* No two entities that clients have share an index, they are valid, and the entity that was
\* erased last of an index is not.
Unique ==
  /\ \A e, d \in alive : e.at = d.at => e = d
  /\ \A e \in alive : Valid(e)
  /\ Revisions > 1 => \A d \in erased : ~Valid(d)

\* internal_for_each: the walk over the sorted free list visits the other indices.
Visited(s) ==
  LET Walk[i \in 0 .. (maxSize - 1)] ==  \* how many of the list were met up to i
        IF i = 0 THEN 0
        ELSE LET n == Walk[i - 1] IN IF n < Len(s) /\ s[n + 1].at = i THEN n + 1 ELSE n
  IN {i \in 1 .. (maxSize - 1) : Walk[i] = Walk[i - 1]}

\* Clients have unique and valid entities; while no thread is inside emplace size is their number
\* and the walk of for_each_index, which may be over a sorted copy, meets exactly them.
LookupsExact ==
  /\ Unique
  /\ Quiet =>
       /\ maxSize - 1 - Remaining = Cardinality(alive)
       /\ Sorted(Remaining) # {} /\ \A s \in Sorted(Remaining) : Visited(s) = {e.at : e \in alive}
=============================================================================
