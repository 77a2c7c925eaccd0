---------------------------- MODULE SparseTable ----------------------------
(***************************************************************************)
(* ouly::sparse_table: elements in pools, found by links of an index and a *)
(* hazard number.  Unused slots are chained through the links that the     *)
(* slots of elements use to say who they are.                              *)
(***************************************************************************)
EXTENDS Integers, Sequences, FiniteSets, Functions

CONSTANTS
  Tables,     \* tables that are copied, moved and swapped with one another
  PoolSize,   \* elements of a pool
  Hazards,    \* how many hazard numbers there are: 128, and 1 without ouly::debug
  Values,
  SlotBound,  \* bound: no index above it is used
  None

SparseTableAssumption ==
  PoolSize \in Nat \ {0} /\ Hazards \in Nat \ {0} /\ SlotBound \in Nat

VARIABLES
  tables,    \* the members of each table; refs and items hold index |-> link and element
  elements,  \* what the clients believe: link |-> element
  erased     \* the link that was erased last at an index

vars == <<tables, elements, erased>>

NoLink == [at |-> 0, hazard |-> 0, live |-> FALSE]
Link(i, h) == [at |-> i, hazard |-> h, live |-> TRUE]
Links == {Link(i, h) : i \in 1 .. SlotBound, h \in 0 .. (Hazards - 1)}
Fresh == [pools |-> 0, refs |-> <<>>, items |-> <<>>, length |-> 0, extents |-> 1, free |-> NoLink]

Init ==
  /\ tables = [t \in Tables |-> Fresh]
  /\ elements = [t \in Tables |-> <<>>]
  /\ erased = [t \in Tables |-> <<>>]

Put(s, i, x) == IF i > Len(s) THEN Append(s, x) ELSE [s EXCEPT ![i] = x]
Without(f, x) == Restrict(f, DOMAIN f \ {x})
Contains(s, l) == l.at < s.extents /\ s.refs[l.at] = l

\* Revised and marked invalid, and marked valid again.
Revised(l)   == [at |-> l.at, hazard |-> (l.hazard + 1) % Hazards, live |-> FALSE]
Validated(l) == [l EXCEPT !.live = TRUE]

-----------------------------------------------------------------------------

\* The slot erased last is used again, or else the next one that was never used.
Emplace(t, v) ==
  LET s      == tables[t]
      unused == s.free = NoLink
      link   == IF unused THEN Link(s.extents, 0) ELSE Validated(s.free)
      grows  == unused /\ s.extents \div PoolSize >= s.pools
  IN /\ unused => s.extents <= SlotBound
     /\ tables' = [tables EXCEPT ![t] =
          [pools   |-> IF grows THEN s.pools + 1 ELSE s.pools,
           refs    |-> Put(s.refs, link.at, link),
           items   |-> Put(s.items, link.at, v),
           length  |-> s.length + 1,
           extents |-> IF unused THEN s.extents + 1 ELSE s.extents,
           free    |-> IF unused THEN NoLink ELSE s.refs[link.at]]]
     /\ elements' = [elements EXCEPT ![t] = [l \in DOMAIN @ \cup {link} |->
                       IF l = link THEN v ELSE @[l]]]
     /\ UNCHANGED erased

\* Mutant of Erased: the slot does not lead to the one that was erased before it.
ErasedUnchained(s, l) ==
  [s EXCEPT !.length = @ - 1, !.items[l.at] = None, !.refs[l.at] = NoLink, !.free = Revised(l)]

\* Mutant of Erased: the link goes into the chain as it is.
ErasedUnrevised(s, l) ==
  [s EXCEPT !.length = @ - 1, !.items[l.at] = None, !.refs[l.at] = s.free,
            !.free = [l EXCEPT !.live = FALSE]]

Erased(s, l) ==
  [s EXCEPT !.length = @ - 1, !.items[l.at] = None, !.refs[l.at] = s.free, !.free = Revised(l)]

Erase(t, l) ==
  /\ l \in DOMAIN elements[t]
  /\ tables' = [tables EXCEPT ![t] = Erased(@, l)]
  /\ elements' = [elements EXCEPT ![t] = Without(@, l)]
  /\ erased' = [erased EXCEPT ![t] = [i \in DOMAIN @ \cup {l.at} |-> IF i = l.at THEN l ELSE @[i]]]

\* replace, or an assignment through at.
Replace(t, l, v) ==
  /\ l \in DOMAIN elements[t]
  /\ tables' = [tables EXCEPT ![t].items[l.at] = v]
  /\ elements' = [elements EXCEPT ![t][l] = v]
  /\ UNCHANGED erased

\* Hazard numbers begin anew: links from before are not told from later ones.
Cleared(s) == [Fresh EXCEPT !.pools = s.pools]
Clear(t) ==
  /\ tables' = [tables EXCEPT ![t] = Cleared(@)]
  /\ elements' = [elements EXCEPT ![t] = <<>>]
  /\ erased' = [erased EXCEPT ![t] = <<>>]

\* Of a table that never had a pool this would make a pool without memory.
ShrinkToFit(t) ==
  /\ tables[t].pools > 0
  /\ tables' = [tables EXCEPT ![t].pools = (tables[t].extents + PoolSize - 1) \div PoolSize]
  /\ UNCHANGED <<elements, erased>>

Move(t, u) ==
  /\ t # u
  /\ tables' = [tables EXCEPT ![t] = tables[u], ![u] = Fresh]
  /\ elements' = [elements EXCEPT ![t] = elements[u], ![u] = <<>>]
  /\ erased' = [erased EXCEPT ![t] = erased[u], ![u] = <<>>]

Copy(t, u) ==
  /\ t # u
  /\ tables' = [tables EXCEPT ![t] = tables[u]]
  /\ elements' = [elements EXCEPT ![t] = elements[u]]
  /\ erased' = [erased EXCEPT ![t] = erased[u]]

Swap(t, u) ==
  /\ t # u
  /\ tables' = [tables EXCEPT ![t] = tables[u], ![u] = tables[t]]
  /\ elements' = [elements EXCEPT ![t] = elements[u], ![u] = elements[t]]
  /\ erased' = [erased EXCEPT ![t] = erased[u], ![u] = erased[t]]

Next ==
  \E t \in Tables :
    \/ \E v \in Values : Emplace(t, v)
    \/ \E l \in Links : Erase(t, l) \/ \E v \in Values : Replace(t, l, v)
    \/ Clear(t) \/ ShrinkToFit(t)
    \/ \E u \in Tables : Move(t, u) \/ Copy(t, u) \/ Swap(t, u)

-----------------------------------------------------------------------------

\* Every variable has its type.
TypeOK ==
  \A t \in Tables :
    /\ DOMAIN elements[t] \subseteq Links
    /\ LET s == tables[t]
       IN /\ s.extents \in 1 .. (SlotBound + 1) /\ s.pools \in 0 .. SlotBound + 1
          /\ Len(s.refs) = s.extents - 1 /\ Len(s.items) = s.extents - 1

\* The links that clients have, and no others, are contained and lead to their elements; the
\* link that was erased last at an index is not.
LookupsExact ==
  \A t \in Tables :
    /\ tables[t].length = Cardinality(DOMAIN elements[t])
    /\ \A l \in Links : Contains(tables[t], l) <=> l \in DOMAIN elements[t]
    /\ \A l \in DOMAIN elements[t] : tables[t].items[l.at] = elements[t][l]
    /\ Hazards > 1 => \A i \in DOMAIN erased[t] : ~Contains(tables[t], erased[t][i])

\* The chain of unused slots visits each slot without an element once; every slot is in a pool.
LinksExact ==
  \A t \in Tables :
    LET s == tables[t]
        unused == {i \in DOMAIN s.refs : ~s.refs[i].live}
        n == Cardinality(unused)
        Nth[k \in 0 .. n] == IF k = 0 THEN s.free
                             ELSE IF Nth[k - 1] = NoLink THEN NoLink ELSE s.refs[Nth[k - 1].at]
    IN /\ {Nth[k].at : k \in 0 .. (n - 1)} = unused /\ Nth[n] = NoLink
       /\ (s.extents + PoolSize - 1) \div PoolSize <= IF s.pools = 0 THEN 1 ELSE s.pools
=============================================================================
