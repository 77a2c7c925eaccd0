------------------------------- MODULE SpmcRing -------------------------------
(***************************************************************************)
(* ouly::detail::spmc_ring: the work-stealing deque of the schedulers.     *)
(*                                                                         *)
(* The stores of the owner go through a store buffer that drains in order, *)
(* as on x86; its sequentially consistent fence and its compare-exchange   *)
(* wait until the buffer is empty.  Thieves read memory and change it only *)
(* by compare-exchange.  The copy of an item into a slot is two stores, so *)
(* a thief can read a slot half written.  The indices are size_t and do    *)
(* not wrap within the bound on the number of pushes.                      *)
(***************************************************************************)
EXTENDS Integers, Sequences

CONSTANTS
  Thieves,
  Capacity,   \* a power of two
  PushBound,  \* bound: how many items the owner pushes; the n-th one is n
  Torn,       \* a slot half written
  None

Owner == "owner"

RingAssumption ==
  /\ Capacity \in Nat \ {0}
  /\ PushBound \in Nat
  /\ None \notin Nat /\ Torn \notin 1 .. PushBound
  /\ Owner \notin Thieves

Items == 1 .. PushBound
Slots == 0 .. (Capacity - 1)
Slot(i) == i % Capacity

VARIABLES
  top, bottom, buffer,  \* memory
  stores,    \* the store buffer of the owner
  pc,        \* where each thread is
  own,       \* bottom_ as the owner sees it
  loc,       \* loc[x]: the index t and the item a thief holds
  pushes,    \* how many items were pushed or refused so far
  answer     \* answer[x]: the item the last call of x pushed or took; None if it failed

vars == <<top, bottom, buffer, stores, pc, own, loc, pushes, answer>>

NoLoc == [t |-> 0, item |-> None]

Init == /\ top = 0
        /\ bottom = 0
        /\ buffer = [s \in Slots |-> None]
        /\ stores = <<>>
        /\ pc = [x \in {Owner} \cup Thieves |-> "idle"]
        /\ own = 0
        /\ loc = [x \in Thieves |-> NoLoc]
        /\ pushes = 0
        /\ answer = [x \in {Owner} \cup Thieves |-> None]

At(x, l) == pc[x] = l
Goto(x, l) == pc' = [pc EXCEPT ![x] = l]
Return(x, a) == Goto(x, "idle") /\ answer' = [answer EXCEPT ![x] = a]
Forget(x)    == loc' = [loc EXCEPT ![x] = NoLoc]
ToSlot(i, v) == [slot |-> Slot(i), val |-> v]
ToBottom(b)  == [slot |-> None, val |-> b]
\* The owner stores b to bottom_.
StoreBottom(b) == own' = b /\ stores' = Append(stores, ToBottom(b))

\* The oldest store of the owner reaches memory.
Drain ==
  /\ stores # <<>>
  /\ LET s == Head(stores) IN
       \/ s.slot = None /\ bottom' = s.val /\ UNCHANGED buffer
       \/ s.slot # None /\ buffer' = [buffer EXCEPT ![s.slot] = s.val] /\ UNCHANGED bottom
  /\ stores' = Tail(stores)
  /\ UNCHANGED <<top, pc, own, loc, pushes, answer>>

\* Mutant: bottom_ is stored before the item.
BottomFirst(i) == <<ToBottom(own + 1), ToSlot(own, Torn), ToSlot(own, i)>>

PushStores(i) == <<ToSlot(own, Torn), ToSlot(own, i), ToBottom(own + 1)>>

\* push_back: one load of top_, then only stores.
PushBack ==
  /\ At(Owner, "idle")
  /\ pushes < PushBound
  /\ pushes' = pushes + 1
  /\ \/ /\ own - top >= Capacity
        /\ Return(Owner, None)
        /\ UNCHANGED <<stores, own>>
     \/ /\ own - top < Capacity
        /\ own' = own + 1
        /\ stores' = stores \o PushStores(pushes')
        /\ Return(Owner, pushes')
  /\ UNCHANGED <<top, bottom, buffer, loc>>

\* pop_back, up to the store that reserves the newest item.
PopReserve ==
  /\ At(Owner, "idle")
  /\ \/ top >= own /\ Return(Owner, None) /\ UNCHANGED <<own, stores>>
     \/ top < own /\ StoreBottom(own - 1) /\ Goto(Owner, "reload") /\ UNCHANGED answer
  /\ UNCHANGED <<top, bottom, buffer, loc, pushes>>

\* The second load of top_ and, unless the item is the last one, the read of the slot.
\* Mutant of PopReload: no fence.
PopLoad ==
  /\ At(Owner, "reload")
  /\ \/ top < own /\ Return(Owner, buffer[Slot(own)]) /\ UNCHANGED <<own, stores>>
     \/ top = own /\ Goto(Owner, "compete") /\ UNCHANGED <<own, stores, answer>>
     \/ top > own /\ StoreBottom(top) /\ Return(Owner, None)
  /\ UNCHANGED <<top, bottom, buffer, loc, pushes>>

\* The fence comes first.
PopReload == stores = <<>> /\ PopLoad

\* Mutant: bottom_ is not restored when the thieves win.
PopCompeteUnrestored ==
  /\ At(Owner, "compete")
  /\ \/ top = own /\ top' = top + 1 /\ Return(Owner, buffer[Slot(own)]) /\ StoreBottom(own + 1)
     \/ top # own /\ UNCHANGED <<top, own, stores>> /\ Return(Owner, None)
  /\ UNCHANGED <<bottom, buffer, loc, pushes>>

\* The last item: compete with the thieves.  The t of pop_back is the reserved index here.
PopCompete ==
  /\ At(Owner, "compete")
  /\ \/ top = own /\ top' = top + 1 /\ Return(Owner, buffer[Slot(own)])
     \/ top # own /\ UNCHANGED top /\ Return(Owner, None)
  /\ StoreBottom(own + 1)
  /\ UNCHANGED <<bottom, buffer, loc, pushes>>

StealTop(x) ==
  /\ At(x, "idle")
  /\ loc' = [loc EXCEPT ![x].t = top]
  /\ Goto(x, "bottom")
  /\ UNCHANGED <<top, bottom, buffer, stores, own, pushes, answer>>

StealBottom(x) ==
  /\ At(x, "bottom")
  /\ \/ loc[x].t < bottom  /\ Goto(x, "read") /\ UNCHANGED <<loc, answer>>
     \/ loc[x].t >= bottom /\ Return(x, None) /\ Forget(x)
  /\ UNCHANGED <<top, bottom, buffer, stores, own, pushes>>

StealRead(x) ==
  /\ At(x, "read")
  /\ loc' = [loc EXCEPT ![x].item = buffer[Slot(loc[x].t)]]
  /\ Goto(x, "cas")
  /\ UNCHANGED <<top, bottom, buffer, stores, own, pushes, answer>>

StealCas(x) ==
  /\ At(x, "cas")
  /\ \/ top = loc[x].t /\ top' = top + 1 /\ Return(x, loc[x].item)
     \/ top # loc[x].t /\ UNCHANGED top /\ Return(x, None)
  /\ Forget(x)
  /\ UNCHANGED <<bottom, buffer, stores, own, pushes>>

\* clear is called when no thread is in a call and every store has reached memory.
Clear ==
  /\ \A x \in {Owner} \cup Thieves : At(x, "idle")
  /\ stores = <<>>
  /\ top' = 0 /\ bottom' = 0 /\ own' = 0
  /\ UNCHANGED <<buffer, stores, pc, loc, pushes, answer>>

Next == \/ PushBack \/ PopReserve \/ PopReload \/ PopCompete \/ Drain \/ Clear
        \/ \E x \in Thieves : StealTop(x) \/ StealBottom(x) \/ StealRead(x) \/ StealCas(x)

Spec == Init /\ [][Next]_vars

-----------------------------------------------------------------------------
(* The deque it implements.                                                *)

MaxOf(a, b) == IF a >= b THEN a ELSE b
\* The item at index i as the owner sees it: the slot once its stores have drained.
ItemAt(i) ==
  LET js == {j \in DOMAIN stores : stores[j].slot = Slot(i)} IN
    IF js = {} THEN buffer[Slot(i)] ELSE stores[CHOOSE j \in js : \A k \in js : k <= j].val
\* Items top_ .. Last - 1 are in the deque: a reserved item still is.
Last == IF At(Owner, "idle") THEN own ELSE own + 1
Content == [n \in 1 .. MaxOf(Last - top, 0) |-> ItemAt(top + n - 1)]

\* Those of them that no thief can see.
Hidden  == MaxOf(Last - MaxOf(bottom, top), 0)
Popping == ~At(Owner, "idle")
Calls   == {x \in Thieves : ~At(x, "idle")}
\* The thieves whose item somebody else took.
Raced   == {x \in Calls : top # loc[x].t}

Abstract == INSTANCE WorkDeque WITH
  deque <- Content, hidden <- Hidden, popping <- Popping, calls <- Calls, raced <- Raced

-----------------------------------------------------------------------------
(* Properties.                                                             *)

TypeOK ==
  /\ {top, bottom, own} \subseteq Nat
  /\ buffer \in [Slots -> Items \cup {Torn, None}]
  /\ stores \in Seq([slot : Slots, val : Items \cup {Torn}] \cup [slot : {None}, val : Nat])
  /\ pc \in [{Owner} \cup Thieves -> {"idle", "reload", "compete", "bottom", "read", "cas"}]
  /\ pc[Owner] \in {"idle", "reload", "compete"}
  /\ \A x \in Thieves : pc[x] \in {"idle", "bottom", "read", "cas"}
  /\ loc \in [Thieves -> [t : Nat, item : Items \cup {Torn, None}]]
  /\ pushes \in 0 .. PushBound
  /\ answer \in [{Owner} \cup Thieves -> Items \cup {None}]

\* spmc_ring implements WorkDeque: whatever owner and thieves do at the same time, no
\* item is lost, taken twice or returned half written, and no call fails without reason.
Implements == Abstract!Spec

\* The difference of the unsigned indices never wraps when push_back computes it, and
\* no more than Capacity items are between them, although bottom_ goes below top_ for a
\* moment when the owner loses the last item.
IndexDistance == At(Owner, "idle") => own - top \in 0 .. Capacity

=============================================================================
