------------------------------- MODULE MpmcRing -------------------------------
(***************************************************************************)
(* ouly::detail::mpmc_ring: the bounded queue behind the mailboxes.        *)
(*                                                                         *)
(* Every access to head_, tail_, a sequence_ or a slot is a step.  Memory  *)
(* is sequentially consistent: a slot is written and read only between an  *)
(* acquire load and a release store of its sequence.  The weak             *)
(* compare-exchange may fail for no reason.  push and emplace are the same *)
(* here.  The indices do not wrap within the bound on the pushes.          *)
(***************************************************************************)
EXTENDS Integers, Sequences

CONSTANTS
  Threads,
  Capacity,   \* capacity_pow2
  PushBound,  \* bound: how many pushes are called; the n-th one pushes n
  None

\* With one slot, pos + 1 and pos + capacity_pow2 are the same sequence and a full slot
\* looks free: the ring needs two.
ASSUME RingAssumption ==
  /\ Capacity \in Nat \ {0, 1}
  /\ PushBound \in Nat
  /\ None \notin 1 .. PushBound
  /\ None \notin Threads

Items == 1 .. PushBound
Slots == 0 .. (Capacity - 1)
Slot(i) == i % Capacity

VARIABLES
  head, tail, sequence, storage,
  pc,      \* where each thread is
  pos,     \* its local pos
  item,    \* the item it pushes or has taken
  pushes,  \* how many pushes were called so far
  answer   \* answer[x]: the item that the last call of x pushed or took; None if it failed

ring == <<head, tail, sequence, storage>>
vars == <<head, tail, sequence, storage, pc, pos, item, pushes, answer>>

Init == /\ head = 0
        /\ tail = 0
        /\ sequence = [s \in Slots |-> s]
        /\ storage = [s \in Slots |-> None]
        /\ pc = [x \in Threads |-> "idle"]
        /\ pos = [x \in Threads |-> 0]
        /\ item = [x \in Threads |-> None]
        /\ pushes = 0
        /\ answer = [x \in Threads |-> None]

At(x, l)   == pc[x] = l
Goto(x, l) == pc' = [pc EXCEPT ![x] = l]
Load(x, i) == pos' = [pos EXCEPT ![x] = i]
Return(x, a) == /\ Goto(x, "idle")
                /\ answer' = [answer EXCEPT ![x] = a]
                /\ Load(x, 0)
                /\ item' = [item EXCEPT ![x] = None]
SeqAt(x) == sequence[Slot(pos[x])]
SetSeq(x, n) == sequence' = [sequence EXCEPT ![Slot(pos[x])] = n]
Store(x) == storage' = [storage EXCEPT ![Slot(pos[x])] = item[x]]

PushCall(x) ==
  /\ At(x, "idle")
  /\ pushes < PushBound
  /\ pushes' = pushes + 1
  /\ item' = [item EXCEPT ![x] = pushes']
  /\ Load(x, head)
  /\ Goto(x, "push_look")
  /\ UNCHANGED <<ring, answer>>

PushLook(x) ==
  /\ At(x, "push_look")
  /\ \/ SeqAt(x) = pos[x] /\ Goto(x, "push_cas") /\ UNCHANGED <<pos, item, answer>>
     \/ SeqAt(x) < pos[x] /\ Return(x, None)
     \/ SeqAt(x) > pos[x] /\ Goto(x, "push_load") /\ UNCHANGED <<pos, item, answer>>
  /\ UNCHANGED <<ring, pushes>>

PushLoad(x) ==
  /\ At(x, "push_load")
  /\ Load(x, head)
  /\ Goto(x, "push_look")
  /\ UNCHANGED <<ring, item, pushes, answer>>

\* The compare-exchange: claim the slot, or look again at the head it found.
PushCas(x) ==
  /\ At(x, "push_cas")
  /\ \/ head = pos[x] /\ head' = head + 1 /\ Goto(x, "push_store") /\ UNCHANGED pos
     \/ Load(x, head) /\ Goto(x, "push_look") /\ UNCHANGED head
  /\ UNCHANGED <<tail, sequence, storage, item, pushes, answer>>

PushStore(x) ==
  /\ At(x, "push_store")
  /\ Store(x)
  /\ Goto(x, "push_publish")
  /\ UNCHANGED <<head, tail, sequence, pos, item, pushes, answer>>

PushPublish(x) ==
  /\ At(x, "push_publish")
  /\ SetSeq(x, pos[x] + 1)
  /\ Return(x, item[x])
  /\ UNCHANGED <<head, tail, storage, pushes>>

PopCall(x) ==
  /\ At(x, "idle")
  /\ Load(x, tail)
  /\ Goto(x, "pop_look")
  /\ UNCHANGED <<ring, item, pushes, answer>>

\* The slot at pos can be taken if its sequence is pos + 1.
PopLook(x) ==
  /\ At(x, "pop_look")
  /\ \/ SeqAt(x) = pos[x] + 1 /\ Goto(x, "pop_cas") /\ UNCHANGED <<pos, item, answer>>
     \/ SeqAt(x) < pos[x] + 1 /\ Return(x, None)
     \/ SeqAt(x) > pos[x] + 1 /\ Goto(x, "pop_load") /\ UNCHANGED <<pos, item, answer>>
  /\ UNCHANGED <<ring, pushes>>

PopLoad(x) ==
  /\ At(x, "pop_load")
  /\ Load(x, tail)
  /\ Goto(x, "pop_look")
  /\ UNCHANGED <<ring, item, pushes, answer>>

\* Mutant: the tail is stored without comparing it.
PopStoreTail(x) ==
  /\ At(x, "pop_cas")
  /\ tail' = pos[x] + 1 /\ Goto(x, "pop_read") /\ UNCHANGED pos
  /\ UNCHANGED <<head, sequence, storage, item, pushes, answer>>

PopCas(x) ==
  /\ At(x, "pop_cas")
  /\ \/ tail = pos[x] /\ tail' = tail + 1 /\ Goto(x, "pop_read") /\ UNCHANGED pos
     \/ Load(x, tail) /\ Goto(x, "pop_look") /\ UNCHANGED tail
  /\ UNCHANGED <<head, sequence, storage, item, pushes, answer>>

PopRead(x) ==
  /\ At(x, "pop_read")
  /\ item' = [item EXCEPT ![x] = storage[Slot(pos[x])]]
  /\ Goto(x, "pop_free")
  /\ UNCHANGED <<ring, pos, pushes, answer>>

\* Mutant: the sequence is advanced by the mask, so the slot stays full.
PopFreeMask(x) ==
  /\ At(x, "pop_free")
  /\ SetSeq(x, pos[x] + Capacity - 1)
  /\ Return(x, item[x])
  /\ UNCHANGED <<head, tail, storage, pushes>>

\* The slot is free for the push one round later.
PopFree(x) ==
  /\ At(x, "pop_free")
  /\ SetSeq(x, pos[x] + Capacity)
  /\ Return(x, item[x])
  /\ UNCHANGED <<head, tail, storage, pushes>>

\* clear is called when no thread is in a call.
Clear ==
  /\ \A x \in Threads : At(x, "idle")
  /\ sequence' = [s \in Slots |-> s]
  /\ head' = 0 /\ tail' = 0
  /\ UNCHANGED <<storage, pc, pos, item, pushes, answer>>

Next == \/ \E x \in Threads :
             \/ PushCall(x) \/ PushLook(x) \/ PushLoad(x) \/ PushCas(x) \/ PushStore(x)
             \/ PushPublish(x)
             \/ PopCall(x) \/ PopLook(x) \/ PopLoad(x) \/ PopCas(x) \/ PopRead(x) \/ PopFree(x)
        \/ Clear

Spec == Init /\ [][Next]_vars

-----------------------------------------------------------------------------
(* The queue it implements.                                                *)

PushPlaces == {"push_look", "push_load", "push_cas", "push_store", "push_publish"}
PopPlaces  == {"pop_look", "pop_load", "pop_cas", "pop_read", "pop_free"}
Claiming(x) == pc[x] \in {"push_store", "push_publish"}
Freeing(x)  == pc[x] \in {"pop_read", "pop_free"}
Entry(i) ==
  LET xs == {x \in Threads : Claiming(x) /\ pos[x] = i} IN
    IF xs = {} THEN [item |-> storage[Slot(i)], by |-> None]
               ELSE [item |-> item[CHOOSE x \in xs : TRUE], by |-> CHOOSE x \in xs : TRUE]
\* A pop answers when it has freed its slot; what it will answer is known from the claim.
Answer(x) == CASE At(x, "pop_read") -> storage[Slot(pos[x])]
               [] At(x, "pop_free") -> item[x]
               [] OTHER -> answer[x]

\* A push keeps its item, a pop is called without one.
Call(x) ==
  CASE At(x, "idle") -> [op |-> "none", item |-> None]
    [] pc[x] \in PushPlaces -> [op |-> "push", item |-> item[x]]
    [] OTHER -> [op |-> "pop", item |-> None]

Calls   == [x \in Threads |-> Call(x)]
Queue   == [n \in 1 .. (head - tail) |-> Entry(tail + n - 1)]
Leaving == {<<x, pos[x]>> : x \in {y \in Threads : Freeing(y)}}
Answers == [x \in Threads |-> Answer(x)]

Abstract == INSTANCE WorkQueue WITH
  call <- Calls, queue <- Queue, claimed <- head, leaving <- Leaving, answer <- Answers

-----------------------------------------------------------------------------
(* Properties.                                                             *)

TypeOK ==
  /\ {head, tail} \subseteq Nat
  /\ sequence \in [Slots -> Nat]
  /\ storage \in [Slots -> Items \cup {None}]
  /\ pc \in [Threads -> {"idle"} \cup PushPlaces \cup PopPlaces]
  /\ pos \in [Threads -> Nat]
  /\ item \in [Threads -> Items \cup {None}]
  /\ pushes \in 0 .. PushBound
  /\ answer \in [Threads -> Items \cup {None}]

\* mpmc_ring implements WorkQueue: items come out once, in the order of their claims, and
\* a call fails only because the queue is full or empty up to the calls in progress.
Implements == Abstract!Spec

\* A slot belongs to one thread at a time between its claim and the store of its sequence:
\* no slot is written while another thread writes or reads it.
Exclusive ==
  \A x, y \in Threads :
    x # y /\ (Claiming(x) \/ Freeing(x)) /\ (Claiming(y) \/ Freeing(y))
      => Slot(pos[x]) # Slot(pos[y])

\* The positions never run away from each other: at most Capacity claimed places.
HeadTail == head - tail \in 0 .. Capacity
=============================================================================
