--------------------------- MODULE ConcurrentQueue ---------------------------
(***************************************************************************)
(* ouly::concurrent_queue: a chain of buckets, each with a cursor of the   *)
(* producers, a cursor of the consumers and a commit flag for every slot.  *)
(*                                                                         *)
(* Under the shared lock every access to a cursor, a flag or an element is *)
(* a step; an exclusive section is one step, with nobody in the lock.      *)
(* Memory is sequentially consistent: elements are published with a        *)
(* release store of their flag and the chain changes under the exclusive   *)
(* lock only.  A freed bucket goes back to the pool, which may give it out *)
(* again.  Cursors do not wrap within the bound on the calls of emplace.   *)
(***************************************************************************)
EXTENDS Integers, Sequences, SequencesExt

CONSTANTS
  Threads,
  Buckets,      \* the memory of bucket_pool_
  PoolSize,     \* slots of a bucket
  EmplaceBound, \* bound: how many elements are emplaced; the n-th one is n
  Throws,       \* the elements whose constructor throws
  None, Poison

QueueAssumption ==
  /\ PoolSize \in Nat \ {0}
  /\ EmplaceBound \in Nat
  /\ Throws \subseteq 1 .. EmplaceBound
  /\ None \notin Threads \cup Buckets /\ Poison \notin Threads \cup {None}

Items == 1 .. EmplaceBound
Slots == 0 .. (PoolSize - 1)

VARIABLES
  fast,      \* single_threaded_consumer_for_each
  head, tail,
  live,      \* the buckets that are allocated
  enqueuePos, dequeuePos, next, committed, data,  \* of each bucket
  shared,    \* who holds bucket_mutex_ shared
  pc, reg,   \* where a thread is; its bucket, position, flag and element
  emplaced,  \* how many elements were emplaced so far
  answer     \* answer[x]: the elements the last call of x enqueued, took or saw; None if it failed

chain == <<head, tail, live, next>>
vars == <<fast, head, tail, live, enqueuePos, dequeuePos, next, committed, data, shared, pc, reg,
          emplaced, answer>>

NoReg == [bucket |-> None, pos |-> 0, state |-> "empty", item |-> None]

Init ==
  /\ fast \in BOOLEAN
  /\ \E b \in Buckets : head = b /\ tail = b /\ live = {b}
  /\ enqueuePos = [b \in Buckets |-> 0]
  /\ dequeuePos = [b \in Buckets |-> 0]
  /\ next = [b \in Buckets |-> None]
  /\ committed = [b \in Buckets |-> [s \in Slots |-> "empty"]]
  /\ data = [b \in Buckets |-> [s \in Slots |-> None]]
  /\ shared = {}
  /\ pc = [x \in Threads |-> "idle"]
  /\ reg = [x \in Threads |-> NoReg]
  /\ emplaced = 0
  /\ answer = [x \in Threads |-> None]

At(x, l)   == pc[x] = l
Goto(x, l) == pc' = [pc EXCEPT ![x] = l]
Lock(x)    == shared' = shared \cup {x}
Unlock(x)  == shared' = shared \ {x}
Exclusive  == shared = {}
Return(x, a) == /\ Goto(x, "idle")
                /\ answer' = [answer EXCEPT ![x] = a]
                /\ reg' = [reg EXCEPT ![x] = NoReg]
Min2(a, b) == IF a < b THEN a ELSE b
Claimed(b) == Min2(enqueuePos[b], PoolSize)

-----------------------------------------------------------------------------
(* Producers.                                                              *)

\* The lock is taken shared and a slot of the tail bucket is claimed; the tail cannot change
\* meanwhile.  A claim beyond the last slot is not undone.
ClaimSlot(x, i) ==
  /\ enqueuePos' = [enqueuePos EXCEPT ![tail] = @ + 1]
  /\ reg' = [reg EXCEPT ![x] = [@ EXCEPT !.bucket = tail, !.pos = enqueuePos[tail], !.item = i]]
  /\ IF enqueuePos[tail] < PoolSize
       THEN Goto(x, "construct") /\ Lock(x)
       ELSE Goto(x, "grow") /\ UNCHANGED shared
  /\ UNCHANGED <<fast, chain, dequeuePos, committed, data, answer>>

Emplace(x) ==
  /\ At(x, "idle")
  /\ emplaced < EmplaceBound
  /\ emplaced' = emplaced + 1
  /\ ClaimSlot(x, emplaced + 1)

Again(x) ==
  /\ At(x, "emplace")
  /\ ClaimSlot(x, reg[x].item)
  /\ UNCHANGED emplaced

Construct(x) ==
  /\ At(x, "construct")
  /\ IF reg[x].item \in Throws
       THEN UNCHANGED data
       ELSE data' = [data EXCEPT ![reg[x].bucket][reg[x].pos] = reg[x].item]
  /\ Goto(x, "publish")
  /\ UNCHANGED <<fast, chain, enqueuePos, dequeuePos, committed, shared, reg, emplaced, answer>>

Publish(x) ==
  /\ At(x, "publish")
  /\ LET threw == reg[x].item \in Throws IN
       /\ committed' = [committed EXCEPT ![reg[x].bucket][reg[x].pos] =
                          IF threw THEN "poisoned" ELSE "ready"]
       /\ Return(x, IF threw THEN None ELSE <<reg[x].item>>)
  /\ Unlock(x)
  /\ UNCHANGED <<fast, chain, enqueuePos, dequeuePos, data, emplaced>>

\* The constructor of a bucket.
Fresh(b) ==
  /\ live' = live \cup {b}
  /\ enqueuePos' = [enqueuePos EXCEPT ![b] = 0]
  /\ dequeuePos' = [dequeuePos EXCEPT ![b] = 0]
  /\ next' = [next EXCEPT ![tail] = b, ![b] = None]
  /\ committed' = [committed EXCEPT ![b] = [s \in Slots |-> "empty"]]
  /\ tail' = b

\* The tail bucket is full: a new one is linked behind it, unless another producer did that.
GrowTail(x) ==
  /\ At(x, "grow")
  /\ Exclusive
  /\ Goto(x, "emplace")
  /\ \/ /\ enqueuePos[tail] < PoolSize
        /\ UNCHANGED <<chain, enqueuePos, dequeuePos, committed>>
     \/ /\ enqueuePos[tail] >= PoolSize /\ next[tail] # None
        /\ tail' = next[tail]
        /\ UNCHANGED <<head, live, next, enqueuePos, dequeuePos, committed>>
     \/ /\ enqueuePos[tail] >= PoolSize /\ next[tail] = None
        /\ \E b \in Buckets \ live : Fresh(b)
        /\ UNCHANGED head
  /\ UNCHANGED <<fast, data, shared, reg, emplaced, answer>>

-----------------------------------------------------------------------------
(* Consumers.                                                              *)

\* The lock is taken shared; the head cannot change meanwhile.
TryDequeue(x) ==
  /\ At(x, "dequeue") \/ (At(x, "idle") /\ ~fast)
  /\ Lock(x)
  /\ reg' = [reg EXCEPT ![x].bucket = head, ![x].pos = dequeuePos[head]]
  /\ Goto(x, "look")
  /\ UNCHANGED <<fast, chain, enqueuePos, dequeuePos, committed, data, emplaced, answer>>

\* The bucket is consumed, or the flag of the next slot says how to go on.
Look(x) ==
  /\ At(x, "look")
  /\ LET b == reg[x].bucket
         p == reg[x].pos
     IN \/ /\ p >= PoolSize /\ next[b] # None
           /\ Unlock(x) /\ Goto(x, "retire")
           /\ UNCHANGED <<reg, answer>>
        \/ /\ \/ p >= PoolSize /\ next[b] = None
              \/ p < PoolSize /\ committed[b][p] = "empty"
           /\ Unlock(x) /\ Return(x, None)
        \/ /\ p < PoolSize /\ committed[b][p] # "empty"
           /\ reg' = [reg EXCEPT ![x].state = committed[b][p]]
           /\ Goto(x, "cas")
           /\ UNCHANGED <<shared, answer>>
  /\ UNCHANGED <<fast, chain, enqueuePos, dequeuePos, committed, data, emplaced>>

\* Mutant of Cas: the cursor is stored without comparing.
CasBlind(x) ==
  /\ At(x, "cas")
  /\ LET b == reg[x].bucket
         p == reg[x].pos
     IN /\ dequeuePos' = [dequeuePos EXCEPT ![b] = p + 1]
        /\ IF reg[x].state = "ready"
             THEN Goto(x, "move") /\ UNCHANGED reg
             ELSE Goto(x, "look") /\ reg' = [reg EXCEPT ![x].pos = p + 1]
  /\ UNCHANGED <<fast, chain, enqueuePos, committed, data, shared, emplaced, answer>>

\* A weak compare-exchange, which may fail for no reason.
Cas(x) ==
  /\ At(x, "cas")
  /\ LET b == reg[x].bucket
         p == reg[x].pos
     IN \/ /\ reg' = [reg EXCEPT ![x].pos = dequeuePos[b]]
           /\ Goto(x, "look")
           /\ UNCHANGED dequeuePos
        \/ /\ dequeuePos[b] = p
           /\ dequeuePos' = [dequeuePos EXCEPT ![b] = p + 1]
           /\ IF reg[x].state = "ready"
                THEN Goto(x, "move") /\ UNCHANGED reg
                ELSE Goto(x, "look") /\ reg' = [reg EXCEPT ![x].pos = p + 1]
  /\ UNCHANGED <<fast, chain, enqueuePos, committed, data, shared, emplaced, answer>>

\* The element is moved out and destroyed.
Move(x) ==
  /\ At(x, "move")
  /\ Return(x, <<data[reg[x].bucket][reg[x].pos]>>)
  /\ data' = [data EXCEPT ![reg[x].bucket][reg[x].pos] = None]
  /\ Unlock(x)
  /\ UNCHANGED <<fast, chain, enqueuePos, dequeuePos, committed, emplaced>>

\* Mutant of RetireHead: under the shared lock.
RetireHeadShared(x) ==
  /\ At(x, "retire")
  /\ Goto(x, "dequeue")
  /\ IF dequeuePos[head] < PoolSize \/ next[head] = None
       THEN UNCHANGED chain
       ELSE /\ head' = next[head]
            /\ live' = live \ {head}
            /\ UNCHANGED <<tail, next>>
  /\ UNCHANGED <<fast, enqueuePos, dequeuePos, committed, data, shared, reg, emplaced, answer>>

\* The head bucket is freed, unless another consumer did that.
RetireHead(x) ==
  /\ At(x, "retire")
  /\ Exclusive
  /\ Goto(x, "dequeue")
  /\ IF dequeuePos[head] < PoolSize \/ next[head] = None
       THEN UNCHANGED chain
       ELSE /\ head' = next[head]
            /\ live' = live \ {head}
            /\ UNCHANGED <<tail, next>>
  /\ UNCHANGED <<fast, enqueuePos, dequeuePos, committed, data, shared, reg, emplaced, answer>>

-----------------------------------------------------------------------------
(* The calls of the fast variant, which the client makes while no other    *)
(* thread uses the queue.                                                  *)

AllIdle == \A x \in Threads : At(x, "idle")

\* The buckets from h on, of those in bs, which nx links.
Path(h, bs, nx) ==
  LET from[b \in bs] == <<b>> \o (IF nx[b] = None THEN <<>> ELSE from[nx[b]])
  IN from[h]
Chain == Path(head, live, next)

\* What the claimed slots of b hold that no consumer has claimed, and those of all buckets.
InBucket(content, b) == [i \in 1 .. (Claimed(b) - dequeuePos[b]) |-> content[b][dequeuePos[b] + i - 1]]
InChain(content) == LET c == Chain IN FlattenSeq([n \in DOMAIN c |-> InBucket(content, c[n])])

ForEach(x) ==
  /\ fast /\ AllIdle
  /\ LET Seen == [b \in Buckets |-> [p \in Slots |->
                    IF committed[b][p] = "ready" THEN <<data[b][p]>> ELSE <<>>]]
     IN Return(x, FlattenSeq(InChain(Seen)))
  /\ UNCHANGED <<fast, chain, enqueuePos, dequeuePos, committed, data, shared, emplaced>>

\* Mutant of Clear: the elements are forgotten.
ClearOnly ==
  /\ fast /\ AllIdle
  /\ live' = {head}
  /\ committed' = [committed EXCEPT ![head] = [s \in Slots |->
                     IF s < Claimed(head) THEN "empty" ELSE committed[head][s]]]
  /\ enqueuePos' = [enqueuePos EXCEPT ![head] = 0]
  /\ dequeuePos' = [dequeuePos EXCEPT ![head] = 0]
  /\ next' = [next EXCEPT ![head] = None]
  /\ tail' = head
  /\ UNCHANGED <<fast, head, data, shared, pc, reg, emplaced, answer>>

\* All elements are destroyed, all buckets but the first are freed, and that one is as new.
Clear ==
  /\ fast /\ AllIdle
  /\ data' = [b \in Buckets |-> [s \in Slots |->
                IF /\ b \in live
                   /\ dequeuePos[b] <= s /\ s < Claimed(b) /\ committed[b][s] = "ready"
                  THEN None ELSE data[b][s]]]
  /\ live' = {head}
  /\ committed' = [committed EXCEPT ![head] = [s \in Slots |->
                     IF s < Claimed(head) THEN "empty" ELSE committed[head][s]]]
  /\ enqueuePos' = [enqueuePos EXCEPT ![head] = 0]
  /\ dequeuePos' = [dequeuePos EXCEPT ![head] = 0]
  /\ next' = [next EXCEPT ![head] = None]
  /\ tail' = head
  /\ UNCHANGED <<fast, head, shared, pc, reg, emplaced, answer>>

-----------------------------------------------------------------------------

Step(x) == \/ Emplace(x) \/ Again(x) \/ Construct(x) \/ Publish(x) \/ GrowTail(x)
           \/ TryDequeue(x) \/ Look(x) \/ Cas(x) \/ Move(x) \/ RetireHead(x)
           \/ ForEach(x)

Next == (\E x \in Threads : Step(x)) \/ Clear

Spec == Init /\ [][Next]_vars

-----------------------------------------------------------------------------
(* Properties.                                                             *)

\* Every variable has its type; consumers never overtake producers.
TypeOK ==
  /\ fast \in BOOLEAN
  /\ head \in live /\ tail \in live /\ live \subseteq Buckets
  /\ enqueuePos \in [Buckets -> Nat] /\ dequeuePos \in [Buckets -> Nat]
  /\ next \in [Buckets -> Buckets \cup {None}]
  /\ \A b \in live : /\ next[b] \in live \cup {None}
                     /\ dequeuePos[b] <= Claimed(b)
  /\ shared \subseteq Threads
  /\ pc \in [Threads -> {"idle", "construct", "publish", "grow", "emplace", "look", "cas", "move",
                         "retire", "dequeue"}]
  /\ reg \in [Threads -> [bucket : Buckets \cup {None}, pos : Nat,
                          state : {"empty", "ready", "poisoned"}, item : Items \cup {None}]]
  /\ answer \in [Threads -> Seq(Items) \cup {None}]
  /\ committed \in [Buckets -> [Slots -> {"empty", "ready", "poisoned"}]]
  /\ data \in [Buckets -> [Slots -> Items \cup {None}]]
  /\ emplaced \in 0 .. EmplaceBound

\* Reclamation without hazard pointers: whoever is inside the shared lock has a bucket that is
\* allocated and no new one was made of, and the tail stays reachable from the head.
NoDangling ==
  /\ \A x \in Threads : pc[x] \in {"construct", "publish", "look", "cas", "move"} =>
       x \in shared /\ reg[x].bucket \in live
  /\ tail \in ToSet(Chain)
  /\ next[tail] = None

\* An element is destroyed before its bucket is freed: a bucket that goes back to the pool
\* takes no element with it.
NoneLeft == \A b \in Buckets \ live : \A s \in Slots : data[b][s] = None

\* The queue is a TicketQueue of the claimed slots that no consumer has claimed.  An element
\* that is being moved out has been taken.
Place(b, p) ==
  LET making == {y \in Threads : /\ pc[y] \in {"construct", "publish"}
                                 /\ reg[y].bucket = b /\ reg[y].pos = p}
      x == CHOOSE y \in making : TRUE
  IN IF making # {} THEN [item |-> reg[x].item, by |-> x]
     ELSE IF committed[b][p] = "poisoned" THEN [item |-> None, by |-> Poison]
     ELSE [item |-> data[b][p], by |-> None]
Places  == InChain([b \in Buckets |-> [p \in Slots |-> Place(b, p)]])
Answers == [x \in Threads |-> IF At(x, "move") THEN <<data[reg[x].bucket][reg[x].pos]>>
                             ELSE answer[x]]
Ticket == INSTANCE TicketQueue WITH queue <- Places, answer <- Answers
Implements == Ticket!Spec
=============================================================================
