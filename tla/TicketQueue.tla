----------------------------- MODULE TicketQueue -----------------------------
(***************************************************************************)
(* What concurrent_queue promises: a queue without bound, first in first   *)
(* out in the order in which producers claim their places.  A consumer     *)
(* gets the oldest element once its producer has published it; an element  *)
(* whose constructor threw is skipped; a dequeue fails only if the oldest  *)
(* place, if any, is not published yet.                                    *)
(***************************************************************************)
EXTENDS Integers, Sequences, SequencesExt

CONSTANTS Threads, Items, None, Poison

VARIABLES
  queue,  \* the claimed places, oldest first: the item, and the thread still making it,
          \* or None once it is published, or Poison
  answer  \* answer[x]: the elements the last call of x enqueued, took or saw; None if it failed

vars == <<queue, answer>>

Init == queue = <<>> /\ answer = [x \in Threads |-> None]

Idle(x) == x \notin {p.by : p \in ToSet(queue)}
Returns(x, a) == answer' = [answer EXCEPT ![x] = a]
First(whose)  == LET q == queue IN q # <<>> /\ q[1].by \in whose

Claim(x) == /\ UNCHANGED answer
            /\ Idle(x)
            /\ \E i \in Items : queue' = Append(queue, [item |-> i, by |-> x])

\* The element is there, or its constructor has thrown.
Settle(x) == LET q == queue IN
  \E n \in DOMAIN q :
    /\ q[n].by = x
    /\ \/ Returns(x, <<q[n].item>>) /\ queue' = [q EXCEPT ![n].by = None]
       \/ Returns(x, None) /\ queue' = [q EXCEPT ![n] = [item |-> None, by |-> Poison]]

Take(x) == /\ Idle(x)
           /\ First({None})
           /\ Returns(x, <<Head(queue).item>>)
           /\ queue' = Tail(queue)

Skip(x) == /\ UNCHANGED answer
           /\ Idle(x)
           /\ First({Poison})
           /\ queue' = Tail(queue)

Fail(x) == /\ Returns(x, None)
           /\ Idle(x)
           /\ queue = <<>> \/ First(Threads)
           /\ UNCHANGED queue

\* The elements that are there, in order: for_each.
Published == LET q == queue IN
               FlattenSeq([n \in DOMAIN q |-> IF q[n].by = None THEN <<q[n].item>> ELSE <<>>])
ForEach(x) == /\ Returns(x, Published)
              /\ \A y \in Threads : Idle(y)
              /\ UNCHANGED queue
Clear == /\ UNCHANGED answer
         /\ \A x \in Threads : Idle(x)
         /\ queue' = <<>>

Next == \/ \E x \in Threads : \/ Claim(x) \/ Settle(x) \/ Take(x) \/ Skip(x) \/ Fail(x)
                              \/ ForEach(x)
        \/ Clear

Spec == Init /\ [][Next]_vars
=============================================================================
