------------------------------ MODULE WorkDeque ------------------------------
(***************************************************************************)
(* What spmc_ring promises: a bounded deque.  Its owner pushes and pops at *)
(* the new end, thieves steal from the old end.  Every item that is pushed *)
(* comes out once.  Items may stay hidden from the thieves for a while:    *)
(* those whose store has not reached the other processors and the one the  *)
(* owner is about to pop.  A steal fails only if all items were hidden or  *)
(* if another thread took the oldest item during the call.                 *)
(***************************************************************************)
EXTENDS Integers, Sequences

CONSTANTS Thieves, Capacity, Items, None

VARIABLES
  deque,   \* the items, oldest first
  hidden,  \* how many of the newest ones no thief can see
  popping, \* the owner is in a call of pop_back
  calls,   \* the thieves in a call of steal
  raced,   \* those that another thread got ahead of
  answer   \* answer[x]: what the last call of x returned; None if it failed

vars == <<deque, hidden, popping, calls, raced, answer>>

Owner == "owner"

Init == /\ deque = <<>>
        /\ hidden = 0
        /\ popping = FALSE
        /\ calls = {}
        /\ raced = {}
        /\ answer = [x \in {Owner} \cup Thieves |-> None]

Returns(x, a) == answer' = [answer EXCEPT ![x] = a]
TakeOldest == deque' = Tail(deque) /\ raced' = calls

Push(i) == /\ ~popping
           /\ \/ /\ Len(deque) < Capacity
                 /\ deque' = Append(deque, i)
                 /\ hidden' = hidden + 1
                 /\ Returns(Owner, i)
              \/ /\ Len(deque) = Capacity
                 /\ Returns(Owner, None)
                 /\ UNCHANGED <<deque, hidden>>
           /\ UNCHANGED <<popping, calls, raced>>

\* The oldest hidden item becomes visible.
Publish == /\ hidden > 0
           /\ hidden' = hidden - 1
           /\ UNCHANGED <<deque, popping, calls, raced, answer>>

\* The owner enters pop_back unless the deque is empty, and hides the newest item.
PopCall == /\ ~popping
           /\ \/ deque = <<>> /\ Returns(Owner, None) /\ UNCHANGED popping
              \/ deque # <<>> /\ popping' = TRUE /\ UNCHANGED answer
           /\ UNCHANGED <<deque, hidden, calls, raced>>

Hide == /\ popping
        /\ hidden = 0
        /\ deque # <<>>
        /\ hidden' = 1
        /\ UNCHANGED <<deque, popping, calls, raced, answer>>

\* pop_back takes the newest item.  If it is the only one, thieves race for it too.
PopReturn ==
  /\ popping
  /\ popping' = FALSE
  /\ \/ /\ deque # <<>>
        /\ deque' = SubSeq(deque, 1, Len(deque) - 1)
        /\ Returns(Owner, deque[Len(deque)])
        /\ raced' = IF Len(deque) = 1 THEN calls ELSE raced
     \/ /\ deque = <<>>
        /\ Returns(Owner, None)
        /\ UNCHANGED <<deque, raced>>
  /\ hidden' = 0
  /\ UNCHANGED calls

StealCall(x) == /\ x \notin calls
                /\ calls' = calls \cup {x}
                /\ UNCHANGED <<deque, hidden, popping, raced, answer>>

StealReturn(x) ==
  /\ x \in calls
  /\ calls' = calls \ {x}
  /\ \/ /\ deque # <<>>
        /\ x \notin raced
        /\ Returns(x, deque[1])
        /\ deque' = Tail(deque)
        /\ hidden' = IF hidden = Len(deque) THEN hidden - 1 ELSE hidden
        /\ raced' = calls \ {x}
     \/ /\ x \in raced \/ hidden = Len(deque)
        /\ Returns(x, None)
        /\ raced' = raced \ {x}
        /\ UNCHANGED <<deque, hidden>>
  /\ UNCHANGED popping

Clear == /\ ~popping /\ calls = {}
         /\ deque' = <<>>
         /\ hidden' = 0
         /\ UNCHANGED <<popping, calls, raced, answer>>

Next == \/ \E i \in Items : Push(i)
        \/ Publish \/ PopCall \/ Hide \/ PopReturn \/ Clear
        \/ \E x \in Thieves : StealCall(x) \/ StealReturn(x)

Spec == Init /\ [][Next]_vars
=============================================================================
