------------------------------ MODULE WorkQueue ------------------------------
(***************************************************************************)
(* What mpmc_ring promises: a bounded queue, first in first out in the     *)
(* order in which pushes claim their places.  An item can be taken once    *)
(* its push has published it.  Places are freed in any order, but used     *)
(* again in the order in which they were claimed: a push fails only if the *)
(* place claimed Capacity claims before is in use, by an item or by a pop  *)
(* that has not freed it.  A pop fails only if the oldest item, if any, is *)
(* not published.                                                          *)
(***************************************************************************)
EXTENDS Integers, Sequences

CONSTANTS Threads, Capacity, Items, None

VARIABLES
  call,     \* what each thread is doing: nothing, a push of an item or a pop
  queue,    \* the claimed places, oldest first: the item and the thread still pushing it
  claimed,  \* how many places were claimed so far
  leaving,  \* the pops that have not freed their place: the thread and the place
  answer    \* answer[x]: the item that the last call of x pushed or took; None if it failed

vars == <<call, queue, claimed, leaving, answer>>

Idle    == [op |-> "none", item |-> None]
Pop     == [op |-> "pop", item |-> None]
Push(i) == [op |-> "push", item |-> i]

Init == /\ call = [x \in Threads |-> Idle]
        /\ queue = <<>>
        /\ claimed = 0
        /\ leaving = {}
        /\ answer = [x \in Threads |-> None]

Pushing(x) == \E n \in DOMAIN queue : queue[n].by = x
Popping(x) == \E p \in leaving : p[1] = x
\* The place that the next claim uses again is not free.
InUse == \/ Len(queue) = Capacity
         \/ \E p \in leaving : p[2] = claimed - Capacity

Calls(x, c) == call' = [call EXCEPT ![x] = c]
Answers(x, a) == answer' = [answer EXCEPT ![x] = a]

Begin(x, c) == /\ call[x] = Idle
               /\ Calls(x, c)
               /\ UNCHANGED <<queue, claimed, leaving, answer>>

Claim(x, i) == /\ call[x] = Push(i)
               /\ ~Pushing(x)
               /\ ~InUse
               /\ queue' = Append(queue, [item |-> i, by |-> x])
               /\ claimed' = claimed + 1
               /\ UNCHANGED <<call, leaving, answer>>

Publish(x) == /\ \E n \in DOMAIN queue :
                   /\ queue[n].by = x
                   /\ queue' = [queue EXCEPT ![n].by = None]
                   /\ Answers(x, queue[n].item)
              /\ Calls(x, Idle)
              /\ UNCHANGED <<claimed, leaving>>

Refuse(x) == /\ \E i \in Items : call[x] = Push(i)
             /\ ~Pushing(x)
             /\ InUse
             /\ Calls(x, Idle)
             /\ Answers(x, None)
             /\ UNCHANGED <<queue, claimed, leaving>>

Take(x) == /\ call[x] = Pop
           /\ ~Popping(x)
           /\ queue # <<>>
           /\ queue[1].by = None
           /\ queue' = Tail(queue)
           /\ leaving' = leaving \cup {<<x, claimed - Len(queue)>>}
           /\ Answers(x, queue[1].item)
           /\ UNCHANGED <<call, claimed>>

Release(x) == /\ \E p \in leaving : p[1] = x /\ leaving' = leaving \ {p}
              /\ Calls(x, Idle)
              /\ UNCHANGED <<queue, claimed, answer>>

Fail(x) == /\ call[x] = Pop
           /\ ~Popping(x)
           /\ queue = <<>> \/ queue[1].by # None
           /\ Calls(x, Idle)
           /\ Answers(x, None)
           /\ UNCHANGED <<queue, claimed, leaving>>

\* The queue is emptied when nobody is in a call.
Clear == /\ \A x \in Threads : call[x] = Idle
         /\ queue' = <<>>
         /\ claimed' = 0
         /\ UNCHANGED <<call, leaving, answer>>

Next == \/ \E x \in Threads : \/ Begin(x, Pop) \/ Take(x) \/ Release(x) \/ Fail(x)
                              \/ \E i \in Items : Begin(x, Push(i)) \/ Claim(x, i)
                              \/ Publish(x) \/ Refuse(x)
        \/ Clear

Spec == Init /\ [][Next]_vars
=============================================================================
