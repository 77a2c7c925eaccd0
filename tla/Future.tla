------------------------------- MODULE Future -------------------------------
(***************************************************************************)
(* What ouly's value tasks promise.  A task settles once: without an       *)
(* exception, or with the exception of the function that threw it.  The    *)
(* function given to then runs once, after the task it continues has       *)
(* settled without an exception; otherwise it does not run and the         *)
(* exception is passed on.  when_all settles when all its tasks have, with *)
(* the exception of one of those that failed, if any.                      *)
(***************************************************************************)
EXTENDS Naturals, Sequences

CONSTANTS Tasks, Kind, Pred, Throws, MayFail, None, Pending, AllocError

VARIABLES
  outcome,  \* Pending, None, or the task whose function threw the exception
  runs      \* how often the function of a task was called

vars == <<outcome, runs>>

Init == outcome = [k \in Tasks |-> Pending] /\ runs = [k \in Tasks |-> 0]

PredsOf(k)  == {Pred[k][i] : i \in DOMAIN Pred[k]}
Settled(k)  == outcome[k] # Pending
Failed(k)   == Settled(k) /\ outcome[k] # None
Failures(k) == {outcome[p] : p \in {q \in PredsOf(k) : Failed(q)}}

Call(k) == /\ Kind[k] # "all"
           /\ runs[k] = 0 /\ ~Settled(k)
           /\ \A p \in PredsOf(k) : outcome[p] = None
           /\ runs' = [runs EXCEPT ![k] = 1]
           /\ UNCHANGED outcome

Settle(k, o) == ~Settled(k) /\ outcome' = [outcome EXCEPT ![k] = o] /\ UNCHANGED runs

Return(k) == runs[k] = 1 /\ Settle(k, IF k \in Throws THEN k ELSE None)

PassOn(k) == /\ Kind[k] = "then"
             /\ runs[k] = 0
             /\ \E x \in Failures(k) : Settle(k, x)

Gather(k) == /\ Kind[k] = "all"
             /\ \A p \in PredsOf(k) : Settled(p)
             /\ \/ Failures(k) = {} /\ Settle(k, None)
                \/ \E x \in Failures(k) : Settle(k, x)

\* A when_all that could not allocate all its nodes need not wait for every task.
GiveUp(k) == k \in MayFail /\ \E x \in Failures(k) \cup {AllocError} : Settle(k, x)

Next == \E k \in Tasks : Call(k) \/ Return(k) \/ PassOn(k) \/ Gather(k) \/ GiveUp(k)

Spec == Init /\ [][Next]_vars
=============================================================================
