------------------------------ MODULE TaskGraph ------------------------------
(***************************************************************************)
(* What a flow graph promises.  While it does not run, nodes, tasks and    *)
(* edges change at will.  In a run every task is executed once, after all  *)
(* tasks of the nodes before its own have returned, also of those that are *)
(* before it only by way of nodes without tasks; the run is over when all  *)
(* of them have returned.                                                  *)
(***************************************************************************)
EXTENDS FiniteSets

CONSTANTS Nodes, Tasks

VARIABLES
  tasks,    \* tasks[n]: the tasks of node n
  edges,    \* pairs of nodes
  running,  \* a run is in progress
  called,   \* the tasks called in this run
  returned  \* and those that have returned

vars == <<tasks, edges, running, called, returned>>

Init == /\ tasks = [n \in Nodes |-> {}]
        /\ edges = {}
        /\ running = FALSE
        /\ called = {} /\ returned = {}

\* The nodes before n.
Before(n) ==
  LET up[S \in SUBSET Nodes] ==
        LET more == S \cup {m \in Nodes : \E s \in S : <<m, s>> \in edges}
        IN IF more = S THEN S ELSE up[more]
      direct == {m \in Nodes : <<m, n>> \in edges}
  IN up[direct]
All == UNION {tasks[n] : n \in Nodes}

Change == /\ ~running
          /\ tasks' \in [Nodes -> SUBSET Tasks]
          /\ edges' \in SUBSET (Nodes \X Nodes)
          /\ UNCHANGED <<running, called, returned>>

Start == /\ ~running
         /\ running' = TRUE
         /\ called' = {} /\ returned' = {}
         /\ UNCHANGED <<tasks, edges>>

Call(n, k) == /\ running
              /\ k \in tasks[n] \ called
              /\ \A m \in Before(n) : tasks[m] \subseteq returned
              /\ called' = called \cup {k}
              /\ UNCHANGED <<tasks, edges, running, returned>>

Return(k) == /\ k \in called \ returned
             /\ returned' = returned \cup {k}
             /\ UNCHANGED <<tasks, edges, running, called>>

Finish == /\ running
          /\ returned = All
          /\ running' = FALSE
          /\ UNCHANGED <<tasks, edges, called, returned>>

Next == \/ Change \/ Start \/ Finish
        \/ \E k \in Tasks : Return(k) \/ \E n \in Nodes : Call(n, k)

Spec == Init /\ [][Next]_vars
=============================================================================
