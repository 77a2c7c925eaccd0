------------------------- MODULE MCDynamicFlowGraph -------------------------
(***************************************************************************)
(* Two tasks that run side by side signal the same node, which has no      *)
(* incoming edges and fires on every trigger.                              *)
(***************************************************************************)
EXTENDS DynamicFlowGraph, TLC
CONSTANTS m, v, w, k1, k2, k3, b1, b2, b3

Signal2 == [op |-> "signal", node |-> 2, arg |-> None]
MCNodes == 0 .. 2
MCSignals ==
  (m :> <<[op |-> "add", node |-> 0, arg |-> k1], [op |-> "add", node |-> 1, arg |-> k2],
          [op |-> "add", node |-> 2, arg |-> k3], [op |-> "signal", node |-> 0, arg |-> None],
          [op |-> "signal", node |-> 1, arg |-> None], [op |-> "wait", node |-> None, arg |-> None]>>)
  @@ [k \in {k1, k2} |-> <<Signal2>>] @@ (k3 :> <<>>)
MCScripts == {MCSignals}
=============================================================================
