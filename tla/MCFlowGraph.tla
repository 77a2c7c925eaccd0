---------------------------- MODULE MCFlowGraph ----------------------------
(***************************************************************************)
(* A graph with room for two nodes: it grows after a task has been added.  *)
(***************************************************************************)
EXTENDS FlowGraph, TLC
CONSTANTS m, v, k1, k2

Graph(o) == [op |-> o, node |-> None, arg |-> None]
MCNodes == 0 .. 2
MCGrow ==
  <<Graph("create"), [op |-> "add", node |-> 0, arg |-> k1], Graph("create"), Graph("create"),
    [op |-> "add", node |-> 2, arg |-> k2], Graph("start"), Graph("wait")>>
MCScripts == {MCGrow}
=============================================================================
