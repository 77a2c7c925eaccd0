-------------------------- MODULE DynamicFlowGraph --------------------------
(***************************************************************************)
(* ouly::dynamic_flow_graph: a graph that fires a node each time it has    *)
(* got as many triggers as it has incoming edges, is changed while it runs *)
(* and drained after request_stop.                                         *)
(*                                                                         *)
(* Main and the tasks execute scripts of calls.  Main waits cooperatively: *)
(* it executes the firings of main-thread nodes and queued lambdas; the    *)
(* other threads execute lambdas.  A frame of a stack is a call in         *)
(* progress; a step is one access to an atomic or one locked region.       *)
(*                                                                         *)
(* The load of the threshold and the fetch_add after it are one step: the  *)
(* documentation excludes a connect to a node that is being triggered.     *)
(***************************************************************************)
EXTENDS Integers, Sequences, FiniteSets, SequencesExt, FiniteSetsExt

CONSTANTS
  Threads,
  Main,
  Nodes,
  MainNodes,  \* made with create_main_thread_node
  Tasks,
  Batches,    \* the fire_batch objects there may be
  Scripts,    \* the calls of Main and of each task, in different programs
  Frames,     \* a task that requests the stop does so when its node fires for this time
  QueueCap,
  None

Op == [op : {"stop", "wait"}, node : {None}, arg : {None}]
        \cup [op : {"add", "remove"}, node : Nodes, arg : Tasks]
        \cup [op : {"connect"}, node : Nodes, arg : Nodes]
        \cup [op : {"signal"}, node : Nodes, arg : {None}]
DynamicGraphAssumption ==
  /\ Main \in Threads /\ MainNodes \subseteq Nodes
  /\ Scripts \subseteq [Tasks \cup {Main} -> Seq(Op)]
  /\ QueueCap \in Nat \ {0} /\ Frames \in Nat

VARIABLES
  script,
  tasks,     \* tasks_ of each node, with None for a removed one
  degree,    \* in_degree_
  edges,     \* the targets in the order of the list: the first is the latest
  arrived,   \* arrived_
  inflight,
  stop,
  free,      \* batch_free_, its first element first
  storage,   \* the batches that were allocated
  batch,     \* node_idx_, tasks_ and remaining_ of each batch
  mainReady, \* main_ready_, the last element is taken first
  queued,    \* the lambdas in the scheduler: batch and index of the task
  stack,
  fires,     \* history: how often a node has fired,
  triggers   \* and how often it was triggered

graphVars == <<script, tasks, degree, edges>>
fireVars  == <<arrived, stop, fires, triggers>>
batchVars == <<free, storage, batch>>
vars == <<graphVars, fireVars, batchVars, inflight, mainReady, queued, stack>>

\* who: whose script a "body" executes; i: the next call, task or edge.
Frame(fn, n, b, i, pc) == [fn |-> fn, node |-> n, batch |-> b, who |-> None, i |-> i, pc |-> pc]
Body(k, b, fn) == [Frame(fn, None, b, 1, "body") EXCEPT !.who = k]

Init ==
  /\ script \in Scripts
  /\ tasks = [n \in Nodes |-> <<>>]
  /\ degree = [n \in Nodes |-> 0]
  /\ edges = [n \in Nodes |-> <<>>]
  /\ arrived = [n \in Nodes |-> 0]
  /\ inflight = 0 /\ stop = FALSE
  /\ free = <<>> /\ storage = {}
  /\ batch = [b \in Batches |-> [node |-> None, tasks |-> <<>>, remaining |-> 0]]
  /\ mainReady = <<>> /\ queued = {}
  /\ stack = [t \in Threads |-> IF t = Main THEN <<Body(Main, None, "main")>> ELSE <<>>]
  /\ fires = [n \in Nodes |-> 0] /\ triggers = [n \in Nodes |-> 0]

Top(t) == stack[t][Len(stack[t])]
At(t, fn, pc) == stack[t] # <<>> /\ Top(t).fn = fn /\ Top(t).pc = pc
Become(t, f)   == stack' = [stack EXCEPT ![t] = Append(Front(@), f)]
Calls(t, f, g) == stack' = [stack EXCEPT ![t] = Append(Front(@), f) \o <<g>>]
Pop(t)         == stack' = [stack EXCEPT ![t] = Front(@)]
Goes(f, pc)    == [f EXCEPT !.pc = pc]
Next1(f)       == [f EXCEPT !.i = @ + 1]
Trigger(n) == Frame("deliver_trigger", n, None, 1, "arrive")
Finish(b)  == Frame("finish_fire", None, b, 0, "notify")

-----------------------------------------------------------------------------
(* The calls of a script.                                                  *)

InBody(t) == stack[t] # <<>> /\ Top(t).pc = "body"
Current(t) == script[Top(t).who][Top(t).i]
Does(t, op) == InBody(t) /\ Top(t).i <= Len(script[Top(t).who]) /\ Current(t).op = op

Add(t) ==
  /\ Does(t, "add")
  /\ LET n == Current(t).node
         k == Current(t).arg
         gaps == {j \in DOMAIN tasks[n] : tasks[n][j] = None} IN
       tasks' = [tasks EXCEPT ![n] = IF gaps = {} THEN Append(@, k) ELSE [@ EXCEPT ![Min(gaps)] = k]]
  /\ Become(t, Next1(Top(t)))
  /\ UNCHANGED <<script, degree, edges, fireVars, batchVars, inflight, mainReady, queued>>

RemoveTask(t) ==
  /\ Does(t, "remove")
  /\ LET n == Current(t).node IN
       tasks' = [tasks EXCEPT ![n] = [j \in DOMAIN @ |-> IF @[j] = Current(t).arg THEN None ELSE @[j]]]
  /\ Become(t, Next1(Top(t)))
  /\ UNCHANGED <<script, degree, edges, fireVars, batchVars, inflight, mainReady, queued>>

\* The threshold goes up first; then the edge is prepended to the list of its source.
ConnectDegree(t) ==
  /\ Does(t, "connect")
  /\ degree' = [degree EXCEPT ![Current(t).arg] = @ + 1]
  /\ Calls(t, Next1(Top(t)), Frame("connect", Current(t).node, None, Current(t).arg, "link"))
  /\ UNCHANGED <<script, tasks, edges, fireVars, batchVars, inflight, mainReady, queued>>
ConnectEdge(t) ==
  /\ At(t, "connect", "link")
  /\ edges' = [edges EXCEPT ![Top(t).node] = <<Top(t).i>> \o @]
  /\ Pop(t)
  /\ UNCHANGED <<script, tasks, degree, fireVars, batchVars, inflight, mainReady, queued>>

Signal(t) ==
  /\ Does(t, "signal")
  /\ Calls(t, Next1(Top(t)), Trigger(Current(t).node))
  /\ UNCHANGED <<graphVars, fireVars, batchVars, inflight, mainReady, queued>>

RequestStop(t) ==
  /\ Does(t, "stop")
  /\ stop' = (stop \/ Top(t).who = Main \/ fires[batch[Top(t).batch].node] = Frames)
  /\ Become(t, Next1(Top(t)))
  /\ UNCHANGED <<graphVars, arrived, fires, triggers, batchVars, inflight, mainReady, queued>>

-----------------------------------------------------------------------------
(* Firing.                                                                 *)

\* The trigger that reaches the threshold exactly makes the node fire.
Arrive(t) ==
  /\ At(t, "deliver_trigger", "arrive")
  /\ LET n == Top(t).node
         threshold == Max({degree[n], 1}) IN
       /\ arrived' = [arrived EXCEPT ![n] = @ + 1]
       /\ triggers' = [triggers EXCEPT ![n] = @ + 1]
       /\ \/ arrived'[n] = threshold /\ Become(t, [Goes(Top(t), "consume") EXCEPT !.i = threshold])
          \/ arrived'[n] # threshold /\ Pop(t)
  /\ UNCHANGED <<graphVars, stop, fires, batchVars, inflight, mainReady, queued>>
Consume(t) ==
  /\ At(t, "deliver_trigger", "consume")
  /\ arrived' = [arrived EXCEPT ![Top(t).node] = @ - Top(t).i]
  /\ Become(t, Frame("fire_node", Top(t).node, None, 1, "stop"))
  /\ UNCHANGED <<graphVars, stop, fires, triggers, batchVars, inflight, mainReady, queued>>

FireStopped(t) ==
  /\ At(t, "fire_node", "stop") /\ stop
  /\ Pop(t)
  /\ UNCHANGED <<graphVars, fireVars, batchVars, inflight, mainReady, queued>>
\* Mutant: the batch stays on the free list.
FireShared(t) ==
  /\ At(t, "fire_node", "stop") /\ ~stop
  /\ \E b \in Batches :
       /\ \/ free # <<>> /\ b = Head(free) /\ UNCHANGED storage
          \/ free = <<>> /\ b \notin storage /\ storage' = storage \cup {b}
       /\ batch' = [batch EXCEPT ![b].node = Top(t).node,
                                 ![b].tasks = SelectSeq(tasks[Top(t).node], LAMBDA k : k # None)]
       /\ Become(t, Frame("fire_node", Top(t).node, b, 1, "token"))
  /\ fires' = [fires EXCEPT ![Top(t).node] = @ + 1]
  /\ UNCHANGED <<graphVars, free, arrived, stop, triggers, inflight, mainReady, queued>>
\* acquire_batch, and the copy of the tasks there are now.
Fire(t) ==
  /\ At(t, "fire_node", "stop") /\ ~stop
  /\ \E b \in Batches :
       /\ \/ free # <<>> /\ b = Head(free) /\ free' = Tail(free) /\ UNCHANGED storage
          \/ free = <<>> /\ b \notin storage /\ storage' = storage \cup {b} /\ UNCHANGED free
       /\ batch' = [batch EXCEPT ![b].node = Top(t).node,
                                 ![b].tasks = SelectSeq(tasks[Top(t).node], LAMBDA k : k # None)]
       /\ Become(t, Frame("fire_node", Top(t).node, b, 1, "token"))
  /\ fires' = [fires EXCEPT ![Top(t).node] = @ + 1]
  /\ UNCHANGED <<graphVars, arrived, stop, triggers, inflight, mainReady, queued>>
\* The firing is counted; it goes to the main thread, is over, or is submitted.
Token(t) ==
  /\ At(t, "fire_node", "token")
  /\ inflight' = inflight + 1
  /\ LET f == Top(t)
         valid == Len(batch[f.batch].tasks) IN
       \/ f.node \in MainNodes /\ mainReady' = Append(mainReady, f.batch) /\ Pop(t) /\ UNCHANGED batch
       \/ f.node \notin MainNodes /\ valid = 0 /\ Become(t, Finish(f.batch)) /\ UNCHANGED <<batch, mainReady>>
       \/ /\ f.node \notin MainNodes /\ valid # 0
          /\ batch' = [batch EXCEPT ![f.batch].remaining = valid]
          /\ Become(t, Goes(f, "submit"))
          /\ UNCHANGED mainReady
  /\ UNCHANGED <<graphVars, fireVars, free, storage, queued>>
\* The submission of the last lambda is the end of fire_node: .i is what is left to submit.
Submit(t) ==
  /\ At(t, "fire_node", "submit")
  /\ Cardinality(queued) < QueueCap
  /\ LET f == Top(t) IN
       /\ queued' = queued \cup {[batch |-> f.batch, i |-> f.i, of |-> Len(batch[f.batch].tasks)]}
       /\ \/ f.i < Len(batch[f.batch].tasks) /\ Become(t, Next1(f))
          \/ f.i = Len(batch[f.batch].tasks) /\ Pop(t)
  /\ UNCHANGED <<graphVars, fireVars, batchVars, inflight, mainReady>>

MayTake(t) ==
  \/ stack[t] = <<>> /\ t # Main
  \/ At(t, "fire_node", "submit") /\ Cardinality(queued) = QueueCap
  \/ At(t, "wait", "work")
Take(t) ==
  /\ MayTake(t)
  /\ \E q \in queued :
       /\ queued' = queued \ {q}
       /\ LET f == Body(batch[q.batch].tasks[q.i], q.batch, "lambda") IN
            IF At(t, "wait", "work") THEN Calls(t, Goes(Top(t), "load"), f)
                                     ELSE stack' = [stack EXCEPT ![t] = Append(@, f)]
  /\ UNCHANGED <<graphVars, fireVars, batchVars, inflight, mainReady>>

\* The last lambda of a batch finishes the firing.
LambdaReturns(t) ==
  /\ InBody(t) /\ Top(t).fn = "lambda" /\ Top(t).i > Len(script[Top(t).who])
  /\ LET b == Top(t).batch IN
       /\ batch' = [batch EXCEPT ![b].remaining = @ - 1]
       /\ \/ batch[b].remaining = 1 /\ Become(t, Finish(b))
          \/ batch[b].remaining # 1 /\ Pop(t)
  /\ UNCHANGED <<graphVars, fireVars, free, storage, inflight, mainReady, queued>>

\* finish_fire: .i is the number of edges that are still to be notified.
NotifyStart(t) ==
  /\ At(t, "finish_fire", "notify")
  /\ LET n == batch[Top(t).batch].node IN
       Become(t, [Goes(Top(t), "edge") EXCEPT !.node = n, !.i = IF stop THEN 0 ELSE Len(edges[n])])
  /\ UNCHANGED <<graphVars, fireVars, batchVars, inflight, mainReady, queued>>
NotifyEdge(t) ==
  /\ At(t, "finish_fire", "edge") /\ Top(t).i > 0
  /\ LET f == Top(t)
         list == edges[f.node] IN
       Calls(t, [f EXCEPT !.i = @ - 1], Trigger(list[Len(list) - f.i + 1]))
  /\ UNCHANGED <<graphVars, fireVars, batchVars, inflight, mainReady, queued>>
ReleaseBatch(t) ==
  /\ At(t, "finish_fire", "edge") /\ Top(t).i = 0
  /\ free' = <<Top(t).batch>> \o free
  /\ Become(t, Goes(Top(t), "token"))
  /\ UNCHANGED <<graphVars, fireVars, storage, batch, inflight, mainReady, queued>>
Untoken(t) ==
  /\ At(t, "finish_fire", "token")
  /\ inflight' = inflight - 1
  /\ Pop(t)
  /\ UNCHANGED <<graphVars, fireVars, batchVars, mainReady, queued>>

-----------------------------------------------------------------------------
(* Waiting.                                                                *)

Wait(t) ==
  /\ Does(t, "wait")
  /\ Calls(t, Next1(Top(t)), Frame("wait", None, None, 0, "load"))
  /\ UNCHANGED <<graphVars, fireVars, batchVars, inflight, mainReady, queued>>
\* The loop's condition; .i = 1: it was false, and the main nodes are drained once more.
WaitLoad(t) ==
  /\ At(t, "wait", "load")
  /\ Become(t, [Goes(Top(t), "drain") EXCEPT !.i = IF inflight = 0 THEN 1 ELSE 0])
  /\ UNCHANGED <<graphVars, fireVars, batchVars, inflight, mainReady, queued>>
\* drain_main_nodes takes the latest firing, until there is none.
DrainMain(t) ==
  /\ At(t, "wait", "drain")
  /\ \/ /\ mainReady # <<>>
        /\ mainReady' = Front(mainReady)
        /\ Calls(t, Top(t), Frame("run_main", None, Last(mainReady), 1, "next"))
     \/ /\ mainReady = <<>>
        /\ IF Top(t).i = 1 THEN Pop(t) ELSE Become(t, Goes(Top(t), "work"))
        /\ UNCHANGED mainReady
  /\ UNCHANGED <<graphVars, fireVars, batchVars, inflight, queued>>
\* run_main_node: one task after the other.
RunMain(t) ==
  /\ At(t, "run_main", "next")
  /\ LET f == Top(t) IN
       IF f.i > Len(batch[f.batch].tasks) THEN Become(t, Finish(f.batch))
       ELSE Calls(t, Next1(f), Body(batch[f.batch].tasks[f.i], f.batch, "inline"))
  /\ UNCHANGED <<graphVars, fireVars, batchVars, inflight, mainReady, queued>>
\* A task of a main node returns, or the program of Main ends.
Returns(t) ==
  /\ InBody(t) /\ Top(t).fn \in {"inline", "main"} /\ Top(t).i > Len(script[Top(t).who])
  /\ Pop(t)
  /\ UNCHANGED <<graphVars, fireVars, batchVars, inflight, mainReady, queued>>
\* busy_work finds nothing to do.
NoWork(t) ==
  /\ At(t, "wait", "work")
  /\ Become(t, Goes(Top(t), "load"))
  /\ UNCHANGED <<graphVars, fireVars, batchVars, inflight, mainReady, queued>>

-----------------------------------------------------------------------------

ThreadStep(t) ==
  \/ Add(t) \/ RemoveTask(t) \/ ConnectDegree(t) \/ ConnectEdge(t) \/ Signal(t) \/ RequestStop(t)
  \/ Arrive(t) \/ Consume(t) \/ FireStopped(t) \/ Fire(t) \/ Token(t) \/ Submit(t)
  \/ Take(t) \/ LambdaReturns(t)
  \/ NotifyStart(t) \/ NotifyEdge(t) \/ ReleaseBatch(t) \/ Untoken(t)
  \/ Wait(t) \/ WaitLoad(t) \/ DrainMain(t) \/ RunMain(t) \/ Returns(t) \/ NoWork(t)
Idle == queued = {} /\ \A t \in Threads : stack[t] = <<>>
Ended == Idle /\ UNCHANGED vars

Next == (\E t \in Threads : ThreadStep(t)) \/ Ended
Spec == Init /\ [][Next]_vars
FairSpec == Spec /\ \A t \in Threads : WF_vars(ThreadStep(t))

-----------------------------------------------------------------------------

Functions == {"main", "connect", "deliver_trigger", "fire_node", "lambda", "finish_fire", "wait",
              "run_main", "inline"}
\* The types of all variables; counts never wrap.
TypeOK ==
  /\ script \in Scripts
  /\ \A n \in Nodes :
       /\ ToSet(tasks[n]) \subseteq Tasks \cup {None} /\ ToSet(edges[n]) \subseteq Nodes
       /\ {degree[n], arrived[n], fires[n], triggers[n]} \subseteq Nat
  /\ inflight \in Nat /\ stop \in BOOLEAN
  /\ ToSet(free) \subseteq storage /\ storage \subseteq Batches
  /\ \A b \in Batches : /\ batch[b].node \in Nodes \cup {None}
                        /\ ToSet(batch[b].tasks) \subseteq Tasks
                        /\ batch[b].remaining \in 0 .. Len(batch[b].tasks)
  /\ ToSet(mainReady) \subseteq storage /\ Cardinality(queued) <= QueueCap
  /\ \A t \in Threads : \A d \in DOMAIN stack[t] : stack[t][d].fn \in Functions

\* The places where a firing is in progress, apart from its lambdas.
Frames1(b, fns) == {<<t, d>> \in Threads \X (1 .. 12) :
                      /\ d <= Len(stack[t]) /\ stack[t][d].batch = b
                      /\ stack[t][d].fn \in fns}
Firing(b) == {p \in Frames1(b, {"fire_node", "run_main", "finish_fire"}) :
                stack[p[1]][p[2]].fn # "finish_fire" \/ stack[p[1]][p[2]].pc # "token"}
             \cup {j \in DOMAIN mainReady : mainReady[j] = b}
Lambdas(b) == {q \in queued : q.batch = b} \cup Frames1(b, {"lambda"})

\* A batch that is in use belongs to one firing and is not on the free list: it is neither
\* handed out twice nor refilled while a lambda that was submitted with it may still read it,
\* although it is released before the firing is discounted.
BatchExclusive ==
  /\ IsInjective(free)
  /\ \A b \in Batches :
       /\ Cardinality(Firing(b)) <= 1
       /\ b \in ToSet(free) => Firing(b) = {} /\ Lambdas(b) = {}
       /\ Cardinality(Lambdas(b)) <= batch[b].remaining

\* When the count of firings in progress is zero and the main thread does not itself deliver
\* a trigger, no lambda, no main-thread firing and no call of another thread is left: the
\* main thread may destroy the graph as soon as its wait returns.
Quiet ==
  (inflight = 0 /\ \A d \in DOMAIN stack[Main] : stack[Main][d].fn \in {"main", "wait", "connect"})
    => queued = {} /\ mainReady = <<>> /\ \A t \in Threads \ {Main} : stack[t] = <<>>

\* A graph that is idle and was not stopped has no node with enough triggers to fire.
TriggersSpent ==
  (Idle /\ ~stop) => \A n \in Nodes : arrived[n] < Max({degree[n], 1})

\* After the stop the graph drains, and the wait of the main thread returns.
AllEnd == <>Idle
=============================================================================
