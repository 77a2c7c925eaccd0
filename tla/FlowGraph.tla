------------------------------ MODULE FlowGraph ------------------------------
(***************************************************************************)
(* ouly::flow_graph: a graph of nodes with tasks that is built, run on a   *)
(* scheduler, changed and run again.                                       *)
(*                                                                         *)
(* Thread Main builds the graph, starts it and waits; it also executes the *)
(* inline nodes.  The scheduler is a bounded queue of lambdas: a thread    *)
(* that submits to the full queue, or waits cooperatively, runs queued     *)
(* lambdas on its own stack.  A frame of a stack is a call of execute_node,*)
(* notify_successors, ... or a lambda; a step is one access to an atomic,  *)
(* to the queue or to the semaphore done_.                                 *)
(***************************************************************************)
EXTENDS Integers, Sequences, FiniteSets, SequencesExt, FiniteSetsExt

CONSTANTS
  Threads,
  Main,
  Nodes,      \* node_ids: 0, 1, ...
  Tasks,
  Scripts,    \* the calls of Main in different programs
  InlineCap,  \* AvgNodeCount: how many nodes fit before nodes_ is moved
  QueueCap,
  None

Op == [op : {"create", "create_main", "start", "wait", "cooperative_wait"}, node : {None}, arg : {None}]
        \cup [op : {"add", "remove"}, node : Nodes, arg : Tasks]
        \cup [op : {"connect"}, node : Nodes, arg : Nodes]

FlowGraphAssumption ==
  /\ Main \in Threads
  /\ Nodes = 0 .. (Cardinality(Nodes) - 1)
  /\ Scripts \subseteq Seq(Op)
  /\ InlineCap \in Nat \ {0} /\ QueueCap \in Nat \ {0}
  /\ None \notin Tasks \cup Nodes

VARIABLES
  size, cap,    \* of nodes_
  tasks,        \* tasks_ of each node, with None for a removed one
  valid,        \* valid_task_count_
  successors,   \* next_nodes_
  degree,       \* dependency_counts_
  pending,      \* pending_dependencies_
  runs,         \* run_count_
  mainOnly,     \* is_main_thread_only_
  executed,     \* is_already_executed_
  inlineNodes,  \* inline_nodes_
  inlineRun,    \* total_inline_nodes_executed_
  remaining,    \* remaining_tasks_
  started,
  done,         \* the count of done_
  queued,       \* the lambdas in the scheduler: node and index of the task
  stack,        \* the frames of each thread
  script, at,   \* the program of Main and its position in it
  added,        \* history: the tasks added to each node and not removed,
  called,       \* those called since the start, and those that returned
  returned

nodeVars  == <<size, cap, tasks, valid, successors, degree, mainOnly, inlineNodes, script, added>>
countVars == <<pending, runs, executed, inlineRun, remaining>>
vars == <<size, cap, tasks, valid, successors, degree, pending, runs, mainOnly, executed, inlineNodes,
          inlineRun, remaining, started, done, queued, stack, script, at, added, called, returned>>

Init ==
  /\ size = 0 /\ cap = InlineCap
  /\ tasks = [n \in Nodes |-> <<>>]
  /\ valid = [n \in Nodes |-> 0]
  /\ successors = [n \in Nodes |-> <<>>]
  /\ degree = [n \in Nodes |-> 0]
  /\ pending = [n \in Nodes |-> 0]
  /\ runs = [n \in Nodes |-> 0]
  /\ mainOnly = [n \in Nodes |-> FALSE]
  /\ executed = [n \in Nodes |-> FALSE]
  /\ inlineNodes = <<>> /\ inlineRun = 0
  /\ remaining = 0 /\ started = FALSE /\ done = 0
  /\ queued = {}
  /\ stack = [t \in Threads |-> <<>>]
  /\ script \in Scripts /\ at = 1
  /\ added = [n \in Nodes |-> {}]
  /\ called = {} /\ returned = {}

Created == 0 .. (size - 1)
\* fn: the function, with the node it is about, the next index to look at and where it is.
Frame(fn, n, i, pc) == [fn |-> fn, node |-> n, i |-> i, pc |-> pc, last |-> FALSE]
Top(t) == stack[t][Len(stack[t])]
At(t, fn, pc) == stack[t] # <<>> /\ Top(t).fn = fn /\ Top(t).pc = pc
\* The top frame becomes f; or it does and calls g; or it returns.
Become(t, f)  == stack' = [stack EXCEPT ![t] = Append(Front(@), f)]
Calls(t, f, g) == stack' = [stack EXCEPT ![t] = Append(Front(@), f) \o <<g>>]
Pop(t)        == stack' = [stack EXCEPT ![t] = Front(@)]
Next1(f)      == [f EXCEPT !.i = @ + 1]
Exec(n)   == Frame("execute_node", n, 1, "loop")
Notify(n) == Frame("notify_successors", n, 1, "loop")
Poll      == Frame("poll", None, 1, "loop")
\* Where the tasks of n are from index i on.
TaskFrom(n, i) == {j \in i .. Len(tasks[n]) : tasks[n][j] # None}

-----------------------------------------------------------------------------
(* Building the graph.                                                     *)

Builds(op) == stack[Main] = <<>> /\ at <= Len(script) /\ script[at].op = op
Built == /\ at' = at + 1
         /\ UNCHANGED <<countVars, started, done, queued, stack, called, returned>>

\* nodes_ grows by moving the nodes: the move of a task_node leaves valid_task_count_ behind.
Create(op) ==
  /\ Builds(op)
  /\ size' = size + 1
  /\ \/ size < cap /\ UNCHANGED <<cap, valid>>
     \/ size >= cap /\ cap' = size + 1 + size \div 2 /\ valid' = [n \in Nodes |-> 0]
  /\ mainOnly' = [mainOnly EXCEPT ![size] = op = "create_main"]
  /\ inlineNodes' = IF op = "create_main" THEN Append(inlineNodes, size) ELSE inlineNodes
  /\ Built
  /\ UNCHANGED <<tasks, successors, degree, script, added>>

\* The task takes the first free place.
AddTask ==
  /\ Builds("add")
  /\ LET n == script[at].node
         k == script[at].arg
         free == {j \in DOMAIN tasks[n] : tasks[n][j] = None} IN
       /\ tasks' = [tasks EXCEPT ![n] = IF free = {} THEN Append(@, k) ELSE [@ EXCEPT ![Min(free)] = k]]
       /\ valid' = [valid EXCEPT ![n] = @ + 1]
       /\ added' = [added EXCEPT ![n] = @ \cup {k}]
  /\ Built
  /\ UNCHANGED <<size, cap, successors, degree, mainOnly, inlineNodes, script>>

RemoveTask ==
  /\ Builds("remove")
  /\ LET n == script[at].node
         k == script[at].arg IN
       /\ k \in ToSet(tasks[n])
       /\ tasks' = [tasks EXCEPT ![n] = [j \in DOMAIN @ |-> IF @[j] = k THEN None ELSE @[j]]]
       /\ valid' = [valid EXCEPT ![n] = @ - 1]
       /\ added' = [added EXCEPT ![n] = @ \ {k}]
  /\ Built
  /\ UNCHANGED <<size, cap, successors, degree, mainOnly, inlineNodes, script>>

Connect ==
  /\ Builds("connect")
  /\ successors' = [successors EXCEPT ![script[at].node] = Append(@, script[at].arg)]
  /\ degree' = [degree EXCEPT ![script[at].arg] = @ + 1]
  /\ Built
  /\ UNCHANGED <<size, cap, tasks, valid, mainOnly, inlineNodes, script, added>>

-----------------------------------------------------------------------------
(* A run of the graph.                                                     *)

Total == MapThenSumSet(LAMBDA n : valid[n], Created)

\* start, up to the first ready node; a graph without tasks is not started at all.
Start ==
  /\ Builds("start")
  /\ at' = at + 1
  /\ done' = 0
  /\ pending' = degree
  /\ runs' = [n \in Nodes |-> 0]
  /\ executed' = [n \in Nodes |-> FALSE]
  /\ inlineRun' = 0
  /\ \/ Total = 0 /\ UNCHANGED <<remaining, started, stack, called, returned>>
     \/ /\ Total # 0
        /\ remaining' = Total /\ started' = TRUE
        /\ called' = {} /\ returned' = {}
        /\ stack' = [stack EXCEPT ![Main] = <<Frame("start", None, 0, "loop")>>]
  /\ UNCHANGED <<nodeVars, queued>>

\* The next node without dependencies, if it is not for the main thread; then poll_inline_nodes.
StartLoop(t) ==
  /\ At(t, "start", "loop")
  /\ LET ready == {n \in Created : n >= Top(t).i /\ degree[n] = 0 /\ ~mainOnly[n]} IN
       \/ ready = {} /\ Become(t, Poll)
       \/ ready # {} /\ Calls(t, [Top(t) EXCEPT !.i = Min(ready) + 1], Exec(Min(ready)))
  /\ UNCHANGED <<nodeVars, countVars, started, done, queued, at, called, returned>>

\* execute_node: a node without tasks is passed over, the tasks of another go to the scheduler.
ExecuteNode(t) ==
  /\ At(t, "execute_node", "loop")
  /\ LET n == Top(t).node
         rest == TaskFrom(n, Top(t).i) IN
       \/ valid[n] = 0 /\ Become(t, Notify(n)) /\ UNCHANGED queued
       \/ valid[n] # 0 /\ rest = {} /\ Pop(t) /\ UNCHANGED queued
       \/ /\ valid[n] # 0 /\ rest # {} /\ Cardinality(queued) < QueueCap
          /\ queued' = queued \cup {<<n, Min(rest)>>}
          /\ Become(t, [Top(t) EXCEPT !.i = Min(rest) + 1])
  /\ UNCHANGED <<nodeVars, countVars, started, done, at, called, returned>>

\* Mutant: a successor is executed when one dependency is left.
NotifyHasty(t) ==
  /\ At(t, "notify_successors", "loop")
  /\ LET f == Top(t) IN
       \/ f.i > Len(successors[f.node]) /\ Pop(t) /\ UNCHANGED pending
       \/ /\ f.i <= Len(successors[f.node])
          /\ LET s == successors[f.node][f.i] IN
               /\ pending' = [pending EXCEPT ![s] = @ - 1]
               /\ \/ pending'[s] <= 1 /\ ~mainOnly[s] /\ Calls(t, Next1(f), Exec(s))
                  \/ (pending'[s] > 1 \/ mainOnly[s]) /\ Become(t, Next1(f))
  /\ UNCHANGED <<nodeVars, runs, executed, inlineRun, remaining, started, done, queued, at, called,
                 returned>>

\* notify_successors: one dependency less for the next successor.
NotifySuccessor(t) ==
  /\ At(t, "notify_successors", "loop")
  /\ LET f == Top(t) IN
       \/ f.i > Len(successors[f.node]) /\ Pop(t) /\ UNCHANGED pending
       \/ /\ f.i <= Len(successors[f.node])
          /\ LET s == successors[f.node][f.i] IN
               /\ pending' = [pending EXCEPT ![s] = @ - 1]
               /\ \/ pending'[s] = 0 /\ ~mainOnly[s] /\ Calls(t, Next1(f), Exec(s))
                  \/ (pending'[s] # 0 \/ mainOnly[s]) /\ Become(t, Next1(f))
  /\ UNCHANGED <<nodeVars, runs, executed, inlineRun, remaining, started, done, queued, at, called,
                 returned>>

\* A thread executes the next lambda: worker threads when they have nothing else to do, any
\* thread when it submits to a full queue or waits with help.
MayTake(t) ==
  \/ stack[t] = <<>> /\ t # Main
  \/ At(t, "execute_node", "loop") /\ Cardinality(queued) = QueueCap
  \/ At(t, "cooperative_wait", "acquire")
  \/ At(t, "drive", "work")
Take(t) ==
  /\ MayTake(t)
  /\ \E q \in queued :
       /\ queued' = queued \ {q}
       /\ called' = called \cup {tasks[q[1]][q[2]]}
       /\ LET f == Frame("lambda", q[1], q[2], "body") IN
            IF At(t, "drive", "work") THEN Calls(t, [Top(t) EXCEPT !.pc = "acquire"], f)
                                      ELSE stack' = [stack EXCEPT ![t] = Append(@, f)]
  /\ UNCHANGED <<nodeVars, countVars, started, done, at, returned>>

\* execute_task: the task returns and is counted; .last: it was the last of its node.
Returns(t, fn) ==
  /\ At(t, fn, "body")
  /\ LET n == Top(t).node IN
       /\ returned' = returned \cup {tasks[n][Top(t).i]}
       /\ runs' = [runs EXCEPT ![n] = @ + 1]
  /\ UNCHANGED <<nodeVars, pending, executed, inlineRun, remaining, started, done, queued, at, called>>
IsLast(n) == runs[n] + 1 = valid[n]

\* Mutant: the count goes down before the successors hear of it.
LambdaReturnsEarly(t) ==
  /\ Returns(t, "lambda")
  /\ LET f == [Top(t) EXCEPT !.pc = "sub"] IN
       \/ IsLast(f.node) /\ Calls(t, Notify(f.node), f)
       \/ ~IsLast(f.node) /\ Become(t, f)

\* The lambda notifies the successors first, if its task was the last one.
LambdaReturns(t) ==
  /\ Returns(t, "lambda")
  /\ LET f == [Top(t) EXCEPT !.pc = "sub"] IN
       \/ IsLast(f.node) /\ Calls(t, f, Notify(f.node))
       \/ ~IsLast(f.node) /\ Become(t, f)

\* One task less remains; whoever finishes the last one signals done_.
Discount ==
  /\ remaining' = remaining - 1
  /\ done' = IF remaining = 1 THEN done + 1 ELSE done
  /\ UNCHANGED <<nodeVars, pending, runs, executed, inlineRun, started, queued, at, called, returned>>
LambdaEnds(t) == At(t, "lambda", "sub") /\ Discount /\ Pop(t)

-----------------------------------------------------------------------------
(* Inline nodes.                                                           *)

\* poll_inline_nodes looks at the next inline node that has not been executed.
PollNode(t) ==
  /\ At(t, "poll", "loop")
  /\ LET rest == {j \in Top(t).i .. Len(inlineNodes) : ~executed[inlineNodes[j]]} IN
       \/ /\ rest = {} \/ (Top(t).i = 1 /\ inlineRun = Len(inlineNodes))
          /\ Pop(t)
          /\ UNCHANGED <<executed, inlineRun>>
       \/ /\ rest # {} /\ (Top(t).i # 1 \/ inlineRun # Len(inlineNodes))
          /\ LET n == inlineNodes[Min(rest)]
                 f == [Top(t) EXCEPT !.i = Min(rest) + 1] IN
               \/ pending[n] # 0 /\ Become(t, f) /\ UNCHANGED <<executed, inlineRun>>
               \/ /\ pending[n] = 0
                  /\ executed' = [executed EXCEPT ![n] = TRUE]
                  /\ inlineRun' = inlineRun + 1
                  /\ Calls(t, f, IF valid[n] = 0 THEN Notify(n) ELSE Frame("inline", n, 0, "call"))
  /\ UNCHANGED <<nodeVars, pending, runs, remaining, started, done, queued, at, called, returned>>

\* execute_node_inline calls its tasks one after the other.
InlineCall(t) ==
  /\ At(t, "inline", "call")
  /\ LET f == Top(t)
         rest == TaskFrom(f.node, f.i + 1) IN
       \/ rest = {} /\ Pop(t) /\ UNCHANGED called
       \/ /\ rest # {}
          /\ called' = called \cup {tasks[f.node][Min(rest)]}
          /\ Become(t, [f EXCEPT !.i = Min(rest), !.pc = "body"])
  /\ UNCHANGED <<nodeVars, countVars, started, done, queued, at, returned>>
InlineReturns(t) ==
  /\ Returns(t, "inline")
  /\ Become(t, [Top(t) EXCEPT !.pc = "sub", !.last = IsLast(Top(t).node)])
\* Here the count goes down before the successors hear of it.
InlineEnds(t) ==
  /\ At(t, "inline", "sub")
  /\ Discount
  /\ LET f == [Top(t) EXCEPT !.pc = "call"] IN
       \/ Top(t).last /\ Calls(t, f, Notify(f.node))
       \/ ~Top(t).last /\ Become(t, f)

-----------------------------------------------------------------------------
(* Waiting.                                                                *)

\* wait and cooperative_wait: with inline nodes both drive them, otherwise wait blocks.
Wait(op) ==
  /\ Builds(op)
  /\ at' = at + 1
  /\ \/ ~started /\ UNCHANGED stack
     \/ started /\ stack' = [stack EXCEPT ![Main] =
                      <<Frame(IF inlineNodes = <<>> THEN op ELSE "drive", None, 0, "acquire")>>]
  /\ UNCHANGED <<nodeVars, countVars, started, done, queued, called, returned>>

Acquired(t) ==
  /\ \E fn \in {"wait", "cooperative_wait", "drive"} : At(t, fn, "acquire")
  /\ done = 1
  /\ done' = 0 /\ started' = FALSE
  /\ Pop(t)
  /\ UNCHANGED <<nodeVars, countVars, queued, at, called, returned>>
\* drive_inline_until_done: poll, then one item of other work if there is one.
Drive(t) ==
  /\ At(t, "drive", "acquire") /\ done = 0
  /\ Calls(t, [Top(t) EXCEPT !.pc = "work"], Poll)
  /\ UNCHANGED <<nodeVars, countVars, started, done, queued, at, called, returned>>
NoWork(t) ==
  /\ At(t, "drive", "work")
  /\ Become(t, [Top(t) EXCEPT !.pc = "acquire"])
  /\ UNCHANGED <<nodeVars, countVars, started, done, queued, at, called, returned>>

-----------------------------------------------------------------------------

ThreadStep(t) ==
  \/ StartLoop(t) \/ ExecuteNode(t) \/ NotifySuccessor(t)
  \/ Take(t) \/ LambdaReturns(t) \/ LambdaEnds(t)
  \/ PollNode(t) \/ InlineCall(t) \/ InlineReturns(t) \/ InlineEnds(t)
  \/ Acquired(t) \/ Drive(t) \/ NoWork(t)
Build ==
  \/ Create("create") \/ Create("create_main") \/ AddTask \/ RemoveTask \/ Connect
  \/ Start \/ Wait("wait") \/ Wait("cooperative_wait")
Idle == at > Len(script) /\ stack[Main] = <<>>
Ended == Idle /\ UNCHANGED vars

Next == Build \/ (\E t \in Threads : ThreadStep(t)) \/ Ended
Spec == Init /\ [][Next]_vars

\* Every thread that can go on does; a drive that finds no work has let the others work.
Fairness ==
  /\ WF_vars(Build)
  /\ \A t \in Threads : WF_vars(ThreadStep(t))
FairSpec == Spec /\ Fairness

-----------------------------------------------------------------------------

Functions == {"start", "execute_node", "notify_successors", "lambda", "poll", "inline", "wait",
              "cooperative_wait", "drive"}
\* done_ is a binary semaphore; the counts of remaining tasks and dependencies never wrap.
TypeOK ==
  /\ size \in 0 .. Cardinality(Nodes) /\ cap \in Nat
  /\ \A n \in Nodes :
       /\ ToSet(tasks[n]) \subseteq Tasks \cup {None}
       /\ ToSet(successors[n]) \subseteq Nodes
       /\ valid[n] \in Nat /\ degree[n] \in Nat /\ pending[n] \in Nat /\ runs[n] \in Nat
  /\ mainOnly \in [Nodes -> BOOLEAN] /\ executed \in [Nodes -> BOOLEAN]
  /\ ToSet(inlineNodes) \subseteq Nodes /\ inlineRun \in 0 .. Len(inlineNodes)
  /\ remaining \in Nat /\ started \in BOOLEAN /\ done \in 0 .. 1
  /\ queued \subseteq Nodes \X Nat /\ Cardinality(queued) <= QueueCap
  /\ \A t \in Threads : \A d \in DOMAIN stack[t] :
       /\ stack[t][d].fn \in Functions
       /\ stack[t][d].fn \in {"start", "poll", "inline", "wait", "cooperative_wait", "drive"} => t = Main
  /\ script \in Scripts /\ at \in 1 .. Len(script) + 1
  /\ added \in [Nodes -> SUBSET Tasks] /\ called \subseteq Tasks /\ returned \subseteq called

\* When the main thread is out of the graph and the graph is not started, the scheduler
\* has none of its lambdas and no other thread is inside one of its functions: it may be
\* changed, started again or destroyed.
Quiet ==
  (stack[Main] = <<>> /\ ~started) => queued = {} /\ \A t \in Threads : stack[t] = <<>>

\* Once the main thread has waited, all tasks that are in the graph have been executed.
AllExecuted ==
  (stack[Main] = <<>> /\ at > 1 /\ script[at - 1].op \in {"wait", "cooperative_wait"})
    => UNION {added[n] : n \in Nodes} \subseteq returned

\* The graph keeps the promise of TaskGraph: order, once, and all of them.
Promise == INSTANCE TaskGraph WITH
  tasks <- added,
  edges <- UNION {{<<n, s>> : s \in ToSet(successors[n])} : n \in Nodes},
  running <- started
Implements == Promise!Spec

\* Every wait returns, whatever is submitted to the full queue.
AllEnd == <>Idle
=============================================================================
