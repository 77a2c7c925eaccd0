----------------------------- MODULE MCClients -----------------------------
(***************************************************************************)
(* The clients of the schedulers: task scopes (TaskScope itself), value    *)
(* tasks, the two flow graphs, coroutine tasks and the parallel loops.  A  *)
(* behaviour uses one of them; the others stay as they were.               *)
(***************************************************************************)
EXTENDS TaskScope, TLC

CONSTANTS
  th1, th2, th3,  \* threads
  s1, s2, root, ca, cb, cc, cd, ce,     \* scopes and their children
  watch, tp, tn, tq, tu, tr, te, tm,    \* value tasks
  k1, k2, k3, k4, k5, kp, b1, b2, b3,   \* tasks of graphs; batches
  wt, f1, f2, f3, f4, f5,               \* coroutines
  over, Pending, AllocError, completed,
  Parts           \* the clients that the run checks

VARIABLES
  which,
  tRefs, tCont, tErr, tNodes, tNext, tRemaining, tClaimed, tCtlErr, tHold, tQueued, tStack, tRuns,
  tAborted,
  gSize, gCap, gTasks, gValid, gSuccessors, gDegree, gPending, gRuns, gMainOnly, gExecuted,
  gInlineNodes, gInlineRun, gRemaining, gStarted, gDone, gQueued, gStack, gScript, gAt, gAdded,
  gCalled, gReturned,
  dScript, dTasks, dDegree, dEdges, dArrived, dInflight, dStop, dFree, dStorage, dBatch, dMainReady,
  dQueued, dStack, dFires, dTriggers,
  cScript, cAt, cContinuation, cStarted, cDetached, cLife, cFinished, cPos, cTarget, cEvent, cQueue,
  cStack,
  pKind, pCount, pPc, pCut, pChildren, pWork, pFailed, pThrown, pVisits

taskVars == <<tRefs, tCont, tErr, tNodes, tNext, tRemaining, tClaimed, tCtlErr, tHold, tQueued,
              tStack, tRuns, tAborted>>
flowVars == <<gSize, gCap, gTasks, gValid, gSuccessors, gDegree, gPending, gRuns, gMainOnly,
              gExecuted, gInlineNodes, gInlineRun, gRemaining, gStarted, gDone, gQueued, gStack,
              gScript, gAt, gAdded, gCalled, gReturned>>
dynamicVars == <<dScript, dTasks, dDegree, dEdges, dArrived, dInflight, dStop, dFree, dStorage,
                 dBatch, dMainReady, dQueued, dStack, dFires, dTriggers>>
coroVars == <<cScript, cAt, cContinuation, cStarted, cDetached, cLife, cFinished, cPos, cTarget,
              cEvent, cQueue, cStack>>
loopVars == <<pKind, pCount, pPc, pCut, pChildren, pWork, pFailed, pThrown, pVisits>>

Threads == {th1, th2, th3}
Do(o, x) == [op |-> o, arg |-> x]
On(o, n, x) == [op |-> o, node |-> n, arg |-> x]
Graph(o) == On(o, None, None)

-----------------------------------------------------------------------------
(* Scope.  The root gives children to s1, joins, resets it and uses it     *)
(* again; ca forks and joins cd in a scope of its own; cb, in the other    *)
(* group, gives cc to s1.                                                  *)

MCScript ==
  (root :> <<Do("run", ca), Do("run", cb), Do("join", s1), Do("reset", s1), Do("run", ce),
             Do("block", s1), Do("destroy", s1)>>)
  @@ (ca :> <<Do("run", cd), Do("join", s2), Do("destroy", s2)>>)
  @@ (cb :> <<Do("run", cc)>>)
  @@ [n \in {cc, cd, ce} |-> <<>>]
MCMember  == (0 :> {th1, th2}) @@ (1 :> {th2, th3})
MCScopeOf == (ca :> s1) @@ (cb :> s1) @@ (cc :> s1) @@ (cd :> s2) @@ (ce :> s1)
MCGroupOf == (root :> 0) @@ (ca :> 0) @@ (cb :> 1) @@ (cc :> 0) @@ (cd :> 0) @@ (ce :> 1)
MCOwner   == (s1 :> root) @@ (s2 :> ca)

\* The smallest program in which a child of another group gives the joiner's own group, of
\* which the joiner is the only worker, one more child.
MCPairWorkers == {th1, th2}
MCOwnGroup    == (0 :> {th1}) @@ (1 :> {th2})
MCPair        == {cb, cc}
MCPairScope   == [n \in MCPair |-> s1]
MCPairGroup   == (root :> 0) @@ (cb :> 1) @@ (cc :> 0)
MCPairOwner   == [s \in {s1, s2} |-> root]
MCPairScript  == (root :> <<Do("run", cb), Do("join", s1), Do("destroy", s1)>>)
                 @@ (cb :> <<Do("run", cc)>>) @@ (cc :> <<>>)

-----------------------------------------------------------------------------
(* Task.  tn, which has a handle of tp, and root both continue tp.  The    *)
(* function of tp makes tm and waits for it; that of tq throws; tr gathers *)
(* tp and tq; watch, on a thread that runs no tasks, blocks on tr.         *)

Handle(o, k) == [op |-> o, arg |-> k, to |-> None]
CopyTo(k, b) == [op |-> "copy", arg |-> k, to |-> b]
TaskScript ==
  (root :> <<Handle("make", tp), CopyTo(tp, tn), Handle("make", tn), Handle("make", tq),
             Handle("make", tr), CopyTo(tr, watch), Handle("drop", tp), Handle("drop", tn),
             Handle("drop", tq), Handle("make", te), Handle("wait", tr), Handle("drop", tr),
             Handle("drop", te)>>)
  @@ (watch :> <<Handle("block", tr), Handle("drop", tr)>>)
  @@ (tp :> <<Handle("make", tm), Handle("wait", tm), Handle("drop", tm)>>)
  @@ (tn :> <<Handle("make", tu), Handle("drop", tu), Handle("drop", tp)>>)
  @@ [k \in {tq, tu, tr, te, tm} |-> <<>>]
Task == INSTANCE TaskState WITH
  Finished <- over,
  Workers <- {th1, th2}, Home <- (th1 :> root) @@ (th2 :> None) @@ (th3 :> watch), Programs <- {root, watch},
  Tasks <- {tp, tn, tq, tu, tr, te, tm},
  Kind <- [k \in {tp, tn, tm} |-> "produce"] @@ [k \in {tq, tu} |-> "then"] @@ [k \in {tr, te} |-> "all"],
  Pred <- [k \in {tp, tn, tm, te} |-> <<>>] @@ [k \in {tq, tu} |-> <<tp>>] @@ (tr :> <<tp, tq>>),
  Throws <- {tq}, MayFail <- {tr}, Script <- TaskScript, QueueCap <- 1,
  refs <- tRefs, cont <- tCont, err <- tErr, nodes <- tNodes, next <- tNext,
  remaining <- tRemaining, claimed <- tClaimed, ctlErr <- tCtlErr, hold <- tHold,
  queued <- tQueued, stack <- tStack, runs <- tRuns, aborted <- tAborted

\* The smallest program in which a task that is complete is waited for by a task that its
\* continuation has made room for: root gives tn a handle of tp, on which tn waits, and
\* continues tp before it makes tn.
Ready == INSTANCE TaskState WITH
  Finished <- over,
  Threads <- {th1, th2}, Workers <- {th1, th2}, Home <- (th1 :> root) @@ (th2 :> None),
  Programs <- {root}, Tasks <- {tp, tn, tq},
  Kind <- (tp :> "produce") @@ (tn :> "produce") @@ (tq :> "then"),
  Pred <- (tp :> <<>>) @@ (tn :> <<>>) @@ (tq :> <<tp>>),
  Throws <- {}, MayFail <- {}, QueueCap <- 1,
  Script <- (root :> <<Handle("make", tp), CopyTo(tp, tn), Handle("make", tq), Handle("make", tn),
                       Handle("drop", tp), Handle("drop", tq), Handle("drop", tn)>>)
            @@ (tn :> <<Handle("wait", tp), Handle("drop", tp)>>) @@ (tp :> <<>>) @@ (tq :> <<>>),
  refs <- tRefs, cont <- tCont, err <- tErr, nodes <- tNodes, next <- tNext,
  remaining <- tRemaining, claimed <- tClaimed, ctlErr <- tCtlErr, hold <- tHold,
  queued <- tQueued, stack <- tStack, runs <- tRuns, aborted <- tAborted

-----------------------------------------------------------------------------
(* Flow.  A diamond with a node for the main thread, changed and run       *)
(* again; and two roots with a join and an empty last node, run three      *)
(* times.                                                                  *)

Diamond ==
  <<Graph("create"), Graph("create"), Graph("create_main"), Graph("create"),
    On("connect", 0, 1), On("connect", 1, 3), On("connect", 0, 2), On("connect", 2, 3),
    On("add", 0, k1), On("add", 0, k2), On("add", 2, k3), On("add", 3, k4),
    Graph("start"), Graph("cooperative_wait"),
    On("remove", 0, k1), On("add", 1, k5), On("add", 1, k1),
    Graph("start"), Graph("wait")>>
Join ==
  <<Graph("create"), Graph("create"), Graph("create"), Graph("create"),
    On("connect", 0, 2), On("connect", 1, 2), On("connect", 2, 3), On("connect", 0, 3),
    On("add", 0, k1), On("add", 1, k2), On("add", 2, k3),
    Graph("start"), Graph("wait"), On("add", 0, k4), On("remove", 2, k3),
    Graph("start"), Graph("cooperative_wait"), Graph("start"), Graph("wait")>>
Flow == INSTANCE FlowGraph WITH
  Main <- th1, Nodes <- 0 .. 3, Tasks <- {k1, k2, k3, k4, k5}, Scripts <- {Diamond, Join},
  InlineCap <- 4, QueueCap <- 2,
  size <- gSize, cap <- gCap, tasks <- gTasks, valid <- gValid, successors <- gSuccessors,
  degree <- gDegree, pending <- gPending, runs <- gRuns, mainOnly <- gMainOnly,
  executed <- gExecuted, inlineNodes <- gInlineNodes, inlineRun <- gInlineRun,
  remaining <- gRemaining, started <- gStarted, done <- gDone, queued <- gQueued, stack <- gStack,
  script <- gScript, at <- gAt, added <- gAdded, called <- gCalled, returned <- gReturned

-----------------------------------------------------------------------------
(* Dynamic.  A cycle of four nodes: 0 is empty, 1 and 2 run side by side,  *)
(* 3 is for the main thread.  k2 takes k1 out, puts it back and, the       *)
(* second time, stops the graph while k1 may run.                          *)

Loop4 ==
  (th1 :> <<On("connect", 0, 1), On("connect", 0, 2), On("connect", 1, 3), On("connect", 2, 3),
          On("connect", 3, 0), On("add", 1, k1), On("add", 2, k2), On("add", 3, kp),
          On("signal", 0, None), Graph("wait")>>)
  @@ (k2 :> <<On("remove", 1, k1), On("add", 1, k1), Graph("stop")>>)
  @@ [k \in {k1, kp} |-> <<>>]
Dynamic == INSTANCE DynamicFlowGraph WITH
  Main <- th1, Nodes <- 0 .. 3, MainNodes <- {3}, Tasks <- {k1, k2, kp}, Scripts <- {Loop4},
  Batches <- {b1, b2, b3}, Frames <- 2, QueueCap <- 1,
  script <- dScript, tasks <- dTasks, degree <- dDegree, edges <- dEdges, arrived <- dArrived,
  inflight <- dInflight, stop <- dStop, free <- dFree, storage <- dStorage, batch <- dBatch,
  mainReady <- dMainReady, queued <- dQueued, stack <- dStack, fires <- dFires,
  triggers <- dTriggers

-----------------------------------------------------------------------------
(* Coro.  f1 awaits f2 and f3, f2 awaits f4; f5 is moved to the scheduler  *)
(* and frees itself; f4 is waited for while its submitted start may run.   *)

Lazy     == <<Do("make", f1), Do("cooperative_wait", f1), Do("destroy", f1),
              Do("make", f5), Do("submit_move", f5), Do("idle", None)>>
Plain    == <<Do("make", f1), Do("wait", f1), Do("submit", f1), Do("destroy", f1)>>
Borrowed == <<Do("make", f1), Do("submit", f1), Do("idle", None), Do("cooperative_wait", f1),
              Do("destroy", f1), Do("make", f5), Do("submit_move", f5), Do("cooperative_event", None)>>
Awaited  == <<Do("make", f4), Do("submit", f4), Do("cooperative_wait", f4), Do("destroy", f4)>>
Direct   == <<Do("make", f4), Do("submit", f4), Do("wait", f4), Do("destroy", f4)>>
Coro == INSTANCE CoTask WITH
  Sentinel <- completed,
  Main <- th1, Coroutines <- {f1, f2, f3, f4, f5}, Waiter <- wt,
  Awaits <- (f1 :> <<f2, f3>>) @@ (f2 :> <<f4>>) @@ [c \in {f3, f4, f5} |-> <<>>],
  Signals <- {f5}, Scripts <- {Lazy, Plain, Borrowed, Awaited, Direct},
  script <- cScript, at <- cAt, continuation <- cContinuation, started <- cStarted,
  detached <- cDetached, life <- cLife, finished <- cFinished, pos <- cPos, target <- cTarget,
  event <- cEvent, queue <- cQueue, stack <- cStack

\* Awaited and Direct may lose the frame of the Waiter while it is being suspended (co_frames);
\* what the thread does then is not defined, so a behaviour ends there.
Lost == which = "coro" /\ cScript \in {Awaited, Direct} /\ ~Coro!AwaitersAlive

(* Loop.  Ranges below, at and above the thresholds; element 3 throws.     *)
Loop == INSTANCE ParallelFor WITH
  Caller <- th1, Counts <- {0, 1, 2, 3, 5, 8, 28}, Throws <- {3}, Grain <- 1, Threshold <- 2,
  BatchesPerWorker <- 1, FixedBatch <- 2, DepthMax <- 2, DepthIncrement <- 1, PoolCap <- 4,
  kind <- pKind, count <- pCount, pc <- pPc, cut <- pCut, children <- pChildren, work <- pWork,
  failed <- pFailed, thrown <- pThrown, visits <- pVisits

ASSUME
  /\ ScopeAssumption /\ Task!TaskStateAssumption /\ Flow!FlowGraphAssumption
  /\ Dynamic!DynamicGraphAssumption /\ Coro!CoTaskAssumption /\ Loop!ParallelForAssumption
  /\ Ready!TaskStateAssumption

-----------------------------------------------------------------------------

allVars == <<which, vars, taskVars, flowVars, dynamicVars, coroVars, loopVars>>

MCInit ==
  /\ which \in Parts
  /\ Init /\ Task!Init /\ Flow!Init /\ Dynamic!Init /\ Coro!Init /\ Loop!Init
  /\ which # "flow" => gScript = Diamond
  /\ which # "coro" => cScript = Plain
  /\ which # "loop" => pKind = "range" /\ pCount = 0

MCNext ==
  /\ UNCHANGED which
  /\ \/ /\ which = "scope" /\ Next
        /\ UNCHANGED <<taskVars, flowVars, dynamicVars, coroVars, loopVars>>
     \/ /\ which = "task" /\ Task!Next
        /\ UNCHANGED <<vars, flowVars, dynamicVars, coroVars, loopVars>>
     \/ /\ which = "flow" /\ Flow!Next
        /\ UNCHANGED <<vars, taskVars, dynamicVars, coroVars, loopVars>>
     \/ /\ which = "dynamic" /\ Dynamic!Next
        /\ UNCHANGED <<vars, taskVars, flowVars, coroVars, loopVars>>
     \/ /\ which = "coro" /\ ~Lost /\ Coro!Next
        /\ UNCHANGED <<vars, taskVars, flowVars, dynamicVars, loopVars>>
     \/ /\ which = "loop" /\ Loop!Next
        /\ UNCHANGED <<vars, taskVars, flowVars, dynamicVars, coroVars>>
     \/ /\ Lost
        /\ UNCHANGED <<vars, taskVars, flowVars, dynamicVars, coroVars, loopVars>>

MCSpec == MCInit /\ [][MCNext]_allVars

\* The fairness of each component: the operating system schedules every thread.
Fairness ==
  /\ \A t \in Workers : WF_vars(which = "scope" /\ Step(t))
  /\ \A t \in Threads :
       /\ WF_taskVars(which = "task" /\ Task!Step(t))
       /\ WF_flowVars(which = "flow" /\ Flow!ThreadStep(t))
       /\ WF_dynamicVars(which = "dynamic" /\ Dynamic!ThreadStep(t))
       /\ WF_coroVars(which = "coro" /\ ~Lost /\ Coro!ThreadStep(t))
       /\ WF_loopVars(which = "loop" /\ Loop!ThreadStep(t))
  /\ WF_flowVars(which = "flow" /\ Flow!Build)
  /\ WF_coroVars(which = "coro" /\ ~Lost /\ Coro!MainStep)
  /\ WF_loopVars(which = "loop" /\ Loop!CallerStep)
MCFairSpec == MCSpec /\ Fairness

\* The program of Ready alone.
ReadyInit ==
  /\ which = "task"
  /\ Init /\ Ready!Init /\ Flow!Init /\ Dynamic!Init /\ Coro!Init /\ Loop!Init
  /\ gScript = Diamond /\ cScript = Plain /\ pKind = "range" /\ pCount = 0
ReadyNext == /\ Ready!Next
             /\ UNCHANGED <<which, vars, flowVars, dynamicVars, coroVars, loopVars>>
ReadySpec == /\ ReadyInit /\ [][ReadyNext]_allVars
             /\ \A t \in {th1, th2} : WF_taskVars(Ready!Step(t))

-----------------------------------------------------------------------------

\* The types of all variables; no count falls below 0.
TypesOK ==
  TypeOK /\ Task!TypeOK /\ Flow!TypeOK /\ Dynamic!TypeOK /\ Coro!TypeOK /\ Loop!TypeOK

\* No thread has the address of a task state, a node or a coroutine frame that is freed; the frame
\* of an awaiter is excepted where Lost says.
NoDangling ==
  /\ Task!NoDangling
  /\ Coro!OwnersAlive /\ Coro!RunnersAlive
  /\ Coro!AwaitersAlive \/ Lost

\* Whoever is parked waits for a task that is not complete or will be notified; a coroutine
\* is resumed by one thread at a time.
NoLostWakeup == Task!NoLostWakeup /\ Coro!OneRunner

\* TaskState implements Future: a task settles once, a continuation runs once and after it.
\* FlowGraph implements TaskGraph: each task of a run once, in order, and all of them.
Implements == Task!Implements /\ Flow!Implements

\* A graph that a wait has found finished is not touched by any thread any more: it may be
\* changed, started again or destroyed.
Quiet == Flow!Quiet /\ Dynamic!Quiet

\* A batch of a dynamic graph belongs to one firing, and no trigger is left over.
BatchExclusive == Dynamic!BatchExclusive /\ Dynamic!TriggersSpent

\* A parallel loop calls its function once for every element, and reports every exception.
VisitedOnce == Loop!VisitedOnce

\* wait(ctx) on a task that is complete returns: it does not terminate the program, which it
\* is meant to do when a task waits on an executing ancestor.
ReadyWaitReturns == Ready!ReadyWaitReturns

\* Every wait, join and loop returns, and nothing is left in the scheduler or in memory.
AllEnd ==
  <>(/\ which = "scope" => Idle
     /\ which = "task" => Task!AllFreed
     /\ which = "flow" => Flow!Idle
     /\ which = "dynamic" => Dynamic!Idle
     /\ which = "coro" => Coro!AllFreed \/ Lost
     /\ which = "loop" => Loop!Over)
=============================================================================
