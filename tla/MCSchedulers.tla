---------------------------- MODULE MCSchedulers ----------------------------
(***************************************************************************)
(* Versions 1 and 2 of the scheduler; a behaviour uses one of them.        *)
(***************************************************************************)
EXTENDS SchedulerV2, TLC

CONSTANTS
  Versions,  \* the versions that behaviours use
  Early,     \* whether version 1 runs the program of a wait that returns early
  ta, tb, tc, td, sem, mid, fin

VARIABLES
  which,
  oneQueue, oneTally, oneStatus, oneTokens, oneStop, oneEvent, onePc, oneWake,
  oneStack, oneAt, oneCtx, oneReg, oneSubmitted, oneDone

oneVars == <<oneQueue, oneTally, oneStatus, oneTokens, oneStop, oneEvent, onePc, oneWake,
            oneStack, oneAt, oneCtx, oneReg, oneSubmitted, oneDone>>

Do(o, x) == [op |-> o, arg |-> x]

-----------------------------------------------------------------------------
(* Version 1.  The main thread and worker 1 are in group 0; workers 1 and  *)
(* 2 in group 1, which worker 1 prefers and where a thread's index is not  *)
(* its offset.  Task ta submits to the other group and waits for that      *)
(* item; the main thread helps until ta is done.                           *)

BothScript ==
  (0 :> <<Do("begin", None), Do("submit", ta), Do("submit", tb), Do("cwait", fin),
          Do("block", mid), Do("waitall", None), Do("end", None)>>)
  @@ (ta :> <<Do("submit", tc), Do("cwait", sem), Do("signal", fin)>>)
  @@ (tb :> <<Do("signal", mid)>>) @@ (tc :> <<Do("signal", sem)>>)

\* Early: two workers and one group; the main thread waits for the tasks while one of them
\* submits another.
EarlyScript ==
  (0 :> <<Do("begin", None), Do("submit", ta), Do("waitall", None), Do("end", None)>>)
  @@ (ta :> <<Do("submit", tb)>>) @@ (tb :> <<>>)

OneWorkers == IF Early THEN 2 ELSE 3
OneGroups  == IF Early THEN {0} ELSE {0, 1}
OneStart   == IF Early THEN (0 :> 0) ELSE (0 :> 0) @@ (1 :> 1)
OneCount   == IF Early THEN (0 :> 2) ELSE (0 :> 2) @@ (1 :> 2)
OneTasks   == IF Early THEN {ta, tb} ELSE {ta, tb, tc}
OneDest    == IF Early THEN (ta :> 0) @@ (tb :> 0) ELSE (ta :> 0) @@ (tb :> 1) @@ (tc :> 1)
OneScript  == IF Early THEN EarlyScript ELSE BothScript
OneEvents  == {sem, mid, fin}
Order == INSTANCE SearchOrder WITH
  WorkerCount <- OneWorkers, Groups <- OneGroups, Start <- OneStart, Count <- OneCount,
  Priority <- OneStart
OnePlans == Order!WorkerPlans
One == INSTANCE SchedulerV1 WITH
  WorkerCount <- OneWorkers, Groups <- OneGroups, Start <- OneStart, Count <- OneCount,
  Priority <- OneStart, Tasks <- OneTasks, Dest <- OneDest, Script <- OneScript,
  Events <- OneEvents, RingCap <- 1, Plans <- OnePlans,
  queue <- oneQueue, tally <- oneTally, status <- oneStatus, tokens <- oneTokens,
  stop <- oneStop, event <- oneEvent, pc <- onePc, wake <- oneWake, stack <- oneStack,
  at <- oneAt, ctx <- oneCtx, reg <- oneReg, submitted <- oneSubmitted, done <- oneDone

-----------------------------------------------------------------------------
(* Version 2.  Two workers; group 0 has a slot for each, group 1 one.  The *)
(* main thread fills its own deque and waits first without helping, then   *)
(* helping; task ta fills the mailbox of the other group, so that it helps *)
(* before it can go on, and then waits until tc signals.                   *)

MCGroups == {0, 1}
MCSlots  == (0 :> 2) @@ (1 :> 1)
MCDest   == (ta :> 0) @@ (tb :> 0) @@ (tc :> 1) @@ (td :> 1)
MCScript ==
  (0 :> <<Do("begin", None), Do("submit", ta), Do("submit", tb), Do("block", fin),
          Do("waitall", None), Do("end", None)>>)
  @@ (ta :> <<Do("submit", tc), Do("submit", td), Do("cwait", sem), Do("signal", fin)>>)
  @@ (tb :> <<>>) @@ (tc :> <<Do("signal", sem)>>) @@ (td :> <<>>)

\* Two workers beside the main thread, which waits without helping, and a group with one
\* slot: the smallest program in which a worker that is about to park is in the way of the
\* one that is woken.
MCOneSlot     == (0 :> 1) @@ (1 :> 1)
MCBlockDest   == (ta :> 1) @@ (tb :> 1)
MCBlockScript ==
  (0 :> <<Do("begin", None), Do("submit", ta), Do("block", sem), Do("submit", tb), Do("block", fin),
          Do("end", None)>>)
  @@ (ta :> <<Do("signal", sem)>>)
  @@ (tb :> <<Do("signal", fin)>>)

ASSUME One!SchedulerAssumption

-----------------------------------------------------------------------------

MCInit == which \in Versions /\ Init /\ One!Init

MCNext == /\ UNCHANGED which
          /\ \/ which = "v1" /\ One!Next /\ UNCHANGED vars
             \/ which = "v2" /\ Next /\ UNCHANGED oneVars

\* The operating system schedules every thread.
MCSpec ==
  /\ MCInit /\ [][MCNext]_<<which, vars, oneVars>>
  /\ \A t \in 0 .. (OneWorkers - 1) : WF_oneVars(which = "v1" /\ One!Step(t))
  /\ \A t \in Threads : WF_vars(which = "v2" /\ Step(t))

-----------------------------------------------------------------------------

\* The types of all variables.
TypesOK == TypeOK /\ One!TypeOK

\* No task is lost or doubled, and tallies, counts and contexts agree with where the tasks are.
AllCounted == CountsExact /\ One!CountsExact

\* No worker sleeps while there is something queued for it and nobody is about to wake it.
NoneLeftAsleep == NoLostWakeup /\ One!NoLostWakeup

\* wait_for_tasks and end_execution return only when every submitted task has finished.
WaitsComplete == WaitComplete /\ One!WaitComplete

\* Version 1 alone.
OneWaitComplete == One!WaitComplete

\* Every program gets to its end, its tasks run, and the workers end.
ProgramsEnd == (which = "v1" => One!AllEnd) /\ (which = "v2" => AllEnd)
=============================================================================
