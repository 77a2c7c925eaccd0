---------------------------- MODULE SchedulerV3 ----------------------------
(***************************************************************************)
(* ouly::v3::scheduler: fixed workgroups, one work-stealing deque per      *)
(* member, one bounded mailbox per group, exact accounting in queued_ and  *)
(* pending_, and idle workers parked on one condition variable.            *)
(*                                                                         *)
(* A step is one access to shared memory (an atomic, a queue operation at  *)
(* its linearization point, the mutex, the condition variable) together    *)
(* with the local code up to the next one.  Memory is sequentially         *)
(* consistent.  Each queue operation is one step; an operation may also    *)
(* fail because it met another one half way, see LostRace and Unpublished. *)
(*                                                                         *)
(* What the clients of the scheduler do is a parameter: Script[x] is the   *)
(* list of calls made by thread x (the main thread, a foreign thread) or   *)
(* by the body of task x.                                                  *)
(***************************************************************************)
EXTENDS Integers, Sequences, FiniteSets

CONSTANTS
  WorkerCount,   \* workers are 0 .. WorkerCount - 1; worker 0 is the main thread
  Foreign,       \* threads of the program that are not workers of this scheduler
  Groups,        \* workgroup indices
  Start, Count, Priority,  \* the workgroup_desc of each group, as functions of Groups
  Tasks,         \* the tasks that may be submitted, each at most once
  Dest,          \* the workgroup each task is submitted to
  Script,        \* the calls of the main thread, of foreign threads and of task bodies
  Events,        \* binary semaphores used with cooperative_wait
  DequeCap,      \* Capacity of spmc_ring
  MailCap,       \* mailbox_capacity
  IdleSpins,     \* idle_spin_count_
  None

Workers == 0 .. (WorkerCount - 1)
Main    == 0
Threads == Workers \cup Foreign

Op == [op : {"begin", "submit", "signal", "cwait", "clear", "waitall", "end"},
       arg : Tasks \cup Events \cup Groups \cup {None}]

ASSUME ThreadAssumption == /\ WorkerCount \in Nat \ {0}
                           /\ Foreign \cap Workers = {}
                           /\ IsFiniteSet(Foreign)
                           /\ None \notin Tasks \cup Groups \cup Threads
ASSUME GroupAssumption  == /\ Groups \subseteq Nat
                           /\ Start \in [Groups -> Nat]
                           /\ Count \in [Groups -> Nat \ {0}]
                           /\ Priority \in [Groups -> Nat]
ASSUME TaskAssumption   == /\ Tasks \cap Threads = {}
                           /\ Dest \in [Tasks -> Groups]
                           /\ Script \in [{Main} \cup Foreign \cup Tasks -> Seq(Op)]
\* begin, wait_for_tasks and end are called by the main thread, waits on events by workers.
ASSUME ScriptAssumption ==
  \A x \in DOMAIN Script : \A i \in DOMAIN Script[x] :
    LET c == Script[x][i] IN
      /\ c.op = "submit" => c.arg \in Tasks
      /\ c.op = "clear" => c.arg \in Groups
      /\ c.op \in {"signal", "cwait"} => c.arg \in Events
      /\ c.op \in {"begin", "waitall", "end"} => x = Main
      /\ c.op = "cwait" => x \notin Foreign
\* A task stands for one submission: no two calls submit the same one.
ASSUME OnceAssumption ==
  \A x, y \in DOMAIN Script : \A i \in DOMAIN Script[x], j \in DOMAIN Script[y] :
    Script[x][i].op = "submit" /\ Script[y][j] = Script[x][i] => x = y /\ i = j
ASSUME SizeAssumption   == /\ DequeCap \in Nat \ {0}
                           /\ MailCap \in Nat \ {0}
                           /\ IdleSpins \in Nat

Members(g)  == {w \in Workers : Start[g] <= w /\ w < Start[g] + Count[g]}
GroupsOf(t) == {g \in Groups : t \in Members(g)}

\* group_order_: higher priority first, then the smaller index.
Precedes(g, h) == \/ Priority[g] > Priority[h]
                  \/ Priority[g] = Priority[h] /\ g <= h
IsFirst(g, gs) == g \in gs /\ \A h \in gs : Precedes(g, h)

VARIABLES
  deque,      \* deque[g][w]: the spmc_ring of member w of group g, oldest item first
              \* (empty for ever if w is not a member)
  mailbox,    \* mailbox[g]: the mpmc_ring of group g
  queued,     \* queued_ of each workgroup
  pending,    \* pending_
  stop,       \* stop_
  up,         \* between the end of begin_execution and the end of end_execution
  event,      \* counts of the binary semaphores
  pc,         \* where each thread is
  ret,        \* where notify_workers returns to
  stack,      \* the tasks on each thread's stack, with the context each one replaced
  at,         \* position in each script
  ctx,        \* group_id_ of the context of each worker
  reg,        \* locals of try_execute_one, take, take_any, of the waiting predicate and of
              \* the loops that repeat try_execute_one
  submitted,  \* history: tasks submitted, finished and dropped
  done,
  dropped

queueVars == <<deque, mailbox, queued>>
flowVars  == <<stack, at, ctx>>
histVars  == <<submitted, done, dropped>>
vars == <<deque, mailbox, queued, pending, stop, up, event, pc, ret, stack, at,
          ctx, reg, submitted, done, dropped>>

PCs == {"user", "push_local", "push_mail", "advertise", "notify_lock", "notify_all",
        "try", "take_own", "take_mail", "take_steal", "sink", "chain", "exec",
        "entry", "loop", "exited", "latch", "wait_snapshot", "set_stop", "join",
        "park_lock", "park_check", "park_wait", "asleep",
        "clear_mail", "clear_steal", "clear_sink", "clear_finish"}

\* Where a thread may go on after notify_workers.
Returns == {"user", "push_mail", "try", "exec", "loop", "join", "clear_mail"}

EmptyDeques == [g \in Groups |-> [w \in Workers |-> <<>>]]
NoRegs == [cand |-> {}, grp |-> None, victims |-> {}, item |-> None, spins |-> 0]

Init ==
  /\ deque   = EmptyDeques
  /\ mailbox = [g \in Groups |-> <<>>]
  /\ queued  = [g \in Groups |-> 0]
  /\ pending = 0
  /\ stop = FALSE
  /\ up = FALSE
  /\ event = [e \in Events |-> 0]
  /\ pc  = [t \in Threads |-> IF t \in Workers \ {Main} THEN "exited" ELSE "user"]
  /\ ret = [t \in Threads |-> "user"]
  /\ stack = [t \in Threads |-> <<>>]
  /\ at  = [x \in {Main} \cup Foreign \cup Tasks |-> 1]
  /\ ctx = [w \in Workers |-> None]
  /\ reg = [t \in Threads |-> NoRegs]
  /\ submitted = {}
  /\ done = {}
  /\ dropped = {}

-----------------------------------------------------------------------------
(* Control: the running frame of a thread and its current call.            *)

Top(t)   == stack[t][Len(stack[t])]
Frame(t) == IF stack[t] = <<>> THEN t ELSE Top(t).task
\* The base frame of a worker other than the main thread is run_worker itself.
InLoop(t) == stack[t] = <<>> /\ t \in Workers \ {Main}
HasCall(t) == ~InLoop(t) /\ at[Frame(t)] <= Len(Script[Frame(t)])
Call(t)  == Script[Frame(t)][at[Frame(t)]]
Calls(t, op) == HasCall(t) /\ Call(t).op = op
\* Thread t is at l inside a call of op.
In(t, op, l) == pc[t] = l /\ Calls(t, op)
Waits(t) == Calls(t, "waitall") \/ Calls(t, "end")

Goto(t, l) == pc' = [pc EXCEPT ![t] = l]
\* notify_workers takes and drops the mutex, notifies all, then goes on at l.
NotifyThen(t, l) == /\ pc'  = [pc EXCEPT ![t] = "notify_lock"]
                    /\ ret' = [ret EXCEPT ![t] = l]
Advance(t) == at' = [at EXCEPT ![Frame(t)] = @ + 1]
Found(t, g, k) == reg' = [reg EXCEPT ![t] = [NoRegs EXCEPT !.grp = g, !.item = k]]
Forget(t)  == reg' = [reg EXCEPT ![t] = NoRegs]

\* Mutant: a worker examines every group, not only its own.
RetryEverywhere(t, n) == reg' = [reg EXCEPT ![t].cand = Groups, ![t].spins = n]

\* try_execute_one, to be repeated n times if it finds nothing: every group of the
\* worker is still to be examined.
Retry(t, n) == reg' = [reg EXCEPT ![t].cand = GroupsOf(t), ![t].spins = n]
TryOne(t)   == Goto(t, "try") /\ Retry(t, 0)

\* Another thread has just taken an item of group g: it has moved the index that a thief
\* compares, and may not have freed the slot that a producer needs.
LostRace(t, g) == \E u \in Threads \ {t} : pc[u] \in {"sink", "clear_sink"} /\ reg[u].grp = g
\* Another thread has just claimed a mailbox slot, and may not have published it.
Unpublished(t, g) == \E u \in Threads \ {t} : pc[u] = "advertise" /\ Dest[Call(u).arg] = g

MutexFree == \A t \in Threads : pc[t] \notin {"park_check", "park_wait"}

-----------------------------------------------------------------------------
(* begin_execution and run_worker.                                         *)

Begin ==
  /\ In(Main, "begin", "user")
  /\ ~up
  /\ deque'   = EmptyDeques
  /\ mailbox' = [g \in Groups |-> <<>>]
  /\ queued'  = [g \in Groups |-> 0]
  /\ pending' = 0
  /\ stop' = FALSE
  /\ ctx' \in [Workers -> Groups \cup {None}]
  /\ \A w \in Workers : IF GroupsOf(w) = {} THEN ctx'[w] = None
                                             ELSE IsFirst(ctx'[w], GroupsOf(w))
  /\ pc' = [t \in Threads |-> IF t \in Workers \ {Main} THEN "entry"
                              ELSE IF t = Main THEN "latch" ELSE pc[t]]
  /\ UNCHANGED <<up, event, ret, stack, at, reg, histVars>>

\* entry_fn_: the worker counts the latch down and enters its loop.
Entry(w) == /\ pc[w] = "entry"
            /\ Goto(w, "loop")
            /\ UNCHANGED <<queueVars, pending, stop, up, event, ret, flowVars, reg, histVars>>

\* start_counter.wait() returns once every worker has counted down.
Latch == /\ pc[Main] = "latch"
         /\ \A w \in Workers : pc[w] # "entry"
         /\ up' = TRUE
         /\ Goto(Main, "user")
         /\ Advance(Main)
         /\ UNCHANGED <<queueVars, pending, stop, event, ret, stack, ctx, reg, histVars>>

\* The head of run_worker's loop: leave, or try to execute one item.
LoopHead(w) ==
  /\ pc[w] = "loop"
  /\ \/ stop  /\ Goto(w, "exited") /\ UNCHANGED reg
     \/ ~stop /\ Goto(w, "try") /\ Retry(w, IdleSpins)
  /\ UNCHANGED <<queueVars, pending, stop, up, event, ret, flowVars, histVars>>

-----------------------------------------------------------------------------
(* submit_internal; the program submits between begin_execution and        *)
(* end_execution.                                                          *)

Submit(t) ==
  /\ In(t, "submit", "user")
  /\ up
  /\ LET k == Call(t).arg IN
       /\ pending' = pending + 1
       /\ submitted' = submitted \cup {k}
       /\ Goto(t, IF t \in Members(Dest[k]) THEN "push_local" ELSE "push_mail")
  /\ UNCHANGED <<queueVars, stop, up, event, ret, flowVars, reg, done, dropped>>

\* Mutant: the result of push_back is ignored.
PushLocalUnchecked(t) ==
  /\ In(t, "submit", "push_local")
  /\ LET k == Call(t).arg
         g == Dest[k] IN
       deque' = [deque EXCEPT ![g][t] = IF Len(@) < DequeCap THEN Append(@, k) ELSE @]
  /\ Goto(t, "advertise")
  /\ UNCHANGED <<mailbox, queued, pending, stop, up, event, ret, flowVars, reg, histVars>>

\* push_local: only the owner of a deque pushes to it; a full deque sends it to the mailbox.
PushLocal(t) ==
  /\ In(t, "submit", "push_local")
  /\ LET k == Call(t).arg
         g == Dest[k] IN
       \/ /\ Len(deque[g][t]) < DequeCap
          /\ deque' = [deque EXCEPT ![g][t] = Append(@, k)]
          /\ Goto(t, "advertise")
       \/ /\ Len(deque[g][t]) >= DequeCap
          /\ Goto(t, "push_mail")
          /\ UNCHANGED deque
  /\ UNCHANGED <<mailbox, queued, pending, stop, up, event, ret, flowVars, reg, histVars>>

\* push_mailbox, retried until it succeeds: a worker helps in between (busy_work, two
\* attempts), another thread yields.
PushMail(t) ==
  /\ In(t, "submit", "push_mail")
  /\ LET k == Call(t).arg
         g == Dest[k] IN
       \/ /\ Len(mailbox[g]) < MailCap
          /\ mailbox' = [mailbox EXCEPT ![g] = Append(@, k)]
          /\ Goto(t, "advertise")
          /\ UNCHANGED <<ret, reg>>
       \/ /\ Len(mailbox[g]) >= MailCap \/ LostRace(t, g)
          /\ NotifyThen(t, IF t \in Workers THEN "try" ELSE "push_mail")
          /\ Retry(t, 1)
          /\ UNCHANGED mailbox
  /\ UNCHANGED <<deque, queued, pending, stop, up, event, flowVars, histVars>>

\* queued_.fetch_add after the push, then the notification that ends the call.
Advertise(t) ==
  /\ In(t, "submit", "advertise")
  /\ queued' = [queued EXCEPT ![Dest[Call(t).arg]] = @ + 1]
  /\ Advance(t)
  /\ NotifyThen(t, "user")
  /\ UNCHANGED <<deque, mailbox, pending, stop, up, event, stack, ctx, reg, histVars>>

-----------------------------------------------------------------------------
(* notify_workers.                                                         *)

\* Mutant: notify without taking the mutex.
NotifyUnlocked(t) ==
  /\ pc[t] = "notify_lock"
  /\ Goto(t, "notify_all")
  /\ UNCHANGED <<queueVars, pending, stop, up, event, ret, flowVars, reg, histVars>>

NotifyLock(t) ==
  /\ pc[t] = "notify_lock"
  /\ MutexFree
  /\ Goto(t, "notify_all")
  /\ UNCHANGED <<queueVars, pending, stop, up, event, ret, flowVars, reg, histVars>>

\* notify_all: every sleeper goes on to take the mutex again.
NotifyAll(t) ==
  /\ pc[t] = "notify_all"
  /\ pc' = [u \in Threads |-> IF u = t THEN ret[t]
                              ELSE IF pc[u] = "asleep" THEN "park_lock" ELSE pc[u]]
  /\ ret' = [ret EXCEPT ![t] = "user"]
  /\ UNCHANGED <<queueVars, pending, stop, up, event, flowVars, reg, histVars>>

\* Mutant: the end of the last task is not notified.
FinishSilently(t, l) == pending' = pending - 1 /\ Goto(t, l) /\ UNCHANGED ret

\* finish_task; clear_group does the same for each item it drops.
FinishTask(t, l) ==
  /\ pending' = pending - 1
  /\ \/ pending = 1 /\ NotifyThen(t, l)
     \/ pending # 1 /\ Goto(t, l) /\ UNCHANGED ret

-----------------------------------------------------------------------------
(* try_execute_one, workgroup::take and execute_work.                      *)

\* Nothing was found: repeat, or go on with the caller of try_execute_one.  The idle spin
\* of run_worker looks at stop_ after each of its own attempts.
Repeats(t) == reg[t].spins > 0 /\ ~(InLoop(t) /\ stop /\ reg[t].spins < IdleSpins)
Caller(t)  == CASE InLoop(t)           -> "park_lock"
                [] Calls(t, "submit")  -> "push_mail"
                [] Calls(t, "cwait")   -> "user"
                [] OTHER               -> "wait_snapshot"

\* Examine the next group: skip it unless has_queued(); give up after the last one.
TryGroup(t) ==
  /\ pc[t] = "try"
  /\ \/ /\ reg[t].cand = {}
        /\ \/ Repeats(t)  /\ Goto(t, "try") /\ Retry(t, reg[t].spins - 1)
           \/ ~Repeats(t) /\ Goto(t, Caller(t)) /\ Forget(t)
     \/ \E g \in reg[t].cand :
          /\ IsFirst(g, reg[t].cand)
          /\ \/ /\ queued[g] <= 0
                /\ reg' = [reg EXCEPT ![t].cand = @ \ {g}]
                /\ UNCHANGED pc
             \/ /\ queued[g] > 0
                /\ reg' = [reg EXCEPT ![t].cand = @ \ {g}, ![t].grp = g]
                /\ Goto(t, "take_own")
  /\ UNCHANGED <<queueVars, pending, stop, up, event, ret, flowVars, histVars>>

\* The worker's own deque, newest item first.
TakeOwn(t) ==
  /\ pc[t] = "take_own"
  /\ LET d == deque[reg[t].grp][t] IN
       \/ /\ d # <<>>
          /\ deque' = [deque EXCEPT ![reg[t].grp][t] = SubSeq(d, 1, Len(d) - 1)]
          /\ Found(t, reg[t].grp, d[Len(d)])
          /\ Goto(t, "sink")
       \/ /\ d = <<>>
          /\ Goto(t, "take_mail")
          /\ UNCHANGED <<deque, reg>>
  /\ UNCHANGED <<mailbox, queued, pending, stop, up, event, ret, flowVars, histVars>>

TakeMail(t) ==
  /\ pc[t] = "take_mail"
  /\ LET g == reg[t].grp IN
       \/ /\ mailbox[g] # <<>>
          /\ mailbox' = [mailbox EXCEPT ![g] = Tail(@)]
          /\ Found(t, g, Head(mailbox[g]))
          /\ Goto(t, "sink")
       \/ /\ mailbox[g] = <<>> \/ Unpublished(t, g)
          /\ reg' = [reg EXCEPT ![t].victims = Members(g) \ {t}]
          /\ Goto(t, "take_steal")
          /\ UNCHANGED mailbox
  /\ UNCHANGED <<deque, queued, pending, stop, up, event, ret, flowVars, histVars>>

\* Steal the oldest item of a sibling; the random start makes the order arbitrary.
TakeSteal(t) ==
  /\ pc[t] = "take_steal"
  /\ LET g == reg[t].grp IN
       \/ /\ reg[t].victims = {}
          /\ Goto(t, "try")
          /\ reg' = [reg EXCEPT ![t].grp = None]
          /\ UNCHANGED deque
       \/ \E v \in reg[t].victims :
            \/ /\ deque[g][v] # <<>>
               /\ deque' = [deque EXCEPT ![g][v] = Tail(@)]
               /\ Found(t, g, Head(deque[g][v]))
               /\ Goto(t, "sink")
            \/ /\ deque[g][v] = <<>> \/ LostRace(t, g)
               /\ reg' = [reg EXCEPT ![t].victims = @ \ {v}]
               /\ UNCHANGED <<deque, pc>>
  /\ UNCHANGED <<mailbox, queued, pending, stop, up, event, ret, flowVars, histVars>>

\* sink_one: the item leaves the count of queued items before it executes.
Sink(t) ==
  /\ pc[t] = "sink"
  /\ queued' = [queued EXCEPT ![reg[t].grp] = @ - 1]
  /\ Goto(t, "chain")
  /\ UNCHANGED <<deque, mailbox, pending, stop, up, event, ret, flowVars, reg, histVars>>

\* Wake chaining: items remain queued, so notify before executing this one.
Chain(t) ==
  /\ pc[t] = "chain"
  /\ \/ queued[reg[t].grp] > 0  /\ NotifyThen(t, "exec")
     \/ queued[reg[t].grp] <= 0 /\ Goto(t, "exec") /\ UNCHANGED ret
  /\ UNCHANGED <<queueVars, pending, stop, up, event, flowVars, reg, histVars>>

\* execute_work, up to the call of the task: the context moves to the task's group.
Exec(t) ==
  /\ pc[t] = "exec"
  /\ stack' = [stack EXCEPT ![t] = Append(@, [task |-> reg[t].item, saved |-> ctx[t]])]
  /\ ctx' = [ctx EXCEPT ![t] = reg[t].grp]
  /\ Forget(t)
  /\ Goto(t, "user")
  /\ UNCHANGED <<queueVars, pending, stop, up, event, ret, at, histVars>>

\* Mutant: the context stays that of the task that just ran.
KeepContext(t) == UNCHANGED ctx

\* The context goes back to what it was before the task.
RestoreContext(t) == ctx' = [ctx EXCEPT ![t] = Top(t).saved]

\* execute_work after the task returned, and finish_task.
EndTask(t) ==
  /\ pc[t] = "user"
  /\ stack[t] # <<>>
  /\ ~HasCall(t)
  /\ LET below == SubSeq(stack[t], 1, Len(stack[t]) - 1)
         f     == IF below = <<>> THEN t ELSE below[Len(below)].task
         next  == IF below = <<>> /\ t \in Workers \ {Main} THEN "loop"
                  ELSE IF Script[f][at[f]].op = "submit" THEN "push_mail" ELSE "user"
     IN  /\ RestoreContext(t)
         /\ stack' = [stack EXCEPT ![t] = below]
         /\ done' = done \cup {Top(t).task}
         /\ FinishTask(t, next)
  /\ UNCHANGED <<queueVars, stop, up, event, at, reg, submitted, dropped>>

-----------------------------------------------------------------------------
(* Calls of a task body other than submit.                                 *)

Signal(t) ==
  /\ In(t, "signal", "user")
  /\ event' = [event EXCEPT ![Call(t).arg] = 1]
  /\ Advance(t)
  /\ UNCHANGED <<queueVars, pending, stop, up, pc, ret, stack, ctx, reg, histVars>>

\* cooperative_wait: take the event or help; the timed wait only polls it again.
CoopWait(t) ==
  /\ In(t, "cwait", "user")
  /\ LET e == Call(t).arg IN
       \/ /\ event[e] = 1
          /\ event' = [event EXCEPT ![e] = 0]
          /\ Advance(t)
          /\ UNCHANGED <<pc, reg>>
       \/ /\ event[e] = 0
          /\ TryOne(t)
          /\ UNCHANGED <<event, at>>
  /\ UNCHANGED <<queueVars, pending, stop, up, ret, stack, ctx, histVars>>

-----------------------------------------------------------------------------
(* clear_group: take_any until it fails, balancing pending_ for each item. *)

ClearBegin(t) ==
  /\ In(t, "clear", "user")
  /\ t \in Foreign => up
  /\ Goto(t, "clear_mail")
  /\ UNCHANGED <<queueVars, pending, stop, up, event, ret, flowVars, reg, histVars>>

ClearMail(t) ==
  /\ In(t, "clear", "clear_mail")
  /\ LET g == Call(t).arg IN
       \/ /\ mailbox[g] # <<>>
          /\ mailbox' = [mailbox EXCEPT ![g] = Tail(@)]
          /\ Found(t, g, Head(mailbox[g]))
          /\ Goto(t, "clear_sink")
       \/ /\ mailbox[g] = <<>> \/ Unpublished(t, g)
          /\ reg' = [reg EXCEPT ![t].victims = Members(g)]
          /\ Goto(t, "clear_steal")
          /\ UNCHANGED mailbox
  /\ UNCHANGED <<deque, queued, pending, stop, up, event, ret, flowVars, histVars>>

ClearSteal(t) ==
  /\ In(t, "clear", "clear_steal")
  /\ LET g == Call(t).arg IN
       \/ /\ reg[t].victims = {}
          /\ Advance(t)
          /\ Goto(t, "user")
          /\ Forget(t)
          /\ UNCHANGED deque
       \/ \E v \in reg[t].victims :
            /\ \A w \in reg[t].victims : v <= w
            /\ UNCHANGED at
            /\ \/ /\ deque[g][v] # <<>>
                  /\ deque' = [deque EXCEPT ![g][v] = Tail(@)]
                  /\ Found(t, g, Head(deque[g][v]))
                  /\ Goto(t, "clear_sink")
               \/ /\ deque[g][v] = <<>> \/ LostRace(t, g)
                  /\ reg' = [reg EXCEPT ![t].victims = @ \ {v}]
                  /\ UNCHANGED <<deque, pc>>
  /\ UNCHANGED <<mailbox, queued, pending, stop, up, event, ret, stack, ctx, histVars>>

ClearSink(t) ==
  /\ In(t, "clear", "clear_sink")
  /\ queued' = [queued EXCEPT ![Call(t).arg] = @ - 1]
  /\ Goto(t, "clear_finish")
  /\ UNCHANGED <<deque, mailbox, pending, stop, up, event, ret, flowVars, reg, histVars>>

\* Mutant: the dropped item stays pending.
ClearUnbalanced(t) ==
  /\ In(t, "clear", "clear_finish")
  /\ dropped' = dropped \cup {reg[t].item}
  /\ Forget(t)
  /\ Goto(t, "clear_mail")
  /\ UNCHANGED <<queueVars, pending, stop, up, event, ret, flowVars, submitted, done>>

ClearFinish(t) ==
  /\ In(t, "clear", "clear_finish")
  /\ dropped' = dropped \cup {reg[t].item}
  /\ Forget(t)
  /\ FinishTask(t, "clear_mail")
  /\ UNCHANGED <<queueVars, stop, up, event, flowVars, submitted, done>>

-----------------------------------------------------------------------------
(* wait_for_tasks and end_execution.  A wait is in progress while the      *)
(* main thread is at its waitall or end call.                              *)

WaitOver(t) == IF Calls(t, "end") THEN Goto(t, "set_stop") /\ UNCHANGED at
                                  ELSE Goto(t, "user") /\ Advance(t)

WaitLoad(t) ==
  /\ pc[t] = "user" /\ Waits(t)
  \* The program calls end_execution only when no foreign thread still submits.
  /\ Calls(t, "end") => \A f \in Foreign : pc[f] = "user" /\ ~HasCall(f)
  /\ \/ pending = 0 /\ WaitOver(t) /\ UNCHANGED reg
     \/ pending # 0 /\ TryOne(t)   /\ UNCHANGED at
  /\ UNCHANGED <<queueVars, pending, stop, up, event, ret, stack, ctx, histVars>>

\* Mutant: the wait ends when nothing is queued.
WaitQueued(t) ==
  /\ pc[t] = "wait_snapshot"
  /\ \/ (\A g \in Groups : queued[g] <= 0) /\ WaitOver(t)
     \/ (\E g \in Groups : queued[g] > 0) /\ Goto(t, "park_lock") /\ UNCHANGED at
  /\ UNCHANGED <<queueVars, pending, stop, up, event, ret, stack, ctx, reg, histVars>>

WaitSnapshot(t) ==
  /\ pc[t] = "wait_snapshot"
  /\ \/ pending = 0 /\ WaitOver(t)
     \/ pending # 0 /\ Goto(t, "park_lock") /\ UNCHANGED at
  /\ UNCHANGED <<queueVars, pending, stop, up, event, ret, stack, ctx, reg, histVars>>

\* Mutant: the workers that sleep are not notified.
SetStopSilently(t) ==
  /\ pc[t] = "set_stop"
  /\ stop' = TRUE
  /\ Goto(t, "join")
  /\ UNCHANGED <<queueVars, pending, up, event, ret, flowVars, reg, histVars>>

SetStop(t) ==
  /\ pc[t] = "set_stop"
  /\ stop' = TRUE
  /\ NotifyThen(t, "join")
  /\ UNCHANGED <<queueVars, pending, up, event, flowVars, reg, histVars>>

Join(t) ==
  /\ pc[t] = "join"
  /\ \A w \in Workers \ {Main} : pc[w] = "exited"
  /\ up' = FALSE
  /\ Goto(t, "user")
  /\ Advance(t)
  /\ UNCHANGED <<queueVars, pending, stop, event, ret, stack, ctx, reg, histVars>>

-----------------------------------------------------------------------------
(* Parking: work_available_.wait(lock, predicate).  The predicate reads    *)
(* stop_ (in wait_for_tasks: pending_), then queued_ of one group after    *)
(* the other; the thread holds the mutex until it sleeps or goes on.       *)

Called(t) == IF InLoop(t) THEN stop ELSE pending = 0
Resume(t) == Goto(t, IF InLoop(t) THEN "loop" ELSE "user")

ParkLock(t) ==
  /\ pc[t] = "park_lock"
  /\ MutexFree
  /\ Goto(t, "park_check")
  /\ UNCHANGED <<queueVars, pending, stop, up, event, ret, flowVars, reg, histVars>>

ParkCheck(t) ==
  /\ pc[t] = "park_check"
  /\ \/ Called(t)  /\ Resume(t) /\ UNCHANGED reg
     \/ ~Called(t) /\ Goto(t, "park_wait") /\ Retry(t, 0)
  /\ UNCHANGED <<queueVars, pending, stop, up, event, ret, flowVars, histVars>>

ParkWait(t) ==
  /\ pc[t] = "park_wait"
  /\ \/ /\ reg[t].cand = {}
        /\ Goto(t, "asleep")
        /\ UNCHANGED reg
     \/ \E g \in reg[t].cand :
          /\ IsFirst(g, reg[t].cand)
          /\ \/ /\ queued[g] > 0
                /\ Resume(t)
                /\ Forget(t)
             \/ /\ queued[g] <= 0
                /\ reg' = [reg EXCEPT ![t].cand = @ \ {g}]
                /\ UNCHANGED pc
  /\ UNCHANGED <<queueVars, pending, stop, up, event, ret, flowVars, histVars>>

\* A condition variable may wake its waiters for no reason.
SpuriousWake(t) ==
  /\ pc[t] = "asleep"
  /\ Goto(t, "park_lock")
  /\ UNCHANGED <<queueVars, pending, stop, up, event, ret, flowVars, reg, histVars>>

-----------------------------------------------------------------------------

\* The steps a thread takes on its own.
Step(t) ==
  \/ t = Main /\ (Begin \/ Latch)
  \/ Submit(t) \/ PushLocal(t) \/ PushMail(t) \/ Advertise(t) \/ NotifyAll(t)
  \/ TryGroup(t) \/ TakeOwn(t) \/ TakeMail(t) \/ TakeSteal(t) \/ Sink(t) \/ Chain(t)
  \/ Exec(t) \/ EndTask(t) \/ Signal(t) \/ CoopWait(t)
  \/ ClearBegin(t) \/ ClearMail(t) \/ ClearSteal(t) \/ ClearSink(t) \/ ClearFinish(t)
  \/ WaitLoad(t) \/ WaitSnapshot(t) \/ SetStop(t) \/ Join(t)
  \/ Entry(t) \/ LoopHead(t) \/ ParkCheck(t) \/ ParkWait(t)
\* The steps that take the mutex.
Lock(t) == NotifyLock(t) \/ ParkLock(t)

\* The program has made all its calls.
Finished == /\ \A t \in {Main} \cup Foreign : pc[t] = "user" /\ ~HasCall(t)
            /\ UNCHANGED vars

Next == \/ \E t \in Threads : Step(t) \/ Lock(t) \/ SpuriousWake(t)
        \/ Finished

Spec == Init /\ [][Next]_vars

\* Threads are scheduled fairly, and a mutex that keeps becoming free is granted.
Fairness == \A t \in Threads : WF_vars(Step(t)) /\ SF_vars(Lock(t))
FairSpec == Spec /\ Fairness

-----------------------------------------------------------------------------
(* Properties.                                                             *)

Live == submitted \ (done \cup dropped)

\* Every variable has its type, and the locals of a thread that takes an item name a
\* group the thread may take from, and the item once it has one.
Taking  == {"take_own", "take_mail", "take_steal", "sink", "chain", "exec"}
Holding == {"sink", "chain", "exec", "clear_sink", "clear_finish"}
Heading(t) == IF pc[t] \in {"notify_lock", "notify_all"} THEN ret[t] ELSE pc[t]
LocalsOK(t) == /\ reg[t].cand \subseteq GroupsOf(t)
               /\ Heading(t) \in Taking => reg[t].grp \in GroupsOf(t)
               /\ Heading(t) \in Holding => reg[t].item \in Tasks
Types ==
  /\ deque   \in [Groups -> [Workers -> Seq(Tasks)]]
  /\ mailbox \in [Groups -> Seq(Tasks)]
  /\ queued  \in [Groups -> Int]
  /\ pending \in Int
  /\ stop \in BOOLEAN
  /\ up \in BOOLEAN
  /\ event \in [Events -> {0, 1}]
  /\ pc  \in [Threads -> PCs]
  /\ ret \in [Threads -> Returns]
  /\ stack \in [Threads -> Seq([task : Tasks, saved : Groups \cup {None}])]
  /\ at  \in [{Main} \cup Foreign \cup Tasks -> Nat \ {0}]
  /\ ctx \in [Workers -> Groups \cup {None}]
  /\ reg \in [Threads -> [cand : SUBSET Groups, grp : Groups \cup {None},
                          victims : SUBSET Workers, item : Tasks \cup {None},
                          spins : Nat]]
  /\ submitted \subseteq Tasks
  /\ done \subseteq Tasks
  /\ dropped \subseteq Tasks
TypeOK == Types /\ \A t \in Threads : LocalsOK(t)

\* Where a task is: on its way to a queue (its submitter may be helping meanwhile), in a
\* queue, in the hands of the thread that took it, or on the stack of the one that runs it.
Frames(t)  == {t} \cup {stack[t][i].task : i \in DOMAIN stack[t]}
Pushing(t, x, k) ==
  /\ k \in submitted
  /\ x \notin Workers \ {Main}
  /\ at[x] <= Len(Script[x])
  /\ Script[x][at[x]] = [op |-> "submit", arg |-> k]
  /\ ~(x = Frame(t) /\ pc[t] = "advertise")
Queues(g)  == {<<deque[g][w], w>> : w \in Workers} \cup {<<mailbox[g], None>>}
InQueue(k, g) == UNION {{<<q[2], i>> : i \in {j \in DOMAIN q[1] : q[1][j] = k}} : q \in Queues(g)}
PushPlaces(k) ==
  UNION {{<<"push", t, x>> : x \in {y \in Frames(t) : Pushing(t, y, k)}} : t \in Threads}
QueuePlaces(k) == UNION {{<<"queue", g, p>> : p \in InQueue(k, g)} : g \in Groups}
HandPlaces(k)  == {<<"hand", t>> : t \in {u \in Threads : reg[u].item = k}}
StackPlaces(k) ==
  UNION {{<<"stack", t, i>> : i \in {j \in DOMAIN stack[t] : stack[t][j].task = k}} : t \in Threads}
Places(k) == PushPlaces(k) \cup QueuePlaces(k) \cup HandPlaces(k) \cup StackPlaces(k)

\* A submitted task is in exactly one place until it has finished or was dropped, and then
\* nowhere: no interleaving of owners, thieves, helpers and clear_group loses it or runs
\* it twice.
Conserved == \A k \in Tasks : Cardinality(Places(k)) = IF k \in Live THEN 1 ELSE 0

\* pending_ counts exactly the tasks that were submitted and have not finished or been
\* dropped, whatever submitters, helpers and clear_group are in the middle of.  queued_ of a
\* group is the number of its queued items, except for the pushes not yet counted and the
\* takes not yet discounted: it may be -1 for a moment, never drifts.
CountsExact ==
  /\ pending = Cardinality(Live)
  /\ \A g \in Groups :
       queued[g] = Cardinality(UNION {InQueue(k, g) : k \in Tasks})
                   + Cardinality({t \in Threads : pc[t] \in {"sink", "clear_sink"} /\ reg[t].grp = g})
                   - Cardinality({t \in Threads : pc[t] = "advertise" /\ Dest[Call(t).arg] = g})

\* A thread that sleeps although it has work, or although it should stop, will be
\* notified: somebody is between changing queued_ or stop_ and notify_all.
HasQueued(t) == \E g \in GroupsOf(t) : queued[g] > 0
Notifying    == \E u \in Threads : pc[u] \in {"notify_lock", "notify_all"}
NoLostWakeup ==
  \A t \in Threads :
    pc[t] = "asleep" /\ (HasQueued(t) \/ (InLoop(t) /\ stop)) => Notifying

\* The same for the main thread in wait_for_tasks and the end of the last task.
NoLostFinish == pc[Main] = "asleep" /\ pending = 0 => Notifying

\* The context a running task sees is the one of the group it was submitted to, also
\* after the task has helped with tasks of other groups.
CtxMatchesTask ==
  \A w \in Workers : stack[w] # <<>> => ctx[w] = Dest[Top(w).task]

\* wait_for_tasks and end_execution return only when every task that was submitted has
\* finished or was dropped.
WaitComplete ==
  [][Waits(Main) /\ at'[Main] # at[Main] => submitted' = done' \cup dropped']_vars

\* Under fair scheduling the program gets to its end: no submitter, waiter or worker is
\* stuck for ever, every task is executed or dropped, and end_execution joins the workers.
AllEnd == <>(~HasCall(Main) /\ \A w \in Workers \ {Main} : pc[w] = "exited")

=============================================================================
