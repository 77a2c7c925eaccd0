---------------------------- MODULE SchedulerV2 ----------------------------
(***************************************************************************)
(* ouly::v2::scheduler: workers that migrate between workgroups.  A worker *)
(* that looks for work enters a group by claiming one of its slots, each   *)
(* with a work-stealing deque, and leaves it before it parks.  Producers   *)
(* bump an epoch, read the number of sleepers, and release wake tokens.    *)
(*                                                                         *)
(* A step is one access to shared memory with the local code up to the     *)
(* next one; memory is sequentially consistent.  Queue operations are      *)
(* atomic and may fail spuriously as those of SchedulerV3 may.  The clients*)
(* are given by Script, as in SchedulerV3.  Groups have at most 64 slots   *)
(* (small_mask_); the bitfield for more is not modelled.                   *)
(***************************************************************************)
EXTENDS Integers, Sequences, FiniteSets

CONSTANTS
  WorkerCount,   \* workers are 0 .. WorkerCount - 1; worker 0 is the main thread
  Foreign,       \* threads of the program that are not workers of this scheduler
  Groups,        \* workgroup indices
  Slots,         \* thread_count_ of each group
  Tasks,         \* the tasks that may be submitted, each at most once
  Dest,          \* the workgroup each task is submitted to
  Script,        \* the calls of the main thread, of foreign threads and of task bodies
  Events,        \* binary semaphores used with cooperative_wait
  DequeCap,      \* Capacity of spmc_ring
  MailCap,       \* mpmc_capacity
  HelpRetries,   \* max_attempts - 1 of busy_work
  TokenBound,    \* bound of the model: further stale tokens change nothing
  None

Workers == 0 .. (WorkerCount - 1)
Main    == 0
Threads == Workers \cup Foreign
SlotsOf(g) == 0 .. (Slots[g] - 1)
AllSlots   == UNION {SlotsOf(g) : g \in Groups}

Op == [op : {"begin", "submit", "signal", "cwait", "waitall", "block", "end"},
       arg : Tasks \cup Events \cup {None}]

ASSUME ThreadAssumption == /\ WorkerCount \in Nat \ {0}
                           /\ Foreign \cap Workers = {}
                           /\ IsFiniteSet(Foreign)
                           /\ None \notin Tasks \cup Groups \cup AllSlots \cup Threads
ASSUME GroupAssumption  == /\ 0 \in Groups
                           /\ Groups \subseteq Nat
                           /\ Slots \in [Groups -> Nat \ {0}]
ASSUME TaskAssumption   == /\ Tasks \cap Threads = {}
                           /\ Dest \in [Tasks -> Groups]
                           /\ Script \in [{Main} \cup Foreign \cup Tasks -> Seq(Op)]
\* begin, wait_for_tasks and end are called by the main thread, a wait that helps by workers.
ASSUME ScriptAssumption ==
  \A x \in DOMAIN Script : \A i \in DOMAIN Script[x] :
    LET c == Script[x][i] IN
      /\ c.op = "submit" => c.arg \in Tasks
      /\ c.op \in {"signal", "cwait", "block"} => c.arg \in Events
      /\ c.op \in {"begin", "waitall", "end"} => x = Main
      /\ c.op = "cwait" => x \notin Foreign
\* A task stands for one submission: no two calls submit the same one.
ASSUME OnceAssumption ==
  \A x, y \in DOMAIN Script : \A i \in DOMAIN Script[x], j \in DOMAIN Script[y] :
    Script[x][i].op = "submit" /\ Script[y][j] = Script[x][i] => x = y /\ i = j
ASSUME SizeAssumption   == /\ DequeCap \in Nat \ {0}
                           /\ MailCap \in Nat \ {0}
                           /\ HelpRetries \in Nat
                           /\ TokenBound \in Nat /\ TokenBound >= WorkerCount

VARIABLES
  deque,      \* deque[g][s]: the spmc_ring of slot s of group g, oldest item first
  mailbox,    \* mailbox[g]: the mpmc_ring of group g
  hasWork,    \* has_work_; unsigned in the code, so below 0 it reads as a large number
  free,       \* small_mask_: the free slots of each group
  pending,    \* pending_
  stop,       \* stop_
  up,         \* between the end of begin_execution and the end of end_execution
  sleeping,   \* sleeping_
  tokens,     \* wake_tokens_
  bumped,     \* whether park_epoch_ has moved since the worker read it
  event,      \* counts of the binary semaphores
  pc,         \* where each thread is
  wake,       \* arguments of wake_up_workers, and where it returns to
  stack,      \* the tasks on each thread's stack, who called execute_work for each, and the
              \* group a helper had before (preserve_group)
  at,         \* position in each script
  place,      \* current_context_ of each worker: its group and slot
  reg,        \* locals of find_work_for_worker and busy_work
  submitted,  \* history: tasks submitted and finished
  done

queueVars == <<deque, mailbox, hasWork>>
parkVars  == <<sleeping, tokens, bumped>>
flowVars  == <<stack, at>>
histVars  == <<submitted, done>>
ctlVars   == <<pending, stop, up, event>>
vars == <<deque, mailbox, hasWork, free, pending, stop, up, sleeping, tokens, bumped, event, pc,
          wake, stack, at, place, reg, submitted, done>>

NoRegs  == [by |-> "first", saved |-> None, cand |-> {}, victims |-> {}, grp |-> None,
            slot |-> 0, item |-> None, tries |-> 0, found |-> FALSE]
NoWake  == [want |-> 0, to |-> "user"]
NoPlace == [grp |-> None, slot |-> 0]
EmptyDeques == [g \in Groups |-> [s \in AllSlots |-> <<>>]]

Init ==
  /\ deque   = EmptyDeques
  /\ mailbox = [g \in Groups |-> <<>>]
  /\ hasWork = [g \in Groups |-> 0]
  /\ free    = [g \in Groups |-> {}]
  /\ pending = 0
  /\ stop = FALSE
  /\ up = FALSE
  /\ sleeping = 0
  /\ tokens = 0
  /\ bumped = [w \in Workers |-> FALSE]
  /\ event = [e \in Events |-> 0]
  /\ pc = [t \in Threads |-> IF t \in Workers \ {Main} THEN "exited" ELSE "user"]
  /\ wake = [t \in Threads |-> NoWake]
  /\ stack = [t \in Threads |-> <<>>]
  /\ at = [x \in {Main} \cup Foreign \cup Tasks |-> 1]
  /\ place = [w \in Workers |-> NoPlace]
  /\ reg = [t \in Threads |-> NoRegs]
  /\ submitted = {}
  /\ done = {}

-----------------------------------------------------------------------------
(* Control: the running frame of a thread and its current call.            *)

Top(t)   == stack[t][Len(stack[t])]
Frame(t) == IF stack[t] = <<>> THEN t ELSE Top(t).task
InLoop(t) == stack[t] = <<>> /\ t \in Workers \ {Main}
HasCall(t) == ~InLoop(t) /\ at[Frame(t)] <= Len(Script[Frame(t)])
Call(t)  == Script[Frame(t)][at[Frame(t)]]
Calls(t, op) == HasCall(t) /\ Call(t).op = op
In(t, op, l) == pc[t] = l /\ Calls(t, op)
Waits(t) == Calls(t, "waitall") \/ Calls(t, "end")

Goto(t, l) == pc' = [pc EXCEPT ![t] = l]
Advance(t) == at' = [at EXCEPT ![Frame(t)] = @ + 1]
Forget(t)  == reg' = [reg EXCEPT ![t] = NoRegs]
\* wake_up_workers(n), then go on at l.
WakeThen(t, n, l) == /\ Goto(t, "wake_epoch")
                     /\ wake' = [wake EXCEPT ![t] = [want |-> n, to |-> l]]

\* find_work_for_worker, called by run_worker (first, second) or by busy_work (help).
Find(t, by, saved, n) ==
  /\ Goto(t, "own")
  /\ reg' = [reg EXCEPT ![t] = [NoRegs EXCEPT !.by = by, !.saved = saved, !.tries = n,
                                              !.cand = Groups]]
\* busy_work makes three attempts, or one after many failures.
Help(t) == \E n \in {0, HelpRetries} : Find(t, "help", place[t].grp, n)
Got(t, k) == reg' = [reg EXCEPT ![t].item = k] /\ Goto(t, "sink")

LostRace(t, g) == \E u \in Threads \ {t} : pc[u] = "sink" /\ reg[u].grp = g
Unpublished(t, g) == \E u \in Threads \ {t} : pc[u] = "advertise" /\ Dest[Call(u).arg] = g

-----------------------------------------------------------------------------
(* begin_execution and the loop of run_worker.                             *)

\* The groups get their slots, and the main thread enters group 0.
Begin ==
  /\ In(Main, "begin", "user")
  /\ ~up
  /\ deque' = EmptyDeques
  /\ mailbox' = [g \in Groups |-> <<>>]
  /\ hasWork' = [g \in Groups |-> 0]
  /\ free' = [g \in Groups |-> IF g = 0 THEN SlotsOf(g) \ {0} ELSE SlotsOf(g)]
  /\ place' = [w \in Workers |-> IF w = Main THEN [grp |-> 0, slot |-> 0] ELSE NoPlace]
  /\ pending' = 0
  /\ stop' = FALSE
  /\ sleeping' = 0
  /\ tokens' = 0
  /\ pc' = [t \in Threads |-> IF t \in Workers \ {Main} THEN "entry"
                              ELSE IF t = Main THEN "latch" ELSE pc[t]]
  /\ UNCHANGED <<up, bumped, event, wake, flowVars, reg, histVars>>

Entry(w) == /\ pc[w] = "entry"
            /\ Goto(w, "loop")
            /\ UNCHANGED <<queueVars, free, ctlVars, parkVars, wake, flowVars, place, reg, histVars>>

Latch == /\ pc[Main] = "latch"
         /\ \A w \in Workers : pc[w] # "entry"
         /\ up' = TRUE
         /\ Goto(Main, "user")
         /\ Advance(Main)
         /\ UNCHANGED <<queueVars, free, pending, stop, event, parkVars, wake, stack, place, reg,
                        histVars>>

LoopHead(w) ==
  /\ pc[w] = "loop"
  /\ Goto(w, IF stop THEN "exited" ELSE "token")
  /\ UNCHANGED <<queueVars, free, ctlVars, parkVars, wake, flowVars, place, reg, histVars>>

\* park_token = park_epoch_, then the first search.
LoadToken(w) ==
  /\ pc[w] = "token"
  /\ bumped' = [bumped EXCEPT ![w] = FALSE]
  /\ Find(w, "first", None, 0)
  /\ UNCHANGED <<queueVars, free, ctlVars, sleeping, tokens, wake, flowVars, place, histVars>>

\* Mutant: the worker parks without the second search and the epoch check.
ArmOnly(w) ==
  /\ pc[w] = "arm"
  /\ sleeping' = sleeping + 1
  /\ Goto(w, "exit")
  /\ UNCHANGED <<queueVars, free, ctlVars, tokens, bumped, wake, flowVars, place, reg, histVars>>

\* Nothing was found: count as a sleeper, then search once more.
Arm(w) ==
  /\ pc[w] = "arm"
  /\ sleeping' = sleeping + 1
  /\ Find(w, "second", None, 0)
  /\ UNCHANGED <<queueVars, free, ctlVars, tokens, bumped, wake, flowVars, place, histVars>>

\* Mutant: a worker that does not park stays counted as a sleeper.
CheckOnly(w) ==
  /\ pc[w] = "check"
  /\ Goto(w, IF bumped[w] THEN "loop" ELSE "exit")
  /\ UNCHANGED <<queueVars, free, ctlVars, parkVars, wake, flowVars, place, reg, histVars>>

EpochCheck(w) ==
  /\ pc[w] = "check"
  /\ Goto(w, IF bumped[w] THEN "disarm" ELSE "exit")
  /\ UNCHANGED <<queueVars, free, ctlVars, parkVars, wake, flowVars, place, reg, histVars>>

\* workgroup::exit of the worker's group.
Vacate(w) ==
  free' = IF place[w].grp = None THEN free ELSE [free EXCEPT ![place[w].grp] = @ \cup {place[w].slot}]

Exit(w) ==
  /\ pc[w] = "exit"
  /\ Vacate(w)
  /\ place' = [place EXCEPT ![w] = NoPlace]
  /\ Goto(w, "parked")
  /\ UNCHANGED <<queueVars, ctlVars, parkVars, wake, flowVars, reg, histVars>>

\* wake_tokens_.acquire().
Acquire(w) ==
  /\ pc[w] = "parked"
  /\ tokens > 0
  /\ tokens' = tokens - 1
  /\ Goto(w, "woken")
  /\ UNCHANGED <<queueVars, free, ctlVars, sleeping, bumped, wake, flowVars, place, reg, histVars>>

Woken(w) ==
  /\ pc[w] = "woken"
  /\ Goto(w, IF stop THEN "exited" ELSE "disarm")
  /\ UNCHANGED <<queueVars, free, ctlVars, parkVars, wake, flowVars, place, reg, histVars>>

Disarm(w) ==
  /\ pc[w] = "disarm"
  /\ sleeping' = sleeping - 1
  /\ Goto(w, "loop")
  /\ UNCHANGED <<queueVars, free, ctlVars, tokens, bumped, wake, flowVars, place, reg, histVars>>

-----------------------------------------------------------------------------
(* submit_internal.                                                        *)

Submit(t) ==
  /\ In(t, "submit", "user")
  /\ up
  /\ pending' = pending + 1
  /\ submitted' = submitted \cup {Call(t).arg}
  /\ Goto(t, IF t \in Workers /\ place[t].grp = Dest[Call(t).arg] THEN "push_local"
                                                                 ELSE "push_mail")
  /\ UNCHANGED <<queueVars, free, stop, up, event, parkVars, wake, flowVars, place, reg, done>>

PushLocal(t) ==
  /\ In(t, "submit", "push_local")
  /\ LET k == Call(t).arg
         d == deque[place[t].grp][place[t].slot] IN
       \/ /\ Len(d) < DequeCap
          /\ deque' = [deque EXCEPT ![place[t].grp][place[t].slot] = Append(d, k)]
          /\ Goto(t, "advertise")
       \/ /\ Len(d) >= DequeCap
          /\ Goto(t, "push_mail")
          /\ UNCHANGED deque
  /\ UNCHANGED <<mailbox, hasWork, free, ctlVars, parkVars, wake, flowVars, place, reg, histVars>>

\* Mutant: a full mailbox drops the task.
PushMailDrops(t) ==
  /\ In(t, "submit", "push_mail")
  /\ LET g == Dest[Call(t).arg] IN
       mailbox' = [mailbox EXCEPT ![g] = IF Len(@) < MailCap THEN Append(@, Call(t).arg) ELSE @]
  /\ Goto(t, "advertise")
  /\ UNCHANGED <<deque, hasWork, free, ctlVars, parkVars, wake, flowVars, place, reg, histVars>>

\* submit_to_mailbox until it succeeds; when it is full, wake all, and help if a worker.
PushMail(t) ==
  /\ In(t, "submit", "push_mail")
  /\ LET k == Call(t).arg
         g == Dest[k] IN
       \/ /\ Len(mailbox[g]) < MailCap
          /\ mailbox' = [mailbox EXCEPT ![g] = Append(@, k)]
          /\ Goto(t, "advertise")
          /\ UNCHANGED wake
       \/ /\ Len(mailbox[g]) >= MailCap \/ LostRace(t, g)
          /\ WakeThen(t, WorkerCount, IF t \in Workers THEN "help" ELSE "push_mail")
          /\ UNCHANGED mailbox
  /\ UNCHANGED <<deque, hasWork, free, ctlVars, parkVars, flowVars, place, reg, histVars>>

MailHelp(t) ==
  /\ pc[t] = "help"
  /\ Help(t)
  /\ UNCHANGED <<queueVars, free, ctlVars, parkVars, wake, flowVars, place, histVars>>

\* advertise_work_available, then wake one worker and return.
Advertise(t) ==
  /\ In(t, "submit", "advertise")
  /\ hasWork' = [hasWork EXCEPT ![Dest[Call(t).arg]] = @ + 1]
  /\ Advance(t)
  /\ WakeThen(t, 1, "user")
  /\ UNCHANGED <<deque, mailbox, free, ctlVars, parkVars, stack, place, reg, histVars>>

-----------------------------------------------------------------------------
(* wake_up_workers.                                                        *)

WakeEpoch(t) ==
  /\ pc[t] = "wake_epoch"
  /\ bumped' = [w \in Workers |-> TRUE]
  /\ Goto(t, "wake_read")
  /\ UNCHANGED <<queueVars, free, ctlVars, sleeping, tokens, wake, flowVars, place, reg, histVars>>

\* Read sleeping_; release at most that many tokens.
WakeRead(t) ==
  /\ pc[t] = "wake_read"
  /\ \/ /\ sleeping <= 0
        /\ Goto(t, wake[t].to)
        /\ wake' = [wake EXCEPT ![t] = NoWake]
     \/ /\ sleeping > 0
        /\ wake' = [wake EXCEPT ![t].want = IF @ < sleeping THEN @ ELSE sleeping]
        /\ Goto(t, "wake_release")
  /\ UNCHANGED <<queueVars, free, ctlVars, parkVars, flowVars, place, reg, histVars>>

WakeRelease(t) ==
  /\ pc[t] = "wake_release"
  /\ LET n == tokens + wake[t].want IN tokens' = IF n < TokenBound THEN n ELSE TokenBound
  /\ Goto(t, wake[t].to)
  /\ wake' = [wake EXCEPT ![t] = NoWake]
  /\ UNCHANGED <<queueVars, free, ctlVars, sleeping, bumped, flowVars, place, reg, histVars>>

-----------------------------------------------------------------------------
(* find_work_for_worker.                                                   *)

\* The worker's own group, if it has one and it has work.
OwnGroup(t) ==
  /\ pc[t] = "own"
  /\ LET g == place[t].grp IN
       \/ /\ g # None
          /\ hasWork[g] # 0
          /\ reg' = [reg EXCEPT ![t].grp = g]
          /\ Goto(t, "pop")
       \/ /\ g = None \/ (g # None /\ hasWork[g] = 0)
          /\ Goto(t, "next")
          /\ UNCHANGED reg
  /\ UNCHANGED <<queueVars, free, ctlVars, parkVars, wake, flowVars, place, histVars>>

\* pop_work_from_worker: the newest item of the worker's own slot.
PopOwn(t) ==
  /\ pc[t] = "pop"
  /\ LET g == reg[t].grp
         d == deque[g][place[t].slot] IN
       \/ /\ d # <<>>
          /\ deque' = [deque EXCEPT ![g][place[t].slot] = SubSeq(d, 1, Len(d) - 1)]
          /\ Got(t, d[Len(d)])
       \/ /\ d = <<>>
          /\ reg' = [reg EXCEPT ![t].victims = SlotsOf(g)]
          /\ Goto(t, "steal")
          /\ UNCHANGED deque
  /\ UNCHANGED <<mailbox, hasWork, free, ctlVars, parkVars, wake, flowVars, place, histVars>>

\* steal_work: the oldest item of any slot, from a random one on.
Steal(t) ==
  /\ pc[t] = "steal"
  /\ LET g == reg[t].grp IN
       \/ /\ reg[t].victims = {}
          /\ Goto(t, "mail")
          /\ UNCHANGED <<deque, reg>>
       \/ \E v \in reg[t].victims :
            \/ /\ deque[g][v] # <<>>
               /\ deque' = [deque EXCEPT ![g][v] = Tail(@)]
               /\ Got(t, Head(deque[g][v]))
            \/ /\ deque[g][v] = <<>> \/ LostRace(t, g)
               /\ reg' = [reg EXCEPT ![t].victims = @ \ {v}]
               /\ UNCHANGED <<deque, pc>>
  /\ UNCHANGED <<mailbox, hasWork, free, ctlVars, parkVars, wake, flowVars, place, histVars>>

\* receive_from_mailbox; then on to the other groups.
TakeMail(t) ==
  /\ pc[t] = "mail"
  /\ LET g == reg[t].grp IN
       \/ /\ mailbox[g] # <<>>
          /\ mailbox' = [mailbox EXCEPT ![g] = Tail(@)]
          /\ Got(t, Head(mailbox[g]))
       \/ /\ mailbox[g] = <<>> \/ Unpublished(t, g)
          /\ Goto(t, "next")
          /\ UNCHANGED <<mailbox, reg>>
  /\ UNCHANGED <<deque, hasWork, free, ctlVars, parkVars, wake, flowVars, place, histVars>>

NotFound(t) ==
  CASE reg[t].by = "first"  -> Goto(t, "arm") /\ Forget(t)
    [] reg[t].by = "second" -> Goto(t, "check") /\ Forget(t)
    [] OTHER -> IF reg[t].tries > 0 THEN Find(t, "help", reg[t].saved, reg[t].tries - 1)
                                    ELSE Goto(t, "restore") /\ UNCHANGED reg

\* The groups from a random one on: skip those without work.
NextGroup(t) ==
  /\ pc[t] = "next"
  /\ \/ reg[t].cand = {} /\ NotFound(t)
     \/ \E g \in reg[t].cand :
          \/ /\ hasWork[g] = 0
             /\ reg' = [reg EXCEPT ![t].cand = @ \ {g}]
             /\ UNCHANGED pc
          \/ /\ hasWork[g] # 0
             /\ reg' = [reg EXCEPT ![t].cand = @ \ {g}, ![t].grp = g, ![t].victims = SlotsOf(g)]
             /\ Goto(t, IF place[t].grp = g THEN "steal" ELSE "enter")
  /\ UNCHANGED <<queueVars, free, ctlVars, parkVars, wake, flowVars, place, histVars>>

Lowest(ss) == CHOOSE s \in ss : \A r \in ss : s <= r

\* enter_context: claim the lowest free slot of g, then leave the old group, if any.
EnterGroup(t, g, next, leave) ==
  LET s == Lowest(free[g]) IN
    /\ free[g] # {}
    /\ free' = [free EXCEPT ![g] = @ \ {s}]
    /\ reg' = [reg EXCEPT ![t].slot = s]
    /\ \/ /\ place[t].grp = None
          /\ place' = [place EXCEPT ![t] = [grp |-> g, slot |-> s]]
          /\ Goto(t, next)
       \/ /\ place[t].grp # None
          /\ Goto(t, leave)
          /\ UNCHANGED place

Enter(t) ==
  /\ pc[t] = "enter"
  /\ \/ EnterGroup(t, reg[t].grp, "steal", "leave")
     \/ /\ free[reg[t].grp] = {}
        /\ Goto(t, "next")
        /\ UNCHANGED <<free, place, reg>>
  /\ UNCHANGED <<queueVars, ctlVars, parkVars, wake, flowVars, histVars>>

\* Mutant: the old slot is given back after the worker has forgotten it.
LeaveKeeping(t) ==
  /\ pc[t] \in {"leave", "restore_leave"}
  /\ LET g == IF pc[t] = "leave" THEN reg[t].grp ELSE reg[t].saved IN
       place' = [place EXCEPT ![t] = [grp |-> g, slot |-> reg[t].slot]]
  /\ Goto(t, IF pc[t] = "leave" THEN "steal" ELSE "back")
  /\ UNCHANGED <<queueVars, free, ctlVars, parkVars, wake, flowVars, reg, histVars>>

Leave(t) ==
  /\ pc[t] \in {"leave", "restore_leave"}
  /\ Vacate(t)
  /\ LET g == IF pc[t] = "leave" THEN reg[t].grp ELSE reg[t].saved IN
       place' = [place EXCEPT ![t] = [grp |-> g, slot |-> reg[t].slot]]
  /\ Goto(t, IF pc[t] = "leave" THEN "steal" ELSE "back")
  /\ UNCHANGED <<queueVars, ctlVars, parkVars, wake, flowVars, reg, histVars>>

\* sink_one_work when the item is taken.
Sink(t) ==
  /\ pc[t] = "sink"
  /\ hasWork' = [hasWork EXCEPT ![reg[t].grp] = @ - 1]
  /\ Goto(t, "chain")
  /\ UNCHANGED <<deque, mailbox, free, ctlVars, parkVars, wake, flowVars, place, reg, histVars>>

\* More items remain: wake one more worker before executing this one.
Chain(t) ==
  /\ pc[t] = "chain"
  /\ \/ hasWork[reg[t].grp] # 0 /\ WakeThen(t, 1, "exec")
     \/ hasWork[reg[t].grp] = 0 /\ Goto(t, "exec") /\ UNCHANGED wake
  /\ UNCHANGED <<queueVars, free, ctlVars, parkVars, flowVars, place, reg, histVars>>

Exec(t) ==
  /\ pc[t] = "exec"
  /\ stack' = [stack EXCEPT ![t] = Append(@, [task |-> reg[t].item, by |-> reg[t].by,
                                              saved |-> reg[t].saved])]
  /\ Forget(t)
  /\ Goto(t, "user")
  /\ UNCHANGED <<queueVars, free, ctlVars, parkVars, wake, at, place, histVars>>

\* The task has returned: count it, and go back to run_worker or to busy_work.
EndTask(t) ==
  /\ pc[t] = "user"
  /\ stack[t] # <<>>
  /\ ~HasCall(t)
  /\ done' = done \cup {Top(t).task}
  /\ pending' = pending - 1
  /\ stack' = [stack EXCEPT ![t] = SubSeq(@, 1, Len(@) - 1)]
  /\ Goto(t, CASE Top(t).by = "first"  -> "loop"
               [] Top(t).by = "second" -> "disarm"
               [] OTHER                -> "restore")
  /\ reg' = [reg EXCEPT ![t] = IF Top(t).by = "help"
                                 THEN [NoRegs EXCEPT !.by = "help", !.saved = Top(t).saved,
                                                     !.found = TRUE]
                                 ELSE NoRegs]
  /\ UNCHANGED <<queueVars, free, stop, up, event, parkVars, wake, at, place, submitted>>

-----------------------------------------------------------------------------
(* The end of busy_work, and what its callers do.                          *)

\* reset_to_workgroup: enter the group the caller was in; give up after 1000 attempts.
Restore(t) ==
  /\ pc[t] = "restore"
  /\ LET g == reg[t].saved IN
       \/ /\ g = None \/ place[t].grp = g
          /\ Goto(t, "back")
          /\ UNCHANGED <<free, place, reg>>
       \/ /\ g # None /\ place[t].grp # g
          /\ EnterGroup(t, g, "back", "restore_leave")
       \/ /\ g # None /\ place[t].grp # g /\ free[g] = {}
          /\ Goto(t, "back")
          /\ UNCHANGED <<free, place, reg>>
  /\ UNCHANGED <<queueVars, ctlVars, parkVars, wake, flowVars, histVars>>

\* A submitter tries the mailbox again, a waiter its event; wait_for_tasks looks at the
\* groups if it found nothing.
Back(t) ==
  /\ pc[t] = "back"
  /\ \/ /\ ~(Waits(t) /\ ~reg[t].found)
        /\ Goto(t, IF Calls(t, "submit") THEN "push_mail" ELSE "user")
        /\ Forget(t)
     \/ /\ Waits(t) /\ ~reg[t].found
        /\ Goto(t, "wait_more")
        /\ reg' = [reg EXCEPT ![t] = [NoRegs EXCEPT !.cand = Groups]]
  /\ UNCHANGED <<queueVars, free, ctlVars, parkVars, wake, flowVars, place, histVars>>

CoopWait(t) ==
  /\ In(t, "cwait", "user")
  /\ LET e == Call(t).arg IN
       \/ /\ event[e] = 1
          /\ event' = [event EXCEPT ![e] = 0]
          /\ Advance(t)
          /\ UNCHANGED <<pc, reg>>
       \/ /\ event[e] = 0
          /\ Help(t)
          /\ UNCHANGED <<event, at>>
  /\ UNCHANGED <<queueVars, free, pending, stop, up, parkVars, wake, stack, place, histVars>>

\* A thread waits for an event without helping.
Block(t) ==
  /\ In(t, "block", "user")
  /\ event[Call(t).arg] = 1
  /\ event' = [event EXCEPT ![Call(t).arg] = 0]
  /\ Advance(t)
  /\ UNCHANGED <<queueVars, free, pending, stop, up, parkVars, pc, wake, stack, place, reg, histVars>>

Signal(t) ==
  /\ In(t, "signal", "user")
  /\ event' = [event EXCEPT ![Call(t).arg] = 1]
  /\ Advance(t)
  /\ UNCHANGED <<queueVars, free, pending, stop, up, parkVars, pc, wake, stack, place, reg, histVars>>

-----------------------------------------------------------------------------
(* wait_for_tasks and end_execution.                                       *)

WaitOver(t) == IF Calls(t, "end") THEN Goto(t, "set_stop") /\ UNCHANGED at
                                  ELSE Goto(t, "user") /\ Advance(t)

\* Mutant: wait for the queues to be empty.
WaitQueues(t) ==
  /\ pc[t] = "user" /\ Waits(t)
  /\ Calls(t, "end") => \A f \in Foreign : pc[f] = "user" /\ ~HasCall(f)
  /\ \/ (\A g \in Groups : hasWork[g] = 0) /\ WaitOver(t) /\ UNCHANGED reg
     \/ (\E g \in Groups : hasWork[g] # 0) /\ Help(t) /\ UNCHANGED at
  /\ UNCHANGED <<queueVars, free, ctlVars, parkVars, wake, stack, place, histVars>>

WaitLoad(t) ==
  /\ pc[t] = "user" /\ Waits(t)
  \* The program calls end_execution only when no foreign thread still submits.
  /\ Calls(t, "end") => \A f \in Foreign : pc[f] = "user" /\ ~HasCall(f)
  /\ \/ pending <= 0 /\ WaitOver(t) /\ UNCHANGED reg
     \/ pending > 0  /\ Help(t)     /\ UNCHANGED at
  /\ UNCHANGED <<queueVars, free, ctlVars, parkVars, wake, stack, place, histVars>>

\* has_work(): recruit the workers if a group still has items.
WaitMore(t) ==
  /\ pc[t] = "wait_more"
  /\ \/ reg[t].cand = {} /\ Goto(t, "user") /\ Forget(t) /\ UNCHANGED wake
     \/ /\ reg[t].cand # {}
        /\ LET g == Lowest(reg[t].cand) IN
             \/ /\ hasWork[g] # 0
                /\ WakeThen(t, WorkerCount, "user")
                /\ Forget(t)
             \/ /\ hasWork[g] = 0
                /\ reg' = [reg EXCEPT ![t].cand = @ \ {g}]
                /\ UNCHANGED <<pc, wake>>
  /\ UNCHANGED <<queueVars, free, ctlVars, parkVars, flowVars, place, histVars>>

SetStop(t) ==
  /\ pc[t] = "set_stop"
  /\ stop' = TRUE
  /\ Goto(t, "stopping")
  /\ UNCHANGED <<queueVars, free, pending, up, event, parkVars, wake, flowVars, place, reg, histVars>>

\* Wake the sleepers again and again until finished_ counts every worker.
Stopping(t) ==
  /\ pc[t] = "stopping"
  /\ \/ (\E w \in Workers \ {Main} : pc[w] # "exited") /\ WakeThen(t, WorkerCount, "stopping")
     \/ (\A w \in Workers \ {Main} : pc[w] = "exited") /\ Goto(t, "join") /\ UNCHANGED wake
  /\ UNCHANGED <<queueVars, free, ctlVars, parkVars, flowVars, place, reg, histVars>>

Join(t) ==
  /\ pc[t] = "join"
  /\ \A w \in Workers \ {Main} : pc[w] = "exited"
  /\ up' = FALSE
  /\ Goto(t, "user")
  /\ Advance(t)
  /\ UNCHANGED <<queueVars, free, pending, stop, event, parkVars, wake, stack, place, reg, histVars>>

-----------------------------------------------------------------------------

Step(t) ==
  \/ t = Main /\ (Begin \/ Latch)
  \/ Submit(t) \/ PushLocal(t) \/ PushMail(t) \/ MailHelp(t) \/ Advertise(t)
  \/ WakeEpoch(t) \/ WakeRead(t) \/ WakeRelease(t)
  \/ OwnGroup(t) \/ PopOwn(t) \/ Steal(t) \/ TakeMail(t) \/ NextGroup(t) \/ Enter(t) \/ Leave(t)
  \/ Sink(t) \/ Chain(t) \/ Exec(t) \/ EndTask(t) \/ Restore(t) \/ Back(t)
  \/ Signal(t) \/ CoopWait(t) \/ Block(t)
  \/ WaitLoad(t) \/ WaitMore(t) \/ SetStop(t) \/ Stopping(t) \/ Join(t)
  \/ Entry(t) \/ LoopHead(t) \/ LoadToken(t) \/ Arm(t) \/ EpochCheck(t) \/ Exit(t)
  \/ Acquire(t) \/ Woken(t) \/ Disarm(t)

\* The program has made all its calls.
Finished == /\ \A t \in {Main} \cup Foreign : pc[t] = "user" /\ ~HasCall(t)
            /\ UNCHANGED vars

Next == (\E t \in Threads : Step(t)) \/ Finished

Spec == Init /\ [][Next]_vars

\* Threads are scheduled fairly.
FairSpec == Spec /\ \A t \in Threads : WF_vars(Step(t))

-----------------------------------------------------------------------------
(* Properties.                                                             *)

Live == submitted \ done

PCs == {"user", "entry", "latch", "loop", "token", "arm", "check", "exit", "parked", "woken",
        "disarm", "exited", "push_local", "push_mail", "help", "advertise", "wake_epoch",
        "wake_read", "wake_release", "own", "pop", "steal", "mail", "next", "enter", "leave",
        "sink", "chain", "exec", "restore", "restore_leave", "back", "wait_more", "set_stop",
        "stopping", "join"}

\* Every variable has its type, sleeping_ counts no more workers than there are, and no
\* worker looks at a group that is none.
TypeOK ==
  /\ deque \in [Groups -> [AllSlots -> Seq(Tasks)]]
  /\ mailbox \in [Groups -> Seq(Tasks)]
  /\ hasWork \in [Groups -> Int]
  /\ \A g \in Groups : free[g] \subseteq SlotsOf(g)
  /\ pending \in Nat
  /\ stop \in BOOLEAN /\ up \in BOOLEAN
  /\ sleeping \in 0 .. (WorkerCount - 1)
  /\ tokens \in 0 .. TokenBound
  /\ bumped \in [Workers -> BOOLEAN]
  /\ event \in [Events -> {0, 1}]
  /\ pc \in [Threads -> PCs]
  /\ wake \in [Threads -> [want : Nat, to : PCs]]
  /\ stack \in [Threads -> Seq([task : Tasks, by : {"first", "second", "help"},
                                saved : Groups \cup {None}])]
  /\ at \in [{Main} \cup Foreign \cup Tasks -> Nat \ {0}]
  /\ place \in [Workers -> [grp : Groups \cup {None}, slot : AllSlots]]
  /\ reg \in [Threads -> [by : {"first", "second", "help"}, saved : Groups \cup {None},
                          cand : SUBSET Groups, victims : SUBSET AllSlots,
                          grp : Groups \cup {None}, slot : AllSlots, item : Tasks \cup {None},
                          tries : Nat, found : BOOLEAN]]
  /\ done \subseteq submitted /\ submitted \subseteq Tasks

\* A slot has at most one worker, so a deque has one producer at a time, and no slot is
\* lost: it is free unless a worker is in it, or has just entered it and not yet left the
\* old one.
Holds(w, g, s) == \/ place[w] = [grp |-> g, slot |-> s]
                  \/ pc[w] = "leave" /\ reg[w].grp = g /\ reg[w].slot = s
                  \/ pc[w] = "restore_leave" /\ reg[w].saved = g /\ reg[w].slot = s
SlotExclusive ==
  up => \A g \in Groups : \A s \in SlotsOf(g) :
          Cardinality({w \in Workers : Holds(w, g, s)}) = IF s \in free[g] THEN 0 ELSE 1

\* The places where a task is: in a push, queued, in the hand of a thread or on a stack.
Frames(t) == {t} \cup {stack[t][i].task : i \in DOMAIN stack[t]}
Pushing(t, x, k) ==
  /\ k \in submitted
  /\ x \notin Workers \ {Main}
  /\ at[x] <= Len(Script[x])
  /\ Script[x][at[x]] = [op |-> "submit", arg |-> k]
  /\ ~(x = Frame(t) /\ pc[t] = "advertise")
Queues(g)  == {<<deque[g][s], s>> : s \in AllSlots} \cup {<<mailbox[g], None>>}
InQueue(k, g) == UNION {{<<q[2], i>> : i \in {j \in DOMAIN q[1] : q[1][j] = k}} : q \in Queues(g)}
PushPlaces(k) ==
  UNION {{<<"push", t, x>> : x \in {y \in Frames(t) : Pushing(t, y, k)}} : t \in Threads}
QueuePlaces(k) == UNION {{<<"queue", g, p>> : p \in InQueue(k, g)} : g \in Groups}
HandPlaces(k)  == {<<"hand", t>> : t \in {u \in Threads : reg[u].item = k}}
StackPlaces(k) ==
  UNION {{<<"stack", t, i>> : i \in {j \in DOMAIN stack[t] : stack[t][j].task = k}} : t \in Threads}
Places(k) == PushPlaces(k) \cup QueuePlaces(k) \cup HandPlaces(k) \cup StackPlaces(k)

\* Every submitted task that has not finished is in exactly one place, another in none;
\* pending_ counts the tasks that have not finished, has_work_ the queued items of a group
\* but for pushes not yet counted and takes not yet discounted; sleeping_ counts the workers
\* between arming and disarming, those that end while armed included.
Armed(w) == \/ pc[w] \in {"check", "exit", "parked", "woken", "disarm"}
            \/ stack[w] = <<>> /\ reg[w].by = "second"
            \/ stack[w] # <<>> /\ stack[w][1].by = "second"
CountsExact ==
  /\ \A k \in Tasks : Cardinality(Places(k)) = IF k \in Live THEN 1 ELSE 0
  /\ pending = Cardinality(Live)
  /\ \A g \in Groups :
       hasWork[g] = Cardinality(UNION {InQueue(k, g) : k \in Tasks})
                    + Cardinality({t \in Threads : pc[t] = "sink" /\ reg[t].grp = g})
                    - Cardinality({t \in Threads : pc[t] = "advertise" /\ Dest[Call(t).arg] = g})
  /\ ~stop => sleeping = Cardinality({w \in Workers : Armed(w)})

\* Parking is race-free: when every worker that runs the loop is parked, the main thread is
\* not helping and nobody is about to release a token, no item is queued.
Helping == stack[Main] # <<>> \/ Waits(Main) \/ pc[Main] # "user"
Waking  == tokens > 0 \/ \E t \in Threads : pc[t] \in {"advertise", "wake_epoch", "wake_read",
                                                        "wake_release"}
NoLostWakeup ==
  (\A w \in Workers \ {Main} : pc[w] = "parked") /\ ~Waking /\ ~Helping
    => \A g \in Groups : hasWork[g] = 0

\* wait_for_tasks and end_execution return only when every submitted task has finished.
WaitComplete == [][Waits(Main) /\ at'[Main] # at[Main] => submitted' = done']_vars

\* The program gets to its end: every task runs, and the workers end.
AllEnd == <>(~HasCall(Main) /\ \A w \in Workers \ {Main} : pc[w] = "exited")

=============================================================================
