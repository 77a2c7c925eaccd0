---------------------------- MODULE SchedulerV1 ----------------------------
(***************************************************************************)
(* ouly::v1::scheduler: every group has one bounded ring per member, a     *)
(* tally of the items that were pushed and have not been executed, and     *)
(* every worker a sleep flag and a counting semaphore.                     *)
(*                                                                         *)
(* A step is one access to shared memory with the local code up to the     *)
(* next one; memory is sequentially consistent.  The rings are those that  *)
(* WorkQueue specifies: their operations are atomic here but may fail while*)
(* another one is in progress.  Groups are contiguous ranges of workers    *)
(* that are fixed before begin_execution.  The clients are given by Script.*)
(***************************************************************************)
EXTENDS SearchOrder

CONSTANTS
  Tasks,         \* the tasks that may be submitted, each at most once
  Dest,          \* the workgroup each task is submitted to
  Script,        \* the calls of the main thread and of task bodies
  Events,        \* binary semaphores used with cooperative_wait
  RingCap,       \* max_work_items_per_worker
  Plans,         \* the searches of each worker
  None

Main == 0

Op == [op : {"begin", "submit", "signal", "cwait", "block", "waitall", "end"},
       arg : Tasks \cup Events \cup {None}]

SchedulerAssumption ==
  /\ WorkerCount \in Nat \ {0}
  /\ Groups = 0 .. (Cardinality(Groups) - 1)
  /\ \A g \in Groups : Count[g] \in Nat \ {0} /\ Members(g) \subseteq Workers
  /\ Tasks \cap Workers = {} /\ Dest \in [Tasks -> Groups]
  /\ Script \in [{Main} \cup Tasks -> Seq(Op)]
  /\ None \notin Tasks \cup Groups
  /\ RingCap \in Nat \ {0}
  /\ Plans = WorkerPlans

VARIABLES
  queue,      \* queue[g][o]: per_worker_queues_ of the group, oldest item first
  tally,      \* tally_ of each group
  status,     \* wake_data_: status_, false when the worker is about to sleep
  tokens,     \* wake_data_: the count of event_
  stop,       \* stop_
  event,      \* counts of the binary semaphores
  pc,         \* where each thread is
  wake,       \* the workers still to be woken by wake_up, and where to go on
  stack,      \* the tasks on each thread's stack, and for each who called work()
  at,         \* position in each script
  ctx,        \* current_context_ of each worker: its group
  reg,        \* locals of get_work, busy_work and submit_internal
  submitted,  \* history: tasks submitted and finished
  done

histVars == <<submitted, done>>
parkVars == <<status, tokens>>
userVars == <<stack, at, ctx>>
vars == <<queue, tally, status, tokens, stop, event, pc, wake, stack, at, ctx, reg, submitted, done>>

NoRegs == [by |-> "first", saved |-> None, plan |-> <<>>, grp |-> None, item |-> None,
           off |-> 0, n |-> 0]
NoWake == [todo |-> <<>>, to |-> "user"]

Init ==
  /\ queue = [g \in Groups |-> [o \in AllOffsets |-> <<>>]]
  /\ tally = [g \in Groups |-> 0]
  /\ status = [w \in Workers |-> FALSE]
  /\ tokens = [w \in Workers |-> 0]
  /\ stop = FALSE
  /\ event = [e \in Events |-> 0]
  /\ pc = [t \in Workers |-> IF t = Main THEN "user" ELSE "exited"]
  /\ wake = [t \in Workers |-> NoWake]
  /\ stack = [t \in Workers |-> <<>>]
  /\ at = [x \in {Main} \cup Tasks |-> 1]
  /\ ctx = [w \in Workers |-> None]
  /\ reg = [t \in Workers |-> NoRegs]
  /\ submitted = {}
  /\ done = {}

-----------------------------------------------------------------------------
(* Control.                                                                *)

Top(t)   == stack[t][Len(stack[t])]
Frame(t) == IF stack[t] = <<>> THEN t ELSE Top(t).task
InLoop(t) == stack[t] = <<>> /\ t # Main
HasCall(t) == ~InLoop(t) /\ at[Frame(t)] <= Len(Script[Frame(t)])
Call(t)  == Script[Frame(t)][at[Frame(t)]]
Calls(t, op) == HasCall(t) /\ Call(t).op = op
In(t, op, l) == pc[t] = l /\ Calls(t, op)
Waits(t) == Calls(t, "waitall") \/ Calls(t, "end")

Goto(t, l) == pc' = [pc EXCEPT ![t] = l]
Advance(t) == at' = [at EXCEPT ![Frame(t)] = @ + 1]
Forget(t)  == reg' = [reg EXCEPT ![t] = NoRegs]
\* wake_up for each of ws in turn, then go on at l.
WakeThen(t, ws, l) == /\ Goto(t, IF ws = <<>> THEN l ELSE "wake")
                      /\ wake' = [wake EXCEPT ![t] = IF ws = <<>> THEN NoWake
                                                                  ELSE [todo |-> ws, to |-> l]]
Others == [i \in 1 .. (WorkerCount - 1) |-> i]

\* A helper goes back to the submission or to the wait it helps in.
AfterHelp(t) ==
  \/ /\ Calls(t, "submit")
     /\ Goto(t, "push_next")
     /\ reg' = [reg EXCEPT ![t] = [NoRegs EXCEPT !.off = reg[t].off, !.n = reg[t].n]]
  \/ /\ ~Calls(t, "submit")
     /\ Goto(t, "user")
     /\ Forget(t)

\* The search found nothing: a worker announces that it will sleep, or does so.
NotFound(t, by) ==
  \/ by = "first"  /\ Goto(t, "announce") /\ Forget(t)
  \/ by = "second" /\ Goto(t, "check") /\ Forget(t)
  \/ by = "help"   /\ AfterHelp(t)

\* work(), called by run_worker (first, second) or busy_work (help).
Search(t, by, saved) ==
  \E p \in Plans[t] :
    \/ /\ p = <<>>
       /\ NotFound(t, by)
    \/ /\ p # <<>>
       /\ Goto(t, "scan")
       /\ reg' = [reg EXCEPT ![t].by = by, ![t].saved = saved, ![t].plan = p]
\* busy_work makes up to three attempts; its callers call it again, so one is enough here.
Help(t) == Search(t, "help", ctx[t])

\* A push in progress hides its item, a pop in progress keeps its slot.
Unpublished(t, g, o) == \E u \in Workers \ {t} :
                          pc[u] = "tally" /\ Dest[Call(u).arg] = g /\ reg[u].off = o
LostRace(t, g) == \E u \in Workers \ {t} : pc[u] = "run" /\ reg[u].grp = g

-----------------------------------------------------------------------------
(* begin_execution and run_worker.                                         *)

\* Tallies and queues of the groups stay as they are.
Begin ==
  /\ In(Main, "begin", "user")
  /\ \A w \in Workers \ {Main} : pc[w] = "exited"
  /\ status' = [w \in Workers |-> TRUE]
  /\ tokens' = [w \in Workers |-> 0]
  /\ stop' = FALSE
  /\ ctx' = [w \in Workers |-> IF w = Main THEN 0 ELSE None]
  /\ pc' = [t \in Workers |-> IF t = Main THEN "latch" ELSE "entry"]
  /\ UNCHANGED <<queue, tally, event, wake, stack, at, reg, histVars>>

Entry(w) == /\ pc[w] = "entry"
            /\ Goto(w, "loop")
            /\ UNCHANGED <<queue, tally, parkVars, stop, event, wake, userVars, reg, histVars>>

Latch == /\ pc[Main] = "latch"
         /\ \A w \in Workers : pc[w] # "entry"
         /\ Goto(Main, "user")
         /\ Advance(Main)
         /\ UNCHANGED <<queue, tally, parkVars, stop, event, wake, stack, ctx, reg, histVars>>

LoopHead(w) ==
  /\ pc[w] = "loop"
  /\ \/ stop /\ Goto(w, "exited") /\ UNCHANGED reg
     \/ ~stop /\ Search(w, "first", None)
  /\ UNCHANGED <<queue, tally, parkVars, stop, event, wake, userVars, histVars>>

\* Mutant: no second look.
AnnounceOnly(w) ==
  /\ pc[w] = "announce"
  /\ status' = [status EXCEPT ![w] = FALSE]
  /\ Goto(w, "check")
  /\ UNCHANGED <<queue, tally, tokens, stop, event, wake, userVars, reg, histVars>>

\* status_ = false, then search once more.
Announce(w) ==
  /\ pc[w] = "announce"
  /\ status' = [status EXCEPT ![w] = FALSE]
  /\ Search(w, "second", None)
  /\ UNCHANGED <<queue, tally, tokens, stop, event, wake, userVars, histVars>>

StopCheck(w) ==
  /\ pc[w] = "check"
  /\ Goto(w, IF stop THEN "exited" ELSE "asleep")
  /\ UNCHANGED <<queue, tally, parkVars, stop, event, wake, userVars, reg, histVars>>

Acquire(w) ==
  /\ pc[w] = "asleep"
  /\ tokens[w] > 0
  /\ tokens' = [tokens EXCEPT ![w] = @ - 1]
  /\ Goto(w, "awake")
  /\ UNCHANGED <<queue, tally, status, stop, event, wake, userVars, reg, histVars>>

Awake(w) ==
  /\ pc[w] = "awake"
  /\ status' = [status EXCEPT ![w] = TRUE]
  /\ Goto(w, "loop")
  /\ UNCHANGED <<queue, tally, tokens, stop, event, wake, userVars, reg, histVars>>

-----------------------------------------------------------------------------
(* get_work, do_work and busy_work.                                        *)

TryOther(t) ==
  LET rest == Tail(reg[t].plan) IN
    \/ rest = <<>>  /\ NotFound(t, reg[t].by)
    \/ rest # <<>> /\ reg' = [reg EXCEPT ![t].plan = rest] /\ UNCHANGED pc

\* Mutant: the item stays in the ring.
TryPopKeeping(t) ==
  /\ pc[t] = "scan"
  /\ LET g == Head(reg[t].plan)[1]
         o == Head(reg[t].plan)[2] IN
       \/ /\ queue[g][o] # <<>>
          /\ reg' = [reg EXCEPT ![t].plan = <<>>, ![t].grp = g, ![t].item = Head(queue[g][o])]
          /\ Goto(t, "run")
          /\ UNCHANGED queue
       \/ /\ queue[g][o] = <<>>
          /\ TryOther(t)
          /\ UNCHANGED queue
  /\ UNCHANGED <<tally, parkVars, stop, event, wake, userVars, histVars>>

TryPop(t) ==
  /\ pc[t] = "scan"
  /\ LET g == Head(reg[t].plan)[1]
         o == Head(reg[t].plan)[2] IN
       \/ /\ queue[g][o] # <<>>
          /\ queue' = [queue EXCEPT ![g][o] = Tail(@)]
          /\ reg' = [reg EXCEPT ![t].plan = <<>>, ![t].grp = g, ![t].item = Head(queue[g][o])]
          /\ Goto(t, "run")
       \/ /\ queue[g][o] = <<>> \/ Unpublished(t, g, o)
          /\ TryOther(t)
          /\ UNCHANGED queue
  /\ UNCHANGED <<tally, parkVars, stop, event, wake, userVars, histVars>>

\* Mutant: the item is discounted when it starts, too.
RunSinking(t) ==
  /\ pc[t] = "run"
  /\ tally' = [tally EXCEPT ![reg[t].grp] = @ - 1]
  /\ ctx' = [ctx EXCEPT ![t] = reg[t].grp]
  /\ stack' = [stack EXCEPT ![t] = Append(@, [task |-> reg[t].item, by |-> reg[t].by,
                                              saved |-> reg[t].saved, off |-> reg[t].off,
                                              n |-> reg[t].n])]
  /\ Forget(t)
  /\ Goto(t, "user")
  /\ UNCHANGED <<queue, parkVars, stop, event, wake, at, histVars>>

\* do_work up to the call of the item.
Run(t) ==
  /\ pc[t] = "run"
  /\ ctx' = [ctx EXCEPT ![t] = reg[t].grp]
  /\ stack' = [stack EXCEPT ![t] = Append(@, [task |-> reg[t].item, by |-> reg[t].by,
                                              saved |-> reg[t].saved, off |-> reg[t].off,
                                              n |-> reg[t].n])]
  /\ Forget(t)
  /\ Goto(t, "user")
  /\ UNCHANGED <<queue, tally, parkVars, stop, event, wake, at, histVars>>

\* The item returns: sink_one_work; a helper gets back the context it had.
FinishItem(t, back) ==
  /\ pc[t] = "user"
  /\ stack[t] # <<>>
  /\ ~HasCall(t)
  /\ done' = done \cup {Top(t).task}
  /\ tally' = [tally EXCEPT ![Dest[Top(t).task]] = @ - 1]
  /\ stack' = [stack EXCEPT ![t] = SubSeq(@, 1, Len(@) - 1)]
  /\ ctx' = [ctx EXCEPT ![t] = IF Top(t).by = "help" THEN back ELSE @]
  /\ \/ /\ Top(t).by = "first"
        /\ Search(t, "first", None)
     \/ /\ Top(t).by = "second"
        /\ Goto(t, "awake") /\ UNCHANGED reg
     \/ /\ Top(t).by = "help"
        /\ Goto(t, "back")
        /\ reg' = [reg EXCEPT ![t].off = Top(t).off, ![t].n = Top(t).n]
  /\ UNCHANGED <<queue, parkVars, stop, event, wake, at, submitted>>
\* Mutant: the context stays that of the item.
EndItemKeeping(t) == FinishItem(t, ctx[t])
EndItem(t) == FinishItem(t, Top(t).saved)

Back(t) ==
  /\ pc[t] = "back"
  /\ AfterHelp(t)
  /\ UNCHANGED <<queue, tally, parkVars, stop, event, wake, userVars, histVars>>

-----------------------------------------------------------------------------
(* submit_internal.                                                        *)

Target(t) == Dest[Call(t).arg]
TargetWorker(t) == Start[Target(t)] + reg[t].off
NextOffset(t) == reg' = [reg EXCEPT ![t].off = (@ + 1) % Count[Target(t)], ![t].n = @ + 1]

Submit(t) ==
  /\ In(t, "submit", "user")
  /\ submitted' = submitted \cup {Call(t).arg}
  /\ \E s \in Starts(Count[Target(t)]) : reg' = [reg EXCEPT ![t] = [NoRegs EXCEPT !.off = s]]
  /\ Goto(t, "idle")
  /\ UNCHANGED <<queue, tally, parkVars, stop, event, wake, userVars, done>>

\* The first round looks for a worker that sleeps.
FindIdle(t) ==
  /\ In(t, "submit", "idle")
  /\ \/ /\ reg[t].n = Count[Target(t)]
        /\ reg' = [reg EXCEPT ![t].n = 0]
        /\ Goto(t, "push")
     \/ /\ reg[t].n < Count[Target(t)] /\ status[TargetWorker(t)]
        /\ NextOffset(t)
        /\ UNCHANGED pc
     \/ /\ reg[t].n < Count[Target(t)] /\ ~status[TargetWorker(t)]
        /\ Goto(t, "push_idle")
        /\ UNCHANGED reg
  /\ UNCHANGED <<queue, tally, parkVars, stop, event, wake, userVars, histVars>>

\* Mutant: the ring is never full.
FitsAlways(t) == TRUE

Fits(t) == Len(queue[Target(t)][reg[t].off]) < RingCap
Emplace(t) ==
  /\ Fits(t)
  /\ queue' = [queue EXCEPT ![Target(t)][reg[t].off] = Append(@, Call(t).arg)]
  /\ Goto(t, "tally")
  /\ UNCHANGED <<wake, reg>>

\* Push to the ring of the worker that was seen asleep.
PushIdle(t) ==
  /\ In(t, "submit", "push_idle")
  /\ \/ Emplace(t)
     \/ /\ ~Fits(t) \/ LostRace(t, Target(t))
        /\ NextOffset(t)
        /\ Goto(t, "idle")
        /\ UNCHANGED <<queue, wake>>
  /\ UNCHANGED <<tally, parkVars, stop, event, userVars, histVars>>

\* Push to any ring, for ever; help if the full ring is the submitter's own, otherwise wake
\* the owner at every second one.
Push(t) ==
  /\ In(t, "submit", "push")
  /\ \/ Emplace(t)
     \/ /\ ~Fits(t) \/ LostRace(t, Target(t))
        /\ \/ /\ TargetWorker(t) = t
              /\ Help(t)
              /\ UNCHANGED wake
           \/ /\ TargetWorker(t) # t
              /\ WakeThen(t, IF reg[t].n % 2 = 0 THEN <<TargetWorker(t)>> ELSE <<>>, "push_next")
              /\ UNCHANGED reg
        /\ UNCHANGED queue
  /\ UNCHANGED <<tally, parkVars, stop, event, userVars, histVars>>

PushNext(t) ==
  /\ In(t, "submit", "push_next")
  /\ reg' = [reg EXCEPT ![t] = [NoRegs EXCEPT
               !.n = IF reg[t].n + 1 = Count[Target(t)] THEN 0 ELSE reg[t].n + 1,
               !.off = (reg[t].off + 1) % Count[Target(t)]]]
  /\ Goto(t, "push")
  /\ UNCHANGED <<queue, tally, parkVars, stop, event, wake, userVars, histVars>>

\* Mutant: the first worker of the group is woken, not the one that got the item.
RaiseTallyWakeFirst(t) ==
  /\ In(t, "submit", "tally")
  /\ tally' = [tally EXCEPT ![Target(t)] = @ + 1]
  /\ WakeThen(t, <<Start[Target(t)]>>, "user")
  /\ Advance(t)
  /\ Forget(t)
  /\ UNCHANGED <<queue, parkVars, stop, event, stack, ctx, histVars>>

\* tally_ is raised when the item is in the ring; then wake the owner of the ring.
RaiseTally(t) ==
  /\ In(t, "submit", "tally")
  /\ tally' = [tally EXCEPT ![Target(t)] = @ + 1]
  /\ WakeThen(t, <<TargetWorker(t)>>, "user")
  /\ Advance(t)
  /\ Forget(t)
  /\ UNCHANGED <<queue, parkVars, stop, event, stack, ctx, histVars>>

-----------------------------------------------------------------------------
(* wake_up.                                                                *)

NextWake(t) ==
  LET rest == Tail(wake[t].todo) IN
    IF rest = <<>> THEN Goto(t, wake[t].to) /\ wake' = [wake EXCEPT ![t] = NoWake]
                   ELSE Goto(t, "wake") /\ wake' = [wake EXCEPT ![t].todo = rest]

\* Exchange status_ with true; release a token if the worker was asleep.
WakeExchange(t) ==
  /\ pc[t] = "wake"
  /\ LET w == Head(wake[t].todo) IN
       /\ status' = [status EXCEPT ![w] = TRUE]
       /\ \/ status[w]  /\ NextWake(t)
          \/ ~status[w] /\ Goto(t, "release") /\ UNCHANGED wake
  /\ UNCHANGED <<queue, tally, tokens, stop, event, userVars, reg, histVars>>

Release(t) ==
  /\ pc[t] = "release"
  /\ tokens' = [tokens EXCEPT ![Head(wake[t].todo)] = @ + 1]
  /\ NextWake(t)
  /\ UNCHANGED <<queue, tally, status, stop, event, userVars, reg, histVars>>

-----------------------------------------------------------------------------
(* Waits.                                                                  *)

CoopWait(t) ==
  /\ In(t, "cwait", "user")
  /\ LET e == Call(t).arg IN
       \/ /\ event[e] = 1
          /\ event' = [event EXCEPT ![e] = 0]
          /\ Advance(t)
          /\ UNCHANGED <<pc, reg>>
       \/ /\ event[e] = 0
          /\ Help(t)
          /\ UNCHANGED <<event, at>>
  /\ UNCHANGED <<queue, tally, parkVars, stop, wake, stack, ctx, histVars>>

\* A thread waits for an event without helping.
Block(t) ==
  /\ In(t, "block", "user")
  /\ event[Call(t).arg] = 1
  /\ event' = [event EXCEPT ![Call(t).arg] = 0]
  /\ Advance(t)
  /\ UNCHANGED <<queue, tally, parkVars, stop, pc, wake, stack, ctx, reg, histVars>>

Signal(t) ==
  /\ In(t, "signal", "user")
  /\ event' = [event EXCEPT ![Call(t).arg] = 1]
  /\ Advance(t)
  /\ UNCHANGED <<queue, tally, parkVars, stop, pc, wake, stack, ctx, reg, histVars>>

\* has_work(), group by group; reg.n counts those that were looked at.
HasWork(t) ==
  /\ pc[t] = "user" /\ Waits(t)
  /\ \/ /\ reg[t].n < Cardinality(Groups) /\ tally[reg[t].n] <= 0
        /\ reg' = [reg EXCEPT ![t].n = @ + 1]
        /\ UNCHANGED <<pc, at, wake>>
     \/ /\ reg[t].n < Cardinality(Groups) /\ tally[reg[t].n] > 0
        /\ WakeThen(t, Others, "wait_help")
        /\ Forget(t)
        /\ UNCHANGED at
     \/ /\ reg[t].n = Cardinality(Groups)
        /\ Forget(t)
        /\ IF Calls(t, "end") THEN Goto(t, "set_stop") /\ UNCHANGED at
                              ELSE Advance(t) /\ UNCHANGED pc
        /\ UNCHANGED wake
  /\ UNCHANGED <<queue, tally, parkVars, stop, event, stack, ctx, histVars>>

WaitHelp(t) ==
  /\ pc[t] = "wait_help"
  /\ Help(t)
  /\ UNCHANGED <<queue, tally, parkVars, stop, event, wake, userVars, histVars>>

SetStop(t) ==
  /\ pc[t] = "set_stop"
  /\ stop' = TRUE
  /\ Goto(t, "stopping")
  /\ UNCHANGED <<queue, tally, parkVars, event, wake, userVars, reg, histVars>>

\* Wake all workers until finished_ counts every one, then join them.
Stopping(t) ==
  /\ pc[t] = "stopping"
  /\ \/ /\ \E w \in Workers \ {Main} : pc[w] # "exited"
        /\ WakeThen(t, Others, "stopping")
        /\ UNCHANGED at
     \/ /\ \A w \in Workers \ {Main} : pc[w] = "exited"
        /\ Goto(t, "user")
        /\ Advance(t)
        /\ UNCHANGED wake
  /\ UNCHANGED <<queue, tally, parkVars, stop, event, stack, ctx, reg, histVars>>

-----------------------------------------------------------------------------

Step(t) ==
  \/ t = Main /\ (Begin \/ Latch)
  \/ Submit(t) \/ FindIdle(t) \/ PushIdle(t) \/ Push(t) \/ PushNext(t) \/ RaiseTally(t)
  \/ WakeExchange(t) \/ Release(t)
  \/ TryPop(t) \/ Run(t) \/ EndItem(t) \/ Back(t)
  \/ Signal(t) \/ CoopWait(t) \/ Block(t)
  \/ HasWork(t) \/ WaitHelp(t) \/ SetStop(t) \/ Stopping(t)
  \/ Entry(t) \/ LoopHead(t) \/ Announce(t) \/ StopCheck(t) \/ Acquire(t) \/ Awake(t)

\* The program has made all its calls.
Finished == pc[Main] = "user" /\ ~HasCall(Main) /\ UNCHANGED vars

Next == (\E t \in Workers : Step(t)) \/ Finished

Spec == Init /\ [][Next]_vars

\* Threads are scheduled fairly.
FairSpec == Spec /\ \A t \in Workers : WF_vars(Step(t))

-----------------------------------------------------------------------------
(* Properties.                                                             *)

PCs == {"user", "entry", "latch", "loop", "announce", "check", "asleep", "awake", "exited", "scan",
        "run", "back", "idle", "push_idle", "push", "push_next", "tally", "wake", "release",
        "wait_help", "set_stop", "stopping"}

\* Every variable has its type, and no worker looks at a queue of a group that is not its own.
TypeOK ==
  /\ queue \in [Groups -> [AllOffsets -> Seq(Tasks)]]
  /\ \A g \in Groups, o \in AllOffsets : Len(queue[g][o]) <= RingCap
  /\ tally \in [Groups -> Int]
  /\ status \in [Workers -> BOOLEAN]
  /\ tokens \in [Workers -> Nat]
  /\ stop \in BOOLEAN
  /\ event \in [Events -> {0, 1}]
  /\ pc \in [Workers -> PCs]
  /\ \A t \in Workers : wake[t].to \in PCs /\ \A w \in ToSet(wake[t].todo) : w \in Workers
  /\ \A t \in Workers : \A p \in ToSet(reg[t].plan) : t \in Members(p[1]) /\ p[2] \in Offsets(p[1])
  /\ at \in [{Main} \cup Tasks -> Nat \ {0}]
  /\ ctx \in [Workers -> Groups \cup {None}]
  /\ done \subseteq submitted /\ submitted \subseteq Tasks

Live == submitted \ done

\* The places where an item is: in the submission, in a ring of its group, in the hand of a
\* worker or on a stack.
Submitting(t, x, k) ==
  /\ k \in submitted
  /\ at[x] <= Len(Script[x])
  /\ Script[x][at[x]] = [op |-> "submit", arg |-> k]
  /\ ~(x = Frame(t) /\ pc[t] = "tally")
Frames(t) == (IF t = Main THEN {t} ELSE {}) \cup {stack[t][i].task : i \in DOMAIN stack[t]}
Places(k) ==
  UNION {{<<"submit", t, x>> : x \in {y \in Frames(t) : Submitting(t, y, k)}} : t \in Workers}
    \cup {<<"ring", o, i>> : <<o, i>> \in {<<p, j>> \in Offsets(Dest[k]) \X (1 .. RingCap) :
                                j \in DOMAIN queue[Dest[k]][p] /\ queue[Dest[k]][p][j] = k}}
    \cup {<<"hand", t>> : t \in {u \in Workers : reg[u].item = k}}
    \cup UNION {{<<"stack", t, i>> : i \in {j \in DOMAIN stack[t] : stack[t][j].task = k}}
               : t \in Workers}

\* No item is lost or doubled: every live item has one place and the others none.  The
\* context of a worker is that of the item it runs, also after it has helped with items of
\* other groups, and the tally of a group is the number of its items in rings, in hands and
\* on stacks, up to the pushes that are not counted yet.
CountsExact ==
  /\ \A k \in Tasks : Cardinality(Places(k)) = IF k \in Live THEN 1 ELSE 0
  /\ \A t \in Workers : stack[t] # <<>> /\ pc[t] = "user" => ctx[t] = Dest[Top(t).task]
  /\ \A g \in Groups :
       tally[g] = Cardinality({k \in Live : Dest[k] = g /\ \A p \in Places(k) : p[1] # "submit"})
                  - Cardinality({t \in Workers : pc[t] = "tally" /\ Target(t) = g})

\* A worker that sleeps without a token has nothing in its own rings, and a producer can see
\* that it sleeps, unless somebody is on the way to wake it.
OnTheWay(w) ==
  \E t \in Workers : \/ pc[t] \in {"wake", "release"} /\ w \in ToSet(wake[t].todo)
                     \/ pc[t] = "tally" /\ TargetWorker(t) = w
Releasing(w) == \E t \in Workers : pc[t] = "release" /\ Head(wake[t].todo) = w
NoLostWakeup ==
  \A w \in Workers \ {Main} : pc[w] = "asleep" /\ tokens[w] = 0 =>
    /\ status[w] => Releasing(w)
    /\ OnTheWay(w) \/ \A g \in Groups : w \in Members(g) => queue[g][Offset(w, g)] = <<>>

\* wait_for_tasks and end_execution return only when every submitted task has finished.
WaitComplete == [][Waits(Main) /\ at'[Main] # at[Main] => submitted' = done']_vars

\* The program gets to its end with every task run and the workers ended.
AllEnd == <>(~HasCall(Main) /\ Live = {} /\ \A w \in Workers \ {Main} : pc[w] = "exited")

=============================================================================
