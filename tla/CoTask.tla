------------------------------- MODULE CoTask -------------------------------
(***************************************************************************)
(* ouly::co_task: lazy coroutines that await each other, are submitted to  *)
(* a scheduler by reference or by move, and are waited for by a thread.    *)
(*                                                                         *)
(* Main executes a script.  It waits through a coroutine of its own, the   *)
(* Waiter (sync_waiter), which releases a semaphore when the awaited one   *)
(* is done.  The worker threads resume what is in the scheduler's queue;   *)
(* so does Main while it waits cooperatively.  A frame of a stack is a     *)
(* coroutine that runs or is being suspended there, or the resume_coroutine*)
(* below it; a step is one access to an atomic that another thread uses.   *)
(***************************************************************************)
EXTENDS Integers, Sequences, FiniteSets, SequencesExt

CONSTANTS
  Threads,
  Main,
  Coroutines,
  Waiter,
  Awaits,    \* the coroutines that each coroutine creates and awaits, in turn
  Signals,   \* those that at the end of their body release the semaphore of Main
  Scripts,   \* the calls of Main in different programs
  Sentinel,  \* completed_sentinel()
  None

All == Coroutines \cup {Waiter}
Ops == {"make", "submit", "submit_move", "wait", "cooperative_wait", "cooperative_event", "idle", "destroy"}
CoTaskAssumption ==
  /\ Main \in Threads
  /\ Awaits \in [Coroutines -> Seq(Coroutines)] /\ Signals \subseteq Coroutines
  /\ Scripts \subseteq Seq([op : Ops, arg : Coroutines \cup {None}])
  /\ Waiter \notin Coroutines /\ {None, Sentinel} \cap All = {}

VARIABLES
  script, at,   \* the program of Main
  continuation, \* continuation_
  started,      \* started_
  detached,     \* detached_
  life,         \* of a coroutine frame: "none", "live" or "freed"
  finished,     \* suspended at the end: done()
  pos,          \* which of its awaits a coroutine is at
  target,       \* what the Waiter awaits
  event,        \* the semaphore Main waits for
  queue,        \* items of the scheduler: [kind, co, claimed]
  stack

coVars == <<continuation, started, detached, life, finished, pos, target>>
vars == <<script, at, coVars, event, queue, stack>>

Frame(fn, c, pc, owns) == [fn |-> fn, co |-> c, pc |-> pc, owns |-> owns]
Run(c)          == Frame("run", c, "next", FALSE)
Resumer(c, own) == Frame("resume", c, "check", own)
Item(kind, c, claimed) == [kind |-> kind, co |-> c, claimed |-> claimed]

Init ==
  /\ script \in Scripts /\ at = 1
  /\ continuation = [c \in All |-> None]
  /\ started = [c \in All |-> FALSE]
  /\ detached = [c \in All |-> FALSE]
  /\ life = [c \in All |-> "none"]
  /\ finished = [c \in All |-> FALSE]
  /\ pos = [c \in All |-> 1]
  /\ target = None
  /\ event = 0
  /\ queue = {}
  /\ stack = [t \in Threads |-> <<>>]

Top(t) == stack[t][Len(stack[t])]
At(t, fn, pc) == stack[t] # <<>> /\ Top(t).fn = fn /\ Top(t).pc = pc
Become(t, f) == stack' = [stack EXCEPT ![t] = Append(Front(@), f)]
Pop(t)       == stack' = [stack EXCEPT ![t] = Front(@)]
\* coroutine_context_slot: inside resume_coroutine or cooperative_wait.
HasContext(t) == \E d \in DOMAIN stack[t] : stack[t][d].fn \in {"resume", "cooperative_wait"}
\* What c awaits next.
Awaited(c) == IF c = Waiter THEN target ELSE Awaits[c][pos[c]]
Steps(c)   == IF c = Waiter THEN 1 ELSE Len(Awaits[c])
SubFrames(c) == IF c = Waiter THEN {} ELSE ToSet(Awaits[c])

-----------------------------------------------------------------------------
(* Main.                                                                   *)

Does(op) == stack[Main] = <<>> /\ at <= Len(script) /\ script[at].op = op
Arg == script[at].arg

Make ==
  /\ Does("make") /\ at' = at + 1
  /\ life' = [life EXCEPT ![Arg] = "live"]
  /\ UNCHANGED <<script, continuation, started, detached, finished, pos, target, event, queue, stack>>

\* Mutant: the start is not claimed when the executor is made.
SubmitUnclaimed ==
  /\ Does("submit") /\ at' = at + 1
  /\ queue' = queue \cup {Item("borrowed", Arg, TRUE)}
  /\ UNCHANGED <<script, coVars, event, stack>>
\* co_borrowed_executor claims the start when it is made.
SubmitBorrowed ==
  /\ Does("submit") /\ at' = at + 1
  /\ started' = [started EXCEPT ![Arg] = TRUE]
  /\ queue' = queue \cup {Item("borrowed", Arg, ~started[Arg])}
  /\ UNCHANGED <<script, continuation, detached, life, finished, pos, target, event, stack>>
SubmitMoved ==
  /\ Does("submit_move") /\ at' = at + 1
  /\ queue' = queue \cup {Item("moved", Arg, TRUE)}
  /\ UNCHANGED <<script, coVars, event, stack>>

\* wait and cooperative_wait make the waiter, which runs on Main until it is suspended.
Wait(op) ==
  /\ Does(op) /\ at' = at + 1
  /\ target' = Arg
  /\ life' = [life EXCEPT ![Waiter] = "live"] /\ pos' = [pos EXCEPT ![Waiter] = 1]
  /\ stack' = [stack EXCEPT ![Main] = <<Frame(op, Waiter, "event", FALSE), Run(Waiter)>>]
  /\ UNCHANGED <<script, continuation, started, detached, finished, event, queue>>
\* A cooperative_wait of the scheduler for an event that a coroutine releases.
WaitEvent ==
  /\ Does("cooperative_event") /\ at' = at + 1
  /\ stack' = [stack EXCEPT ![Main] = <<Frame("cooperative_event", Waiter, "event", FALSE)>>]
  /\ UNCHANGED <<script, coVars, event, queue>>
Acquire ==
  /\ \E fn \in {"wait", "cooperative_wait", "cooperative_event"} : At(Main, fn, "event")
  /\ event = 1 /\ event' = 0
  /\ Pop(Main)
  /\ UNCHANGED <<script, at, coVars, queue>>
\* wait_for_tasks of the scheduler.
WaitIdle ==
  /\ Does("idle") /\ queue = {} /\ \A t \in Threads : stack[t] = <<>>
  /\ at' = at + 1
  /\ UNCHANGED <<script, coVars, event, queue, stack>>
Destroy ==
  /\ Does("destroy") /\ at' = at + 1
  /\ life' = [life EXCEPT ![Arg] = "freed"]
  /\ UNCHANGED <<script, continuation, started, detached, finished, pos, target, event, queue, stack>>

-----------------------------------------------------------------------------
(* The scheduler calls the executors and the resumptions in its queue.     *)

MayTake(t) == \/ stack[t] = <<>> /\ t # Main
              \/ \E fn \in {"cooperative_wait", "cooperative_event"} : At(t, fn, "event") /\ event = 0
Take(t) ==
  /\ MayTake(t)
  /\ \E q \in queue :
       /\ queue' = queue \ {q}
       /\ \/ ~q.claimed /\ UNCHANGED <<started, detached, stack>>
          \/ /\ q.claimed
             /\ IF q.kind = "moved" THEN /\ detached' = [detached EXCEPT ![q.co] = TRUE]
                                         /\ started' = [started EXCEPT ![q.co] = TRUE]
                                    ELSE UNCHANGED <<detached, started>>
             /\ stack' = [stack EXCEPT ![t] = @ \o <<Resumer(q.co, detached'[q.co]), Run(q.co)>>]
  /\ UNCHANGED <<script, at, continuation, life, finished, pos, target, event>>

\* resume_coroutine, after resume(): a frame that is its own is destroyed if it is done.
AfterResume(t) ==
  /\ At(t, "resume", "check")
  /\ life' = IF Top(t).owns /\ finished[Top(t).co] THEN [life EXCEPT ![Top(t).co] = "freed"] ELSE life
  /\ Pop(t)
  /\ UNCHANGED <<script, at, continuation, started, detached, finished, pos, target, event, queue>>

-----------------------------------------------------------------------------
(* A coroutine runs.                                                       *)

\* dispatch_coroutine: new work for the scheduler; without a context c runs here and now.
Transfer(t, c) ==
  \/ HasContext(t) /\ queue' = queue \cup {Item("resume", c, TRUE)} /\ Pop(t)
  \/ ~HasContext(t) /\ Become(t, Run(c)) /\ UNCHANGED queue

\* It creates what it awaits; await_ready: go on if that is done already.
Await(t) ==
  /\ At(t, "run", "next")
  /\ LET c == Top(t).co IN
       /\ pos[c] <= Steps(c)
       /\ life' = IF c = Waiter THEN life ELSE [life EXCEPT ![Awaited(c)] = "live"]
       /\ \/ continuation[Awaited(c)] = Sentinel /\ pos' = [pos EXCEPT ![c] = @ + 1] /\ UNCHANGED stack
          \/ /\ continuation[Awaited(c)] # Sentinel
             /\ Become(t, [Top(t) EXCEPT !.pc = "install"])
             /\ UNCHANGED pos
  /\ UNCHANGED <<script, at, continuation, started, detached, finished, target, event, queue>>

\* await_suspend: from the moment the exchange succeeds another thread may resume c.
Install(t) ==
  /\ At(t, "run", "install")
  /\ LET c == Top(t).co
         d == Awaited(c) IN
       /\ continuation[d] \in {None, Sentinel}
       /\ pos' = [pos EXCEPT ![c] = @ + 1]
       /\ \/ /\ continuation[d] = None
             /\ continuation' = [continuation EXCEPT ![d] = c]
             /\ Become(t, Frame("suspend", c, d, FALSE))
          \/ /\ continuation[d] = Sentinel
             /\ Become(t, Run(c))
             /\ UNCHANGED continuation
  /\ UNCHANGED <<script, at, started, detached, life, finished, target, event, queue>>

\* It sets resume_group_ of what it awaits and starts that, unless it was started before.
StartAwaited(t) ==
  /\ stack[t] # <<>> /\ Top(t).fn = "suspend"
  /\ LET d == Top(t).pc IN
       /\ started' = [started EXCEPT ![d] = TRUE]
       /\ \/ started[d] /\ Pop(t) /\ UNCHANGED queue
          \/ ~started[d] /\ Transfer(t, d)
  /\ UNCHANGED <<script, at, continuation, detached, life, finished, pos, target, event>>

\* The body ends: its children go with it; then final_awaiter hands over to the continuation.
FinalSuspend(t) ==
  /\ At(t, "run", "next") /\ Top(t).co # Waiter
  /\ LET c == Top(t).co
         prev == continuation[c] IN
       /\ pos[c] > Steps(c)
       /\ life' = [d \in All |-> IF d \in SubFrames(c) THEN "freed" ELSE life[d]]
       /\ event' = IF c \in Signals THEN 1 ELSE event
       /\ finished' = [finished EXCEPT ![c] = TRUE]
       /\ continuation' = [continuation EXCEPT ![c] = Sentinel]
       /\ \/ prev = None /\ Pop(t) /\ UNCHANGED queue
          \/ prev = Waiter /\ Become(t, Run(Waiter)) /\ UNCHANGED queue
          \/ prev \in Coroutines /\ Transfer(t, prev)
  /\ UNCHANGED <<script, at, started, detached, pos, target>>

\* The waiter releases the semaphore and is gone.
WaiterEnds(t) ==
  /\ At(t, "run", "next") /\ Top(t).co = Waiter /\ pos[Waiter] = 2
  /\ event' = 1
  /\ life' = [life EXCEPT ![Waiter] = "freed"]
  /\ Pop(t)
  /\ UNCHANGED <<script, at, continuation, started, detached, finished, pos, target, queue>>

-----------------------------------------------------------------------------

ThreadStep(t) ==
  \/ Take(t) \/ AfterResume(t)
  \/ Await(t) \/ Install(t) \/ StartAwaited(t) \/ FinalSuspend(t) \/ WaiterEnds(t)
MainStep ==
  \/ Make \/ SubmitBorrowed \/ SubmitMoved \/ Wait("wait") \/ Wait("cooperative_wait")
  \/ WaitEvent \/ Acquire \/ WaitIdle \/ Destroy
Idle == at > Len(script) /\ queue = {} /\ \A t \in Threads : stack[t] = <<>>
Ended == Idle /\ UNCHANGED vars

Next == MainStep \/ (\E t \in Threads : ThreadStep(t)) \/ Ended
Spec == Init /\ [][Next]_vars
FairSpec == Spec /\ WF_vars(MainStep) /\ \A t \in Threads : WF_vars(ThreadStep(t))

-----------------------------------------------------------------------------

\* The types of all variables; the semaphore is binary.
TypeOK ==
  /\ script \in Scripts /\ at \in 1 .. Len(script) + 1
  /\ continuation \in [All -> All \cup {None, Sentinel}]
  /\ {started, detached, finished} \subseteq [All -> BOOLEAN]
  /\ life \in [All -> {"none", "live", "freed"}]
  /\ \A c \in All : pos[c] \in 1 .. Steps(c) + 1
  /\ target \in Coroutines \cup {None} /\ event \in 0 .. 1
  /\ queue \subseteq [kind : {"borrowed", "moved", "resume"}, co : Coroutines, claimed : BOOLEAN]
  /\ \A t \in Threads : \A d \in DOMAIN stack[t] :
       stack[t][d].fn \in Ops \cup {"run", "resume", "suspend"} /\ stack[t][d].co \in All

\* A thread that is still suspending a coroutine has the awaiter, which is in the frame of that
\* coroutine, and the coroutine it awaits, also when another thread resumes the first already.
AwaitersAlive ==
  \A t \in Threads : \A d \in DOMAIN stack[t] :
    LET f == stack[t][d] IN f.fn = "suspend" => life[f.co] = "live" /\ life[f.pc] = "live"

\* A resume_coroutine that will ask whether its own frame is done has that frame.
OwnersAlive ==
  \A t \in Threads : \A d \in DOMAIN stack[t] :
    stack[t][d].fn = "resume" /\ stack[t][d].owns => life[stack[t][d].co] = "live"

\* What runs, what is in the queue to be run, and who waits for a coroutine that has not
\* finished is not freed, and neither is that coroutine.
RunnersAlive ==
  /\ \A t \in Threads : \A d \in DOMAIN stack[t] :
       stack[t][d].fn = "run" => life[stack[t][d].co] = "live"
  /\ \A q \in queue : q.claimed => life[q.co] = "live"
  /\ \A c \in Coroutines : continuation[c] \in All => life[c] = "live" /\ life[continuation[c]] = "live"

\* A coroutine runs on one thread at a time, and no more once it is done.
OneRunner ==
  \A c \in All :
    LET runs == {t \in Threads : \E d \in DOMAIN stack[t] : stack[t][d].fn = "run" /\ stack[t][d].co = c}
    IN /\ Cardinality(runs) + Cardinality({q \in queue : q.co = c /\ q.claimed}) <= 1
       /\ finished[c] => runs = {}

\* Every wait returns and every frame is freed in the end.
AllFreed == Idle /\ \A c \in All : life[c] # "live"
AllEnd == <>AllFreed
=============================================================================
