------------------------- MODULE SchedulerV2Proofs -------------------------
(***************************************************************************)
(* Proofs about SchedulerV2 for every number of workers, groups, slots and *)
(* tasks and every program (Script) its clients run.                       *)
(***************************************************************************)
EXTENDS SchedulerV2, FiniteSetTheorems, TLAPS

-----------------------------------------------------------------------------
(* Types.                                                                  *)

LoopPCs == {"entry", "loop", "token", "arm", "check", "exit", "parked", "woken", "disarm", "exited"}
FindPCs == {"own", "pop", "steal", "mail", "next", "enter", "leave", "sink", "chain", "exec"}
WakePCs == {"wake_epoch", "wake_read", "wake_release"}
HoldPCs == {"sink", "chain", "exec"}
\* Where wake_up_workers returns to.
Returns == {"user", "help", "push_mail", "exec", "stopping"}

\* Where a thread goes on once it has woken the others.
Heading(t) == IF pc[t] \in WakePCs THEN wake[t].to ELSE pc[t]

Regs   == [by : {"first", "second", "help"}, saved : Groups \cup {None},
           cand : SUBSET Groups, victims : SUBSET AllSlots,
           grp : Groups \cup {None}, slot : AllSlots, item : Tasks \cup {None},
           tries : Nat, found : BOOLEAN]
Frame_ == [task : Tasks, by : {"first", "second", "help"}, saved : Groups \cup {None}]
Spots  == [grp : Groups \cup {None}, slot : AllSlots]

\* A thread at l may have the locals r.
LocalsAt(t, l, r) ==
  /\ l \in LoopPCs => t \in Workers \ {Main}
  /\ l \in FindPCs \cup {"help", "restore", "restore_leave", "back", "push_local"} => t \in Workers
  /\ l \in FindPCs /\ r.by # "help" => t # Main
  /\ l \in FindPCs \ {"own", "next"} => r.grp \in Groups
  /\ l \in HoldPCs => r.item \in Tasks
  /\ l = "restore_leave" => r.saved \in Groups

QueueTypes == /\ deque \in [Groups -> [AllSlots -> Seq(Tasks)]]
              /\ mailbox \in [Groups -> Seq(Tasks)]
              /\ hasWork \in [Groups -> Int]
ParkTypes  == /\ sleeping \in Int
              /\ tokens \in 0 .. TokenBound
              /\ bumped \in [Workers -> BOOLEAN]
CtlTypes   == /\ pending \in Int
              /\ stop \in BOOLEAN /\ up \in BOOLEAN
              /\ event \in [Events -> {0, 1}]
FlowTypes  == /\ stack \in [Threads -> Seq(Frame_)]
              /\ at \in [{Main} \cup Foreign \cup Tasks -> Nat \ {0}]
              /\ \A t \in Threads : stack[t] # <<>> => t \in Workers
              /\ \A t \in Threads : \A i \in DOMAIN stack[t] : stack[t][i].by # "help" => t # Main
HistTypes  == done \subseteq submitted /\ submitted \subseteq Tasks
PlaceTypes == /\ free \in [Groups -> SUBSET AllSlots]
              /\ \A g \in Groups : free[g] \subseteq SlotsOf(g)
              /\ place \in [Workers -> Spots]
ThreadTypes == /\ pc \in [Threads -> PCs]
               /\ wake \in [Threads -> [want : Nat, to : Returns]]
               /\ reg \in [Threads -> Regs]
               /\ \A t \in Threads : LocalsAt(t, Heading(t), reg[t])
Types == QueueTypes /\ ParkTypes /\ CtlTypes /\ FlowTypes /\ PlaceTypes /\ ThreadTypes
         /\ submitted \subseteq Tasks

\* The last element of a non-empty sequence, and what is left before it.
LEMMA LastOfSeq ==
  ASSUME NEW S, NEW s \in Seq(S), s # <<>>
  PROVE  /\ s[Len(s)] \in S /\ Head(s) \in S /\ Len(s) \in DOMAIN s
         /\ SubSeq(s, 1, Len(s) - 1) \in Seq(S) /\ Tail(s) \in Seq(S)
<1>1. Len(s) \in Nat \ {0}
  OBVIOUS
<1>. QED BY <1>1

\* The slots are numbers, and slot 0 of group 0 is one.
LEMMA SlotFacts ==
  /\ AllSlots \subseteq Nat /\ 0 \in AllSlots /\ 0 \in SlotsOf(0)
  /\ \A g \in Groups : SlotsOf(g) \subseteq AllSlots
<1>1. \A g \in Groups : Slots[g] \in Nat \ {0}
  BY GroupAssumption
<1>2. \A g \in Groups : SlotsOf(g) \subseteq Nat /\ 0 \in SlotsOf(g)
  BY <1>1 DEF SlotsOf
<1>. QED BY <1>2, GroupAssumption DEF AllSlots

\* A thread runs itself or the task on top of its stack.
LEMMA FrameTyped ==
  ASSUME FlowTypes, NEW t \in Threads
  PROVE  /\ stack[t] # <<>> => Top(t) \in Frame_ /\ t \in Workers /\ Len(stack[t]) \in DOMAIN stack[t]
         /\ Frame(t) \in {t} \cup Tasks
         /\ ~InLoop(t) => Frame(t) \in {Main} \cup Foreign \cup Tasks
<1>1. stack[t] \in Seq(Frame_)
  BY DEF FlowTypes
<1>2. stack[t] # <<>> => Top(t) \in Frame_ /\ Len(stack[t]) \in DOMAIN stack[t]
  BY <1>1, LastOfSeq DEF Top
<1>3. stack[t] # <<>> => t \in Workers
  BY DEF FlowTypes
<1>. QED BY <1>2, <1>3 DEF Frame, Frame_, InLoop, Threads

\* The call a thread is in names a task or an event, as its operation demands.
LEMMA CallTyped ==
  ASSUME FlowTypes, NEW t \in Threads, NEW op, Calls(t, op)
  PROVE  /\ op = "submit" => Call(t).arg \in Tasks /\ Dest[Call(t).arg] \in Groups
         /\ op \in {"signal", "cwait", "block"} => Call(t).arg \in Events
         /\ op = "cwait" => t \in Workers
         /\ op \in {"begin", "waitall", "end"} => t = Main /\ stack[t] = <<>>
         /\ Frame(t) \in {Main} \cup Foreign \cup Tasks
<1>1. Frame(t) \in {Main} \cup Foreign \cup Tasks
  BY FrameTyped DEF Calls, HasCall
<1>2. Frame(t) \in DOMAIN Script /\ Script[Frame(t)] \in Seq(Op)
  BY <1>1, TaskAssumption
<1>3. at[Frame(t)] \in DOMAIN Script[Frame(t)]
  BY <1>1, <1>2 DEF Calls, HasCall, FlowTypes
<1>4. Call(t).op = op
  BY DEF Calls
<1>5. op = "cwait" => Frame(t) \notin Foreign
  BY <1>2, <1>3, <1>4, ScriptAssumption DEF Call
<1>6. op \in {"begin", "waitall", "end"} => Frame(t) = Main
  BY <1>2, <1>3, <1>4, ScriptAssumption DEF Call
<1>7. Main \in Workers /\ Main \notin Tasks
  BY ThreadAssumption, TaskAssumption DEF Main, Workers, Threads
<1>8. op = "cwait" => t \in Workers
  BY <1>5, FrameTyped DEF Frame, Threads
<1>9. op \in {"begin", "waitall", "end"} => t = Main /\ stack[t] = <<>>
  BY <1>6, <1>7, FrameTyped DEF Frame, Frame_
<1>. QED BY <1>1, <1>2, <1>3, <1>4, <1>8, <1>9, ScriptAssumption, TaskAssumption DEF Call

\* Main is a worker, and no task is a thread.
LEMMA MainWorks == Main \in Workers /\ Workers \subseteq Threads
BY ThreadAssumption DEF Main, Workers, Threads

\* What the helpers that move a thread do.
LEMMA GoHeading ==
  ASSUME ThreadTypes, NEW t \in Threads, NEW l \in PCs \ WakePCs, Goto(t, l), wake' = wake
  PROVE  /\ pc' \in [Threads -> PCs] /\ wake' \in [Threads -> [want : Nat, to : Returns]]
         /\ Heading(t)' = l /\ pc'[t] = l
         /\ \A u \in Threads \ {t} : pc'[u] = pc[u] /\ Heading(u)' = Heading(u)
BY DEF ThreadTypes, Goto, Heading

\* The same for wake_up_workers.
LEMMA WakeHeading ==
  ASSUME ThreadTypes, NEW t \in Threads, NEW n \in Nat, NEW l \in Returns, WakeThen(t, n, l)
  PROVE  /\ pc' \in [Threads -> PCs] /\ wake' \in [Threads -> [want : Nat, to : Returns]]
         /\ Heading(t)' = l /\ pc'[t] = "wake_epoch"
         /\ \A u \in Threads \ {t} : pc'[u] = pc[u] /\ Heading(u)' = Heading(u)
<1>1. pc' = [pc EXCEPT ![t] = "wake_epoch"] /\ wake' = [wake EXCEPT ![t] = [want |-> n, to |-> l]]
  BY DEF WakeThen, Goto
<1>2. "wake_epoch" \in PCs /\ "wake_epoch" \in WakePCs
  BY DEF PCs, WakePCs
<1>3. pc' \in [Threads -> PCs] /\ wake' \in [Threads -> [want : Nat, to : Returns]]
  BY <1>1, <1>2 DEF ThreadTypes
<1>. QED BY <1>1, <1>2, <1>3 DEF ThreadTypes, Heading

\* A step that moves t only keeps ThreadTypes if t may have its locals where it goes.
LEMMA ThreadKeeps ==
  ASSUME ThreadTypes, NEW t \in Threads,
         pc' \in [Threads -> PCs], wake' \in [Threads -> [want : Nat, to : Returns]],
         \A u \in Threads \ {t} : pc'[u] = pc[u] /\ Heading(u)' = Heading(u),
         NEW r \in Regs, reg' = [reg EXCEPT ![t] = r],
         LocalsAt(t, Heading(t)', r)
  PROVE  ThreadTypes'
<1>1. reg' \in [Threads -> Regs] /\ reg'[t] = r /\ \A u \in Threads \ {t} : reg'[u] = reg[u]
  BY DEF ThreadTypes
<1>2. \A u \in Threads : LocalsAt(u, Heading(u)', reg'[u])
  BY <1>1 DEF ThreadTypes
<1>. QED BY <1>1, <1>2 DEF ThreadTypes, LocalsAt

\* A record of locals that changes in one field.
LEMMA RegChange ==
  ASSUME ThreadTypes, NEW t \in Threads
  PROVE  /\ reg[t] \in Regs /\ reg = [reg EXCEPT ![t] = reg[t]]
         /\ NoRegs \in Regs
<1>1. reg \in [Threads -> Regs]
  BY DEF ThreadTypes
<1>2. NoRegs \in Regs
  BY SlotFacts DEF NoRegs, Regs
<1>. QED BY <1>1, <1>2

\* Going to l with the locals r.
LEMMA GoWith ==
  ASSUME ThreadTypes, NEW t \in Threads, NEW l \in PCs \ WakePCs, Goto(t, l), wake' = wake,
         NEW r \in Regs, reg' = [reg EXCEPT ![t] = r], LocalsAt(t, l, r)
  PROVE  ThreadTypes'
BY GoHeading, ThreadKeeps

\* Going to l.
LEMMA GoKeeps ==
  ASSUME ThreadTypes, NEW t \in Threads, NEW l \in PCs \ WakePCs, Goto(t, l), wake' = wake,
         reg' = reg, LocalsAt(t, l, reg[t])
  PROVE  ThreadTypes'
BY GoWith, RegChange

\* Waking others with the locals r.
LEMMA WakeWith ==
  ASSUME ThreadTypes, NEW t \in Threads, NEW n \in Nat, NEW l \in Returns, WakeThen(t, n, l),
         NEW r \in Regs, reg' = [reg EXCEPT ![t] = r], LocalsAt(t, l, r)
  PROVE  ThreadTypes'
BY WakeHeading, ThreadKeeps

\* Waking others.
LEMMA WakeKeeps ==
  ASSUME ThreadTypes, NEW t \in Threads, NEW n \in Nat, NEW l \in Returns, WakeThen(t, n, l),
         reg' = reg, LocalsAt(t, l, reg[t])
  PROVE  ThreadTypes'
BY WakeWith, RegChange

\* New locals where t is.
LEMMA StayWith ==
  ASSUME ThreadTypes, NEW t \in Threads, pc' = pc, wake' = wake, pc[t] \notin WakePCs,
         NEW r \in Regs, reg' = [reg EXCEPT ![t] = r], LocalsAt(t, pc[t], r)
  PROVE  ThreadTypes'
<1>1. \A u \in Threads : Heading(u)' = Heading(u)
  BY DEF Heading
<1>2. Heading(t)' = pc[t]
  BY DEF Heading
<1>. QED BY <1>1, <1>2, ThreadKeeps DEF ThreadTypes

\* The locals with which find_work_for_worker starts.
LEMMA FindKeeps ==
  ASSUME ThreadTypes, NEW t \in Workers, NEW by \in {"first", "second", "help"},
         by # "help" => t # Main, NEW g \in Groups \cup {None}, NEW n \in Nat,
         Find(t, by, g, n), wake' = wake
  PROVE  ThreadTypes'
<1> DEFINE r == [NoRegs EXCEPT !.by = by, !.saved = g, !.tries = n, !.cand = Groups]
<1>1. r \in Regs /\ r.by = by
  BY RegChange, MainWorks DEF Regs, NoRegs
<1>2. reg' = [reg EXCEPT ![t] = r] /\ Goto(t, "own")
  BY DEF Find
<1>3. LocalsAt(t, "own", r)
  BY <1>1 DEF LocalsAt, LoopPCs, FindPCs, HoldPCs
<1>4. "own" \in PCs \ WakePCs
  BY DEF PCs, WakePCs
<1>. HIDE DEF r
<1>. QED BY <1>1, <1>2, <1>3, <1>4, GoWith, MainWorks

\* busy_work starts.
LEMMA HelpKeeps ==
  ASSUME ThreadTypes, PlaceTypes, NEW t \in Workers, Help(t), wake' = wake
  PROVE  ThreadTypes'
<1>1. place[t].grp \in Groups \cup {None}
  BY DEF PlaceTypes, Spots
<1>2. PICK n \in {0, HelpRetries} : Find(t, "help", place[t].grp, n)
  BY DEF Help
<1>3. n \in Nat
  BY SizeAssumption
<1>. QED BY <1>1, <1>2, <1>3, FindKeeps

\* An item was found.
LEMMA GotKeeps ==
  ASSUME ThreadTypes, NEW t \in Threads, pc[t] \in {"pop", "steal", "mail"}, NEW k \in Tasks,
         Got(t, k), wake' = wake
  PROVE  ThreadTypes'
<1> DEFINE r == [reg[t] EXCEPT !.item = k]
<1>1. r \in Regs /\ reg' = [reg EXCEPT ![t] = r] /\ Goto(t, "sink")
      /\ r.item = k /\ r.by = reg[t].by /\ r.grp = reg[t].grp
  BY RegChange DEF Regs, Got
<1>2. LocalsAt(t, pc[t], reg[t])
  BY DEF ThreadTypes, Heading, WakePCs
<1>3. LocalsAt(t, "sink", r)
  BY <1>1, <1>2 DEF LocalsAt, LoopPCs, FindPCs, HoldPCs
<1>4. "sink" \in PCs \ WakePCs
  BY DEF PCs, WakePCs
<1>. HIDE DEF r
<1>. QED BY <1>1, <1>3, <1>4, GoWith

\* Nothing was found.
LEMMA NotFoundKeeps ==
  ASSUME ThreadTypes, NEW t \in Threads, pc[t] = "next", NotFound(t), wake' = wake
  PROVE  ThreadTypes'
<1>1. LocalsAt(t, "next", reg[t]) /\ reg[t] \in Regs /\ NoRegs \in Regs
  BY RegChange DEF ThreadTypes, Heading, WakePCs
<1>2. t \in Workers /\ reg[t].by \in {"first", "second", "help"} /\ (reg[t].by # "help" => t # Main)
      /\ reg[t].tries \in Nat /\ reg[t].saved \in Groups \cup {None}
  BY <1>1 DEF LocalsAt, FindPCs, Regs
<1>3. {"arm", "check", "restore"} \subseteq PCs \ WakePCs
  BY DEF PCs, WakePCs
<1>4. CASE reg[t].by = "first"
  <2>1. Goto(t, "arm") /\ reg' = [reg EXCEPT ![t] = NoRegs]
    BY <1>4 DEF NotFound, Forget
  <2>2. LocalsAt(t, "arm", NoRegs)
    BY <1>2, <1>4 DEF LocalsAt, FindPCs, HoldPCs
  <2>. QED BY <2>1, <2>2, <1>1, <1>3, GoWith
<1>5. CASE reg[t].by = "second"
  <2>1. Goto(t, "check") /\ reg' = [reg EXCEPT ![t] = NoRegs]
    BY <1>5 DEF NotFound, Forget
  <2>2. LocalsAt(t, "check", NoRegs)
    BY <1>2, <1>5 DEF LocalsAt, FindPCs, HoldPCs
  <2>. QED BY <2>1, <2>2, <1>1, <1>3, GoWith
<1>6. CASE reg[t].by = "help"
  <2>1. CASE reg[t].tries > 0
    <3>1. Find(t, "help", reg[t].saved, reg[t].tries - 1) /\ reg[t].tries - 1 \in Nat
      BY <1>2, <1>6, <2>1 DEF NotFound
    <3>. QED BY <3>1, <1>2, FindKeeps
  <2>2. CASE ~(reg[t].tries > 0)
    <3>1. Goto(t, "restore") /\ reg' = reg
      BY <1>6, <2>2 DEF NotFound
    <3>2. LocalsAt(t, "restore", reg[t])
      BY <1>2 DEF LocalsAt, FindPCs, HoldPCs, LoopPCs
    <3>. QED BY <3>1, <3>2, <1>3, GoKeeps
  <2>. QED BY <2>1, <2>2
<1>. QED BY <1>2, <1>4, <1>5, <1>6


\* The locals of a thread that wakes nobody.
LEMMA LocalsHere ==
  ASSUME ThreadTypes, NEW t \in Threads, pc[t] \notin WakePCs
  PROVE  LocalsAt(t, pc[t], reg[t]) /\ reg[t] \in Regs
BY RegChange DEF ThreadTypes, Heading

\* The steps of run_worker that keep the locals.
LEMMA ThreadLoop ==
  ASSUME ThreadTypes, NEW t \in Threads,
         \/ Entry(t) \/ LoopHead(t) \/ EpochCheck(t) \/ Exit(t)
         \/ Acquire(t) \/ Woken(t) \/ Disarm(t)
  PROVE  ThreadTypes'
<1>1. pc[t] \in LoopPCs /\ reg' = reg /\ wake' = wake /\ \E l \in LoopPCs : Goto(t, l)
  BY DEF Entry, LoopHead, EpochCheck, Exit, Acquire, Woken, Disarm, LoopPCs
<1>2. PICK l \in LoopPCs : Goto(t, l)
  BY <1>1
<1>3. l \in PCs \ WakePCs /\ pc[t] \notin WakePCs
  BY <1>1 DEF LoopPCs, PCs, WakePCs
<1>4. t \in Workers \ {Main}
  BY <1>1, <1>3, LocalsHere DEF LocalsAt
<1>5. LocalsAt(t, l, reg[t])
  BY <1>4 DEF LocalsAt, LoopPCs, FindPCs, HoldPCs
<1>. QED BY <1>1, <1>2, <1>3, <1>5, GoKeeps

\* The two searches of run_worker, and busy_work when the mailbox is full.
LEMMA ThreadFinds ==
  ASSUME ThreadTypes, PlaceTypes, NEW t \in Threads, LoadToken(t) \/ Arm(t) \/ MailHelp(t)
  PROVE  ThreadTypes'
<1>1. pc[t] \in {"token", "arm", "help"} /\ wake' = wake
  BY DEF LoadToken, Arm, MailHelp
<1>2. t \in Workers /\ (pc[t] \in {"token", "arm"} => t # Main)
  BY <1>1, LocalsHere DEF LocalsAt, LoopPCs, WakePCs
<1>3. CASE LoadToken(t)
  BY <1>1, <1>2, <1>3, FindKeeps DEF LoadToken
<1>4. CASE Arm(t)
  BY <1>1, <1>2, <1>4, FindKeeps DEF Arm
<1>5. CASE MailHelp(t)
  BY <1>1, <1>2, <1>5, HelpKeeps DEF MailHelp
<1>. QED BY <1>3, <1>4, <1>5

\* Places that no local variable matters for.
Plain == {"user", "latch", "push_mail", "advertise", "wait_more", "set_stop", "stopping", "join"}

LEMMA GoPlain ==
  ASSUME ThreadTypes, NEW t \in Threads, NEW l \in Plain, Goto(t, l), wake' = wake,
         reg' = reg \/ (\E r \in Regs : reg' = [reg EXCEPT ![t] = r])
  PROVE  ThreadTypes'
<1>1. l \in PCs \ WakePCs
  BY DEF Plain, PCs, WakePCs
<1>2. \A r : LocalsAt(t, l, r)
  BY DEF Plain, LocalsAt, LoopPCs, FindPCs, HoldPCs
<1>3. CASE reg' = reg
  BY <1>1, <1>2, <1>3, GoKeeps
<1>4. ASSUME NEW r \in Regs, reg' = [reg EXCEPT ![t] = r] PROVE ThreadTypes'
  BY <1>1, <1>2, <1>4, GoWith
<1>. QED BY <1>3, <1>4

LEMMA WakePlain ==
  ASSUME ThreadTypes, NEW t \in Threads, NEW n \in Nat,
         NEW l \in {"user", "push_mail", "stopping"}, WakeThen(t, n, l),
         reg' = reg \/ (\E r \in Regs : reg' = [reg EXCEPT ![t] = r])
  PROVE  ThreadTypes'
<1>1. l \in Returns
  BY DEF Returns
<1>2. \A r : LocalsAt(t, l, r)
  BY DEF LocalsAt, LoopPCs, FindPCs, HoldPCs
<1>3. CASE reg' = reg
  BY <1>1, <1>2, <1>3, WakeKeeps
<1>4. ASSUME NEW r \in Regs, reg' = [reg EXCEPT ![t] = r] PROVE ThreadTypes'
  BY <1>1, <1>2, <1>4, WakeWith
<1>. QED BY <1>3, <1>4

\* begin_execution: the workers start, the others go on.
LEMMA ThreadBegin ==
  ASSUME ThreadTypes, Begin PROVE ThreadTypes'
<1>1. pc' = [t \in Threads |-> IF t \in Workers \ {Main} THEN "entry"
                               ELSE IF t = Main THEN "latch" ELSE pc[t]]
      /\ wake' = wake /\ reg' = reg
  BY DEF Begin
<1>2. {"entry", "latch"} \subseteq PCs \ WakePCs
  BY DEF PCs, WakePCs
<1>3. \A t \in Threads : Heading(t)' = IF t \in Workers \ {Main} THEN "entry"
                                       ELSE IF t = Main THEN "latch" ELSE Heading(t)
  BY <1>1, <1>2 DEF Heading
<1>4. \A t \in Threads : LocalsAt(t, Heading(t)', reg[t])
  <2>1. SUFFICES ASSUME NEW t \in Threads PROVE LocalsAt(t, Heading(t)', reg[t])
    OBVIOUS
  <2>2. CASE t \in Workers \ {Main}
    BY <2>2, <1>3 DEF LocalsAt, LoopPCs, FindPCs, HoldPCs
  <2>3. CASE t = Main
    BY <2>3, <1>3 DEF LocalsAt, LoopPCs, FindPCs, HoldPCs
  <2>4. CASE t \notin Workers /\ t # Main
    BY <2>4, <1>3 DEF ThreadTypes
  <2>. QED BY <2>2, <2>3, <2>4
<1>5. pc' \in [Threads -> PCs]
  BY <1>1, <1>2 DEF ThreadTypes
<1>. QED BY <1>1, <1>4, <1>5 DEF ThreadTypes

\* The steps that end in a place for which the locals do not matter.
LEMMA ThreadPlain ==
  ASSUME ThreadTypes, FlowTypes, NEW t \in Threads,
         \/ t = Main /\ Latch
         \/ Submit(t) \/ PushLocal(t) \/ Advertise(t) \/ Block(t) \/ Signal(t)
         \/ SetStop(t) \/ Stopping(t) \/ Join(t) \/ Exec(t)
  PROVE  ThreadTypes'
<1>0. WorkerCount \in Nat /\ 1 \in Nat /\ NoRegs \in Regs
  BY ThreadAssumption, RegChange
<1>1. CASE t = Main /\ Latch
  BY <1>1, GoPlain DEF Latch, Plain
<1>2. CASE Submit(t)
  <2>1. CASE t \in Workers /\ place[t].grp = Dest[Call(t).arg]
    <3>1. Goto(t, "push_local") /\ wake' = wake /\ reg' = reg
      BY <1>2, <2>1 DEF Submit
    <3>2. LocalsAt(t, "push_local", reg[t]) /\ "push_local" \in PCs \ WakePCs
      BY <2>1 DEF LocalsAt, LoopPCs, FindPCs, HoldPCs, PCs, WakePCs
    <3>. QED BY <3>1, <3>2, GoKeeps
  <2>2. CASE ~(t \in Workers /\ place[t].grp = Dest[Call(t).arg])
    <3>1. Goto(t, "push_mail") /\ wake' = wake /\ reg' = reg
      BY <1>2, <2>2 DEF Submit
    <3>. QED BY <3>1, GoPlain DEF Plain
  <2>. QED BY <2>1, <2>2
<1>3. CASE PushLocal(t)
  <2>1. wake' = wake /\ reg' = reg /\ (Goto(t, "advertise") \/ Goto(t, "push_mail"))
    BY <1>3 DEF PushLocal
  <2>. QED BY <2>1, GoPlain DEF Plain
<1>4. CASE Advertise(t)
  BY <1>0, <1>4, WakePlain DEF Advertise
<1>5. CASE Block(t) \/ Signal(t)
  BY <1>5 DEF Block, Signal, ThreadTypes, Heading
<1>6. CASE SetStop(t)
  BY <1>6, GoPlain DEF SetStop, Plain
<1>7. CASE Stopping(t)
  <2>1. CASE Goto(t, "join") /\ UNCHANGED wake
    BY <1>7, <2>1, GoPlain DEF Stopping, Plain
  <2>2. CASE WakeThen(t, WorkerCount, "stopping")
    BY <1>0, <1>7, <2>2, WakePlain DEF Stopping
  <2>. QED BY <1>7, <2>1, <2>2 DEF Stopping
<1>8. CASE Join(t)
  BY <1>8, GoPlain DEF Join, Plain
<1>9. CASE Exec(t)
  BY <1>0, <1>9, GoPlain DEF Exec, Plain, Forget
<1>. QED BY <1>1, <1>2, <1>3, <1>4, <1>5, <1>6, <1>7, <1>8, <1>9

\* submit_to_mailbox fails: a worker will help.
LEMMA ThreadPushMail ==
  ASSUME ThreadTypes, NEW t \in Threads, PushMail(t) PROVE ThreadTypes'
<1>0. WorkerCount \in Nat
  BY ThreadAssumption
<1>1. reg' = reg
  BY DEF PushMail
<1>2. CASE Goto(t, "advertise") /\ UNCHANGED wake
  BY <1>1, <1>2, GoPlain DEF Plain
<1>3. CASE WakeThen(t, WorkerCount, IF t \in Workers THEN "help" ELSE "push_mail")
  <2>1. CASE t \in Workers
    <3>1. LocalsAt(t, "help", reg[t]) /\ "help" \in Returns
      BY <2>1 DEF LocalsAt, LoopPCs, FindPCs, HoldPCs, Returns
    <3>. QED BY <1>0, <1>1, <1>3, <2>1, <3>1, WakeKeeps
  <2>2. CASE t \notin Workers
    BY <1>0, <1>1, <1>3, <2>2, WakePlain
  <2>. QED BY <2>1, <2>2
<1>. QED BY <1>2, <1>3 DEF PushMail

\* wake_up_workers.
LEMMA ThreadWakes ==
  ASSUME ThreadTypes, ParkTypes, NEW t \in Threads, WakeEpoch(t) \/ WakeRead(t) \/ WakeRelease(t)
  PROVE  ThreadTypes'
<1>1. pc[t] \in WakePCs /\ reg' = reg
  BY DEF WakeEpoch, WakeRead, WakeRelease, WakePCs
<1>2. wake[t] \in [want : Nat, to : Returns] /\ wake[t].to \notin WakePCs /\ wake[t].to \in PCs
  BY DEF ThreadTypes, Returns, WakePCs, PCs
<1>3. LocalsAt(t, wake[t].to, reg[t])
  BY <1>1 DEF ThreadTypes, Heading
<1>4. reg' = [reg EXCEPT ![t] = reg[t]] /\ reg[t] \in Regs
  BY <1>1, RegChange
<1>5. CASE Goto(t, wake[t].to) /\ wake' = [wake EXCEPT ![t] = NoWake]
  <2>1. NoWake \in [want : Nat, to : Returns]
    BY DEF NoWake, Returns
  <2>2. /\ pc' \in [Threads -> PCs] /\ wake' \in [Threads -> [want : Nat, to : Returns]]
        /\ Heading(t)' = wake[t].to
        /\ \A u \in Threads \ {t} : pc'[u] = pc[u] /\ Heading(u)' = Heading(u)
    BY <1>2, <1>5, <2>1 DEF ThreadTypes, Goto, Heading
  <2>. QED BY <1>3, <1>4, <2>2, ThreadKeeps
<1>6. ASSUME NEW l \in WakePCs, NEW n \in Nat, Goto(t, l), wake' = [wake EXCEPT ![t].want = n]
      PROVE  ThreadTypes'
  <2>1. l \in PCs
    BY DEF WakePCs, PCs
  <2>2. /\ pc' \in [Threads -> PCs] /\ wake' \in [Threads -> [want : Nat, to : Returns]]
        /\ Heading(t)' = wake[t].to
        /\ \A u \in Threads \ {t} : pc'[u] = pc[u] /\ Heading(u)' = Heading(u)
    BY <1>2, <1>6, <2>1 DEF ThreadTypes, Goto, Heading
  <2>. QED BY <1>3, <1>4, <2>2, ThreadKeeps
<1>7. CASE WakeEpoch(t)
  <2>1. Goto(t, "wake_read") /\ wake' = wake /\ "wake_read" \in WakePCs
    BY <1>7 DEF WakeEpoch, WakePCs
  <2>2. wake' = [wake EXCEPT ![t].want = wake[t].want] /\ wake[t].want \in Nat
    BY <1>2, <2>1 DEF ThreadTypes
  <2>. QED BY <1>6, <2>1, <2>2
<1>8. CASE WakeRead(t)
  <2>1. CASE sleeping <= 0
    BY <1>5, <1>8, <2>1 DEF WakeRead, ParkTypes
  <2>2. CASE sleeping > 0
    <3> DEFINE n == IF wake[t].want < sleeping THEN wake[t].want ELSE sleeping
    <3>1. n \in Nat
      BY <1>2, <2>2 DEF ParkTypes
    <3>2. Goto(t, "wake_release") /\ wake' = [wake EXCEPT ![t].want = n] /\ "wake_release" \in WakePCs
      BY <1>8, <2>2 DEF WakeRead, WakePCs, ParkTypes
    <3>. HIDE DEF n
    <3>. QED BY <1>6, <3>1, <3>2
  <2>. QED BY <2>1, <2>2 DEF ParkTypes
<1>9. CASE WakeRelease(t)
  BY <1>5, <1>9 DEF WakeRelease
<1>. QED BY <1>7, <1>8, <1>9

\* find_work_for_worker: the own group, and the items of a group.
LEMMA ThreadSearch ==
  ASSUME QueueTypes, PlaceTypes, ThreadTypes, NEW t \in Threads,
         OwnGroup(t) \/ PopOwn(t) \/ Steal(t) \/ TakeMail(t)
  PROVE  ThreadTypes'
<1>1. pc[t] \in {"own", "pop", "steal", "mail"} /\ wake' = wake
  BY DEF OwnGroup, PopOwn, Steal, TakeMail
<1>2. LocalsAt(t, pc[t], reg[t]) /\ reg[t] \in Regs /\ pc[t] \notin WakePCs
  BY <1>1, LocalsHere DEF WakePCs
<1>3. t \in Workers /\ (reg[t].by # "help" => t # Main)
      /\ (pc[t] # "own" => reg[t].grp \in Groups)
  BY <1>1, <1>2 DEF LocalsAt, FindPCs
<1>4. {"own", "pop", "steal", "mail", "next"} \subseteq PCs \ WakePCs
  BY DEF PCs, WakePCs
<1>5. ASSUME Goto(t, "next"), reg' = reg PROVE ThreadTypes'
  <2>1. LocalsAt(t, "next", reg[t])
    BY <1>3 DEF LocalsAt, LoopPCs, FindPCs, HoldPCs
  <2>. QED BY <1>1, <1>4, <1>5, <2>1, GoKeeps
<1>6. ASSUME NEW r \in Regs, r.by = reg[t].by, r.grp \in Groups
      PROVE  LocalsAt(t, "pop", r) /\ LocalsAt(t, "steal", r) /\ LocalsAt(t, "mail", r)
  BY <1>3, <1>6 DEF LocalsAt, LoopPCs, FindPCs, HoldPCs
<1>7. CASE OwnGroup(t)
  <2>1. CASE place[t].grp # None /\ reg' = [reg EXCEPT ![t].grp = place[t].grp] /\ Goto(t, "pop")
    <3> DEFINE r == [reg[t] EXCEPT !.grp = place[t].grp]
    <3>1. place[t].grp \in Groups
      BY <1>3, <2>1 DEF PlaceTypes, Spots
    <3>2. r \in Regs /\ r.by = reg[t].by /\ r.grp \in Groups /\ reg' = [reg EXCEPT ![t] = r]
      BY <1>2, <2>1, <3>1 DEF Regs
    <3>. HIDE DEF r
    <3>. QED BY <1>1, <1>4, <1>6, <2>1, <3>2, GoWith
  <2>2. CASE Goto(t, "next") /\ UNCHANGED reg
    BY <1>5, <2>2
  <2>. QED BY <1>7, <2>1, <2>2 DEF OwnGroup
<1>8. CASE PopOwn(t)
  <2>1. deque[reg[t].grp][place[t].slot] \in Seq(Tasks) /\ SlotsOf(reg[t].grp) \subseteq AllSlots
    BY <1>3, <1>8, SlotFacts DEF QueueTypes, PlaceTypes, Spots, PopOwn
  <2>2. CASE deque[reg[t].grp][place[t].slot] # <<>>
    BY <1>1, <1>8, <2>1, <2>2, GotKeeps, LastOfSeq DEF PopOwn
  <2>3. CASE deque[reg[t].grp][place[t].slot] = <<>>
    <3> DEFINE r == [reg[t] EXCEPT !.victims = SlotsOf(reg[t].grp)]
    <3>1. r \in Regs /\ r.by = reg[t].by /\ r.grp = reg[t].grp
          /\ reg' = [reg EXCEPT ![t] = r] /\ Goto(t, "steal")
      BY <1>2, <1>8, <2>1, <2>3 DEF Regs, PopOwn
    <3>. HIDE DEF r
    <3>. QED BY <1>1, <1>3, <1>4, <1>6, <1>8, <3>1, GoWith DEF PopOwn
  <2>. QED BY <2>2, <2>3
<1>9. CASE Steal(t)
  <2>1. CASE reg[t].victims = {} /\ Goto(t, "mail") /\ UNCHANGED reg
    BY <1>1, <1>2, <1>3, <1>4, <1>6, <1>9, <2>1, GoKeeps DEF Steal
  <2>2. ASSUME NEW v \in reg[t].victims, deque[reg[t].grp][v] # <<>>, Got(t, Head(deque[reg[t].grp][v]))
        PROVE  ThreadTypes'
    <3>1. deque[reg[t].grp][v] \in Seq(Tasks)
      BY <1>2, <1>3, <1>9 DEF QueueTypes, Steal, Regs
    <3>2. Head(deque[reg[t].grp][v]) \in Tasks
      BY <2>2, <3>1, LastOfSeq
    <3>3. pc[t] \in {"pop", "steal", "mail"}
      BY <1>9 DEF Steal
    <3>. QED BY <1>1, <2>2, <3>2, <3>3, GotKeeps
  <2>3. ASSUME NEW v \in reg[t].victims, reg' = [reg EXCEPT ![t].victims = @ \ {v}], pc' = pc
        PROVE  ThreadTypes'
    <3> DEFINE r == [reg[t] EXCEPT !.victims = @ \ {v}]
    <3>1. r \in Regs /\ r.by = reg[t].by /\ r.grp = reg[t].grp /\ reg' = [reg EXCEPT ![t] = r]
      BY <1>2, <2>3 DEF Regs
    <3>. HIDE DEF r
    <3>. QED BY <1>1, <1>2, <1>3, <1>6, <1>9, <2>3, <3>1, StayWith DEF Steal
  <2>. QED BY <1>9, <2>1, <2>2, <2>3 DEF Steal
<1>10. CASE TakeMail(t)
  <2>1. mailbox[reg[t].grp] \in Seq(Tasks)
    BY <1>3, <1>10 DEF QueueTypes, TakeMail
  <2>2. CASE mailbox[reg[t].grp] # <<>> /\ Got(t, Head(mailbox[reg[t].grp]))
    BY <1>1, <1>10, <2>1, <2>2, GotKeeps, LastOfSeq DEF TakeMail
  <2>3. CASE Goto(t, "next") /\ UNCHANGED reg
    BY <1>5, <2>3
  <2>. QED BY <1>10, <2>2, <2>3 DEF TakeMail
<1>. QED BY <1>7, <1>8, <1>9, <1>10

\* The next group.
LEMMA ThreadNext ==
  ASSUME ThreadTypes, NEW t \in Threads, NextGroup(t) PROVE ThreadTypes'
<1>1. pc[t] = "next" /\ wake' = wake
  BY DEF NextGroup
<1>2. LocalsAt(t, "next", reg[t]) /\ reg[t] \in Regs /\ pc[t] \notin WakePCs
  BY <1>1, LocalsHere DEF WakePCs
<1>3. t \in Workers /\ (reg[t].by # "help" => t # Main)
  BY <1>2 DEF LocalsAt, FindPCs
<1>4. CASE NotFound(t)
  BY <1>1, <1>4, NotFoundKeeps
<1>5. ASSUME NEW g \in reg[t].cand, reg' = [reg EXCEPT ![t].cand = @ \ {g}], pc' = pc
      PROVE  ThreadTypes'
  <2> DEFINE r == [reg[t] EXCEPT !.cand = @ \ {g}]
  <2>1. r \in Regs /\ r.by = reg[t].by /\ reg' = [reg EXCEPT ![t] = r]
    BY <1>2, <1>5 DEF Regs
  <2>2. LocalsAt(t, "next", r)
    BY <1>3, <2>1 DEF LocalsAt, LoopPCs, FindPCs, HoldPCs
  <2>. HIDE DEF r
  <2>. QED BY <1>1, <1>2, <1>5, <2>1, <2>2, StayWith
<1>6. ASSUME NEW g \in reg[t].cand,
             reg' = [reg EXCEPT ![t].cand = @ \ {g}, ![t].grp = g, ![t].victims = SlotsOf(g)],
             Goto(t, IF place[t].grp = g THEN "steal" ELSE "enter")
      PROVE  ThreadTypes'
  <2> DEFINE r == [reg[t] EXCEPT !.cand = @ \ {g}, !.grp = g, !.victims = SlotsOf(g)]
  <2>1. g \in Groups /\ SlotsOf(g) \subseteq AllSlots
    BY <1>2, SlotFacts DEF Regs
  <2>2. r \in Regs /\ r.by = reg[t].by /\ r.grp = g
    BY <1>2, <2>1 DEF Regs
  <2>3. reg' = [reg EXCEPT ![t] = r]
    BY <1>6
  <2>4. LocalsAt(t, "steal", r) /\ LocalsAt(t, "enter", r)
    BY <1>3, <2>1, <2>2 DEF LocalsAt, LoopPCs, FindPCs, HoldPCs
  <2>5. {"steal", "enter"} \subseteq PCs \ WakePCs
    BY DEF PCs, WakePCs
  <2>. HIDE DEF r
  <2>6. CASE place[t].grp = g
    BY <1>1, <1>6, <2>2, <2>3, <2>4, <2>5, <2>6, GoWith
  <2>7. CASE place[t].grp # g
    BY <1>1, <1>6, <2>2, <2>3, <2>4, <2>5, <2>7, GoWith
  <2>. QED BY <2>6, <2>7
<1>. QED BY <1>4, <1>5, <1>6 DEF NextGroup

\* Every non-empty set of numbers has a least one, as strict inclusion is well founded.
LEMMA Least ==
  ASSUME NEW N, N \subseteq Nat, N # {}
  PROVE  \E m \in N : \A n \in N : m <= n
<1>. DEFINE Below == {0 .. n : n \in N}
            R == StrictSubsetOrdering(Nat)
<1>1. IsWellFoundedOn(R, FiniteSubsetsOf(Nat))
  BY FS_StrictSubsetOrderingWellFounded, Zenon
<1>2. Below # {}
  OBVIOUS
<1>3. Below \subseteq FiniteSubsetsOf(Nat)
  <2>1. \A n \in N : IsFiniteSet(0 .. n) /\ 0 .. n \subseteq Nat
    BY FS_Interval
  <2>. QED BY <2>1 DEF FiniteSubsetsOf
<1>4. PICK B \in Below : \A C \in Below : <<C, B>> \notin R
  <2>. HIDE DEF Below, R
  <2>. QED BY <1>1, <1>2, <1>3, WFMin, Zenon
<1>5. PICK m \in N : B = 0 .. m
  OBVIOUS
<1>6. ASSUME NEW n \in N, ~(m <= n) PROVE FALSE
  <2>1. 0 .. n \in Below
    OBVIOUS
  <2>2. 0 .. n \subseteq B /\ 0 .. n # B
    BY <1>5, <1>6
  <2>3. <<0 .. n, B>> \in R
    BY <2>2, <1>5 DEF StrictSubsetOrdering
  <2>. QED BY <2>1, <2>3, <1>4
<1>. QED BY <1>6

\* The lowest of a set of numbers.
LEMMA LowestIn ==
  ASSUME NEW S, S \subseteq Nat, S # {}
  PROVE  Lowest(S) \in S /\ \A r \in S : Lowest(S) <= r
<1>1. \E n \in S : \A r \in S : n <= r
  BY Least
<1>. QED BY <1>1 DEF Lowest

\* Claiming a slot.
LEMMA EnterKeeps ==
  ASSUME PlaceTypes, ThreadTypes, NEW t \in Threads, NEW g \in Groups,
         NEW next \in PCs \ WakePCs, NEW leave \in PCs \ WakePCs,
         EnterGroup(t, g, next, leave), wake' = wake,
         \A s \in AllSlots : /\ LocalsAt(t, next, [reg[t] EXCEPT !.slot = s])
                             /\ LocalsAt(t, leave, [reg[t] EXCEPT !.slot = s])
  PROVE  /\ ThreadTypes'
         /\ free[g] # {} /\ Lowest(free[g]) \in free[g] /\ Lowest(free[g]) \in AllSlots
         /\ Lowest(free[g]) \in SlotsOf(g)
<1> DEFINE s == Lowest(free[g])
           r == [reg[t] EXCEPT !.slot = s]
<1>1. free[g] \subseteq Nat /\ free[g] # {} /\ free[g] \subseteq SlotsOf(g) /\ SlotsOf(g) \subseteq AllSlots
  BY SlotFacts DEF PlaceTypes, EnterGroup
<1>2. s \in free[g] /\ s \in AllSlots /\ s \in SlotsOf(g)
  BY <1>1, LowestIn
<1>3. reg[t] \in Regs
  BY RegChange
<1>4. r \in Regs
  BY <1>2, <1>3 DEF Regs
<1>5. reg' = [reg EXCEPT ![t] = r]
  BY DEF EnterGroup
<1>6. LocalsAt(t, next, r) /\ LocalsAt(t, leave, r)
  BY <1>2
<1>7. Goto(t, next) \/ Goto(t, leave)
  BY DEF EnterGroup
<1>. HIDE DEF r, s
<1>8. ThreadTypes'
  BY <1>4, <1>5, <1>6, <1>7, GoWith
<1>. QED BY <1>1, <1>2, <1>8 DEF s

LEMMA ThreadEnter ==
  ASSUME PlaceTypes, ThreadTypes, NEW t \in Threads, Enter(t) PROVE ThreadTypes'
<1>1. pc[t] = "enter" /\ wake' = wake
  BY DEF Enter
<1>2. LocalsAt(t, "enter", reg[t]) /\ reg[t] \in Regs
  BY <1>1, LocalsHere DEF WakePCs
<1>3. t \in Workers /\ (reg[t].by # "help" => t # Main) /\ reg[t].grp \in Groups
  BY <1>2 DEF LocalsAt, FindPCs, HoldPCs
<1>4. {"steal", "leave", "next"} \subseteq PCs \ WakePCs
  BY DEF PCs, WakePCs
<1>5. CASE EnterGroup(t, reg[t].grp, "steal", "leave")
  <2>1. \A s \in AllSlots : [reg[t] EXCEPT !.slot = s].by = reg[t].by
                            /\ [reg[t] EXCEPT !.slot = s].grp = reg[t].grp
    BY <1>2 DEF Regs
  <2>2. \A s \in AllSlots : /\ LocalsAt(t, "steal", [reg[t] EXCEPT !.slot = s])
                            /\ LocalsAt(t, "leave", [reg[t] EXCEPT !.slot = s])
    BY <1>3, <2>1 DEF LocalsAt, LoopPCs, FindPCs, HoldPCs
  <2>. QED BY <1>1, <1>3, <1>4, <1>5, <2>2, EnterKeeps
<1>6. CASE Goto(t, "next") /\ reg' = reg
  <2>1. LocalsAt(t, "next", reg[t])
    BY <1>3 DEF LocalsAt, LoopPCs, FindPCs, HoldPCs
  <2>. QED BY <1>1, <1>4, <1>6, <2>1, GoKeeps
<1>. QED BY <1>5, <1>6 DEF Enter

LEMMA ThreadLeave ==
  ASSUME ThreadTypes, NEW t \in Threads, Leave(t) PROVE ThreadTypes'
<1>1. pc[t] \in {"leave", "restore_leave"} /\ wake' = wake /\ reg' = reg
      /\ Goto(t, IF pc[t] = "leave" THEN "steal" ELSE "back")
  BY DEF Leave
<1>2. LocalsAt(t, pc[t], reg[t]) /\ reg[t] \in Regs
  BY <1>1, LocalsHere DEF WakePCs
<1>3. {"steal", "back"} \subseteq PCs \ WakePCs
  BY DEF PCs, WakePCs
<1>4. CASE pc[t] = "leave"
  <2>1. LocalsAt(t, "steal", reg[t])
    BY <1>2, <1>4 DEF LocalsAt, LoopPCs, FindPCs, HoldPCs
  <2>. QED BY <1>1, <1>3, <1>4, <2>1, GoKeeps
<1>5. CASE pc[t] = "restore_leave"
  <2>1. LocalsAt(t, "back", reg[t])
    BY <1>2, <1>5 DEF LocalsAt, LoopPCs, FindPCs, HoldPCs
  <2>. QED BY <1>1, <1>3, <1>5, <2>1, GoKeeps
<1>. QED BY <1>1, <1>4, <1>5

\* An item is in the hand: discount it, wake one more.
LEMMA ThreadSinks ==
  ASSUME ThreadTypes, NEW t \in Threads, Sink(t) \/ Chain(t) PROVE ThreadTypes'
<1>1. pc[t] \in {"sink", "chain"} /\ reg' = reg
  BY DEF Sink, Chain
<1>2. LocalsAt(t, pc[t], reg[t])
  BY <1>1, LocalsHere DEF WakePCs
<1>3. LocalsAt(t, "chain", reg[t]) /\ LocalsAt(t, "exec", reg[t])
  BY <1>1, <1>2 DEF LocalsAt, LoopPCs, FindPCs, HoldPCs
<1>4. {"chain", "exec"} \subseteq PCs \ WakePCs /\ "exec" \in Returns /\ 1 \in Nat
  BY DEF PCs, WakePCs, Returns
<1>5. CASE Goto(t, "chain") /\ wake' = wake
  BY <1>1, <1>3, <1>4, <1>5, GoKeeps
<1>6. CASE Goto(t, "exec") /\ wake' = wake
  BY <1>1, <1>3, <1>4, <1>6, GoKeeps
<1>7. CASE WakeThen(t, 1, "exec")
  BY <1>1, <1>3, <1>4, <1>7, WakeKeeps
<1>. QED BY <1>5, <1>6, <1>7 DEF Sink, Chain

\* The task has returned.
LEMMA ThreadEnd ==
  ASSUME FlowTypes, ThreadTypes, NEW t \in Threads, EndTask(t) PROVE ThreadTypes'
<1>1. stack[t] # <<>> /\ wake' = wake
  BY DEF EndTask
<1>2. Top(t) \in Frame_ /\ t \in Workers /\ (Top(t).by # "help" => t # Main)
  BY <1>1, FrameTyped DEF FlowTypes, Top
<1>3. Top(t).by \in {"first", "second", "help"} /\ Top(t).saved \in Groups \cup {None}
  BY <1>2 DEF Frame_
<1> DEFINE r == [NoRegs EXCEPT !.by = "help", !.saved = Top(t).saved, !.found = TRUE]
<1>4. NoRegs \in Regs /\ r \in Regs
  BY <1>3, RegChange DEF Regs, NoRegs
<1>5. {"loop", "disarm", "restore"} \subseteq PCs \ WakePCs
  BY DEF PCs, WakePCs
<1>6. /\ \A rr : t # Main => LocalsAt(t, "loop", rr) /\ LocalsAt(t, "disarm", rr)
      /\ \A rr : LocalsAt(t, "restore", rr)
  BY <1>2 DEF LocalsAt, LoopPCs, FindPCs, HoldPCs
<1>7. CASE Top(t).by = "first"
  <2>1. Goto(t, "loop") /\ reg' = [reg EXCEPT ![t] = NoRegs]
    BY <1>7 DEF EndTask
  <2>. QED BY <1>1, <1>2, <1>4, <1>5, <1>6, <1>7, <2>1, GoWith
<1>8. CASE Top(t).by = "second"
  <2>1. Goto(t, "disarm") /\ reg' = [reg EXCEPT ![t] = NoRegs]
    BY <1>8 DEF EndTask
  <2>. QED BY <1>1, <1>2, <1>4, <1>5, <1>6, <1>8, <2>1, GoWith
<1>9. CASE Top(t).by = "help"
  <2>1. Goto(t, "restore") /\ reg' = [reg EXCEPT ![t] = r]
    BY <1>9 DEF EndTask
  <2>. HIDE DEF r
  <2>. QED BY <1>1, <1>4, <1>5, <1>6, <2>1, GoWith
<1>. QED BY <1>3, <1>7, <1>8, <1>9

\* Back to the group the helper was in.
LEMMA ThreadRestore ==
  ASSUME PlaceTypes, ThreadTypes, NEW t \in Threads, Restore(t) PROVE ThreadTypes'
<1>1. pc[t] = "restore" /\ wake' = wake
  BY DEF Restore
<1>2. LocalsAt(t, "restore", reg[t]) /\ reg[t] \in Regs
  BY <1>1, LocalsHere DEF WakePCs
<1>3. t \in Workers /\ reg[t].saved \in Groups \cup {None}
  BY <1>2 DEF LocalsAt, Regs
<1>4. {"back", "restore_leave"} \subseteq PCs \ WakePCs
  BY DEF PCs, WakePCs
<1>5. \A r : LocalsAt(t, "back", r) /\ (r.saved \in Groups => LocalsAt(t, "restore_leave", r))
  BY <1>3 DEF LocalsAt, LoopPCs, FindPCs, HoldPCs
<1>6. CASE Goto(t, "back") /\ reg' = reg
  BY <1>1, <1>4, <1>5, <1>6, GoKeeps
<1>7. CASE reg[t].saved # None /\ EnterGroup(t, reg[t].saved, "back", "restore_leave")
  <2>1. \A s \in AllSlots : [reg[t] EXCEPT !.slot = s].saved = reg[t].saved
    BY <1>2 DEF Regs
  <2>2. reg[t].saved \in Groups
    BY <1>3, <1>7
  <2>3. \A s \in AllSlots : /\ LocalsAt(t, "back", [reg[t] EXCEPT !.slot = s])
                            /\ LocalsAt(t, "restore_leave", [reg[t] EXCEPT !.slot = s])
    BY <1>5, <2>1, <2>2
  <2>. QED BY <1>1, <1>4, <1>7, <2>2, <2>3, EnterKeeps
<1>. QED BY <1>6, <1>7 DEF Restore

\* busy_work returns.
LEMMA ThreadBack ==
  ASSUME ThreadTypes, NEW t \in Threads, Back(t) PROVE ThreadTypes'
<1> DEFINE r == [NoRegs EXCEPT !.cand = Groups]
<1>1. NoRegs \in Regs /\ r \in Regs /\ wake' = wake
  BY RegChange DEF Regs, NoRegs, Back
<1>2. CASE Forget(t) /\ Goto(t, IF Calls(t, "submit") THEN "push_mail" ELSE "user")
  <2>1. reg' = [reg EXCEPT ![t] = NoRegs] /\ (Goto(t, "push_mail") \/ Goto(t, "user"))
    BY <1>2 DEF Forget
  <2>. QED BY <1>1, <2>1, GoPlain DEF Plain
<1>3. CASE Goto(t, "wait_more") /\ reg' = [reg EXCEPT ![t] = r]
  <2>. HIDE DEF r
  <2>. QED BY <1>1, <1>3, GoPlain DEF Plain
<1>. QED BY <1>2, <1>3 DEF Back

\* The waits that help.
LEMMA ThreadWaits ==
  ASSUME FlowTypes, PlaceTypes, ThreadTypes, NEW t \in Threads, CoopWait(t) \/ WaitLoad(t)
  PROVE  ThreadTypes'
<1>1. CASE Help(t)
  <2>1. t \in Workers /\ wake' = wake
    BY CallTyped, MainWorks DEF CoopWait, WaitLoad, In, Waits
  <2>. QED BY <1>1, <2>1, HelpKeeps
<1>2. CASE CoopWait(t) /\ UNCHANGED <<pc, reg>>
  BY <1>2 DEF CoopWait, ThreadTypes, Heading
<1>3. CASE WaitLoad(t) /\ WaitOver(t) /\ UNCHANGED reg
  <2>1. wake' = wake /\ (Goto(t, "set_stop") \/ Goto(t, "user"))
    BY <1>3 DEF WaitLoad, WaitOver
  <2>. QED BY <1>3, <2>1, GoPlain DEF Plain
<1>. QED BY <1>1, <1>2, <1>3 DEF CoopWait, WaitLoad

\* has_work().
LEMMA ThreadMore ==
  ASSUME ThreadTypes, NEW t \in Threads, WaitMore(t) PROVE ThreadTypes'
<1>0. WorkerCount \in Nat /\ NoRegs \in Regs /\ reg[t] \in Regs /\ pc[t] = "wait_more"
  BY ThreadAssumption, RegChange DEF WaitMore
<1>1. CASE Goto(t, "user") /\ Forget(t) /\ UNCHANGED wake
  BY <1>0, <1>1, GoPlain DEF Plain, Forget
<1>2. CASE WakeThen(t, WorkerCount, "user") /\ Forget(t)
  BY <1>0, <1>2, WakePlain DEF Forget
<1>3. ASSUME NEW g, reg' = [reg EXCEPT ![t].cand = @ \ {g}], UNCHANGED <<pc, wake>>
      PROVE  ThreadTypes'
  <2> DEFINE r == [reg[t] EXCEPT !.cand = @ \ {g}]
  <2>1. r \in Regs /\ reg' = [reg EXCEPT ![t] = r]
    BY <1>0, <1>3 DEF Regs
  <2>2. LocalsAt(t, pc[t], r) /\ pc[t] \notin WakePCs
    BY <1>0 DEF LocalsAt, LoopPCs, FindPCs, HoldPCs, WakePCs
  <2>. HIDE DEF r
  <2>. QED BY <1>3, <2>1, <2>2, StayWith
<1>. QED BY <1>1, <1>2, <1>3 DEF WaitMore

LEMMA ThreadStep ==
  ASSUME Types, NEW t \in Threads, Step(t) PROVE ThreadTypes'
<1>. USE DEF Types
<1>1. CASE t = Main /\ (Begin \/ Latch)
  BY <1>1, ThreadBegin, ThreadPlain
<1>2. CASE Submit(t) \/ PushLocal(t) \/ Advertise(t) \/ Block(t) \/ Signal(t) \/ SetStop(t)
           \/ Stopping(t) \/ Join(t) \/ Exec(t)
  BY <1>2, ThreadPlain
<1>3. CASE PushMail(t) \/ MailHelp(t) \/ LoadToken(t) \/ Arm(t)
  BY <1>3, ThreadPushMail, ThreadFinds
<1>4. CASE WakeEpoch(t) \/ WakeRead(t) \/ WakeRelease(t)
  BY <1>4, ThreadWakes
<1>5. CASE OwnGroup(t) \/ PopOwn(t) \/ Steal(t) \/ TakeMail(t) \/ NextGroup(t)
  BY <1>5, ThreadSearch, ThreadNext
<1>6. CASE Enter(t) \/ Leave(t) \/ Restore(t) \/ Back(t)
  BY <1>6, ThreadEnter, ThreadLeave, ThreadRestore, ThreadBack
<1>7. CASE Sink(t) \/ Chain(t) \/ EndTask(t)
  BY <1>7, ThreadSinks, ThreadEnd
<1>8. CASE CoopWait(t) \/ WaitLoad(t) \/ WaitMore(t)
  BY <1>8, ThreadWaits, ThreadMore
<1>9. CASE Entry(t) \/ LoopHead(t) \/ EpochCheck(t) \/ Exit(t) \/ Acquire(t) \/ Woken(t) \/ Disarm(t)
  BY <1>9, ThreadLoop
<1>. QED BY <1>1, <1>2, <1>3, <1>4, <1>5, <1>6, <1>7, <1>8, <1>9 DEF Step

\* The step leaves the queues alone unless it is one of these.
LEMMA QueueSteps ==
  ASSUME NEW t \in Threads, Step(t)
  PROVE  \/ UNCHANGED queueVars
         \/ (t = Main /\ Begin) \/ PushLocal(t) \/ PushMail(t) \/ Advertise(t)
         \/ PopOwn(t) \/ Steal(t) \/ TakeMail(t) \/ Sink(t)
<1>. USE DEF Step
<1>1. CASE t = Main /\ Latch
  BY <1>1 DEF Latch
<1>2. CASE Submit(t) \/ MailHelp(t) \/ WakeEpoch(t) \/ WakeRead(t) \/ WakeRelease(t)
  BY <1>2 DEF Submit, MailHelp, WakeEpoch, WakeRead, WakeRelease
<1>3. CASE OwnGroup(t) \/ NextGroup(t) \/ Enter(t) \/ Leave(t) \/ Chain(t) \/ Exec(t) \/ EndTask(t)
  BY <1>3 DEF OwnGroup, NextGroup, Enter, Leave, Chain, Exec, EndTask
<1>4. CASE Restore(t) \/ Back(t) \/ Signal(t) \/ CoopWait(t) \/ Block(t) \/ WaitLoad(t) \/ WaitMore(t)
  BY <1>4 DEF Restore, Back, Signal, CoopWait, Block, WaitLoad, WaitMore
<1>5. CASE SetStop(t) \/ Stopping(t) \/ Join(t) \/ Entry(t) \/ LoopHead(t) \/ LoadToken(t) \/ Arm(t)
  BY <1>5 DEF SetStop, Stopping, Join, Entry, LoopHead, LoadToken, Arm
<1>6. CASE EpochCheck(t) \/ Exit(t) \/ Acquire(t) \/ Woken(t) \/ Disarm(t)
  BY <1>6 DEF EpochCheck, Exit, Acquire, Woken, Disarm
<1>. QED BY <1>1, <1>2, <1>3, <1>4, <1>5, <1>6

LEMMA QueueStep ==
  ASSUME Types, NEW t \in Threads, Step(t) PROVE QueueTypes'
<1>0. QueueTypes /\ ThreadTypes /\ PlaceTypes /\ FlowTypes
  BY DEF Types
<1>1. CASE UNCHANGED queueVars
  BY <1>0, <1>1 DEF QueueTypes, queueVars
<1>2. CASE Begin
  BY <1>2 DEF Begin, QueueTypes, EmptyDeques
<1>3. CASE PushLocal(t)
  <2>1. Call(t).arg \in Tasks /\ t \in Workers
    BY <1>0, <1>3, CallTyped, LocalsHere DEF PushLocal, In, LocalsAt, WakePCs
  <2>2. deque' = deque \/ deque' = [deque EXCEPT ![place[t].grp][place[t].slot] =
                                      Append(deque[place[t].grp][place[t].slot], Call(t).arg)]
    BY <1>3 DEF PushLocal
  <2>3. place[t] \in Spots /\ mailbox' = mailbox /\ hasWork' = hasWork
    BY <1>0, <1>3, <2>1 DEF PlaceTypes, PushLocal
  <2>4. ASSUME NEW g \in Groups, NEW s \in AllSlots,
               deque' = [deque EXCEPT ![g][s] = Append(deque[g][s], Call(t).arg)]
        PROVE  QueueTypes'
    <3>1. Append(deque[g][s], Call(t).arg) \in Seq(Tasks)
      BY <1>0, <2>1 DEF QueueTypes
    <3>. QED BY <1>0, <2>3, <2>4, <3>1 DEF QueueTypes
  <2>5. CASE place[t].grp = None /\ deque' # deque
    <3>1. None \notin Groups
      BY ThreadAssumption
    <3>2. deque' = deque
      BY <1>0, <2>2, <2>5, <3>1 DEF QueueTypes
    <3>. QED BY <2>5, <3>2
  <2>. QED BY <1>0, <2>2, <2>3, <2>4, <2>5 DEF QueueTypes, Spots
<1>4. CASE PushMail(t)
  <2>1. Call(t).arg \in Tasks /\ Dest[Call(t).arg] \in Groups
    BY <1>0, <1>4, CallTyped DEF PushMail, In
  <2>2. mailbox' = mailbox \/ mailbox' = [mailbox EXCEPT ![Dest[Call(t).arg]] = Append(@, Call(t).arg)]
    BY <1>4 DEF PushMail
  <2>4. Append(mailbox[Dest[Call(t).arg]], Call(t).arg) \in Seq(Tasks)
    BY <1>0, <2>1 DEF QueueTypes
  <2>3. deque' = deque /\ hasWork' = hasWork
    BY <1>4 DEF PushMail
  <2>. QED BY <1>0, <2>2, <2>3, <2>4 DEF QueueTypes
<1>5. CASE Advertise(t)
  <2>1. Dest[Call(t).arg] \in Groups
    BY <1>0, <1>5, CallTyped DEF Advertise, In
  <2>. QED BY <1>0, <1>5, <2>1 DEF QueueTypes, Advertise
<1>6. CASE PopOwn(t)
  <2>1. t \in Workers /\ reg[t].grp \in Groups
    BY <1>0, <1>6, LocalsHere DEF PopOwn, WakePCs, LocalsAt, FindPCs
  <2>2. place[t].slot \in AllSlots
    BY <1>0, <2>1 DEF PlaceTypes, Spots
  <2> DEFINE d == deque[reg[t].grp][place[t].slot]
  <2>3. d \in Seq(Tasks)
    BY <1>0, <2>1, <2>2 DEF QueueTypes
  <2>4. CASE d # <<>>
    <3>1. SubSeq(d, 1, Len(d) - 1) \in Seq(Tasks)
      BY <2>3, <2>4, LastOfSeq
    <3>2. deque' = [deque EXCEPT ![reg[t].grp][place[t].slot] = SubSeq(d, 1, Len(d) - 1)]
          /\ mailbox' = mailbox /\ hasWork' = hasWork
      BY <1>6, <2>4 DEF PopOwn
    <3>. HIDE DEF d
    <3>. QED BY <1>0, <3>1, <3>2 DEF QueueTypes
  <2>5. CASE d = <<>>
    BY <1>0, <1>6, <2>5 DEF PopOwn, QueueTypes
  <2>. QED BY <2>4, <2>5
<1>7. CASE Steal(t)
  <2>1. reg[t].grp \in Groups /\ reg[t].victims \subseteq AllSlots
    BY <1>0, <1>7, LocalsHere DEF Steal, WakePCs, LocalsAt, FindPCs, Regs
  <2>2. CASE deque' = deque
    BY <1>0, <1>7, <2>2 DEF Steal, QueueTypes
  <2>3. ASSUME NEW v \in reg[t].victims, deque[reg[t].grp][v] # <<>>,
               deque' = [deque EXCEPT ![reg[t].grp][v] = Tail(@)]
        PROVE  QueueTypes'
    <3>1. deque[reg[t].grp][v] \in Seq(Tasks)
      BY <1>0, <2>1 DEF QueueTypes
    <3>2. Tail(deque[reg[t].grp][v]) \in Seq(Tasks)
      BY <2>3, <3>1, LastOfSeq
    <3>. QED BY <1>0, <1>7, <2>3, <3>2 DEF QueueTypes, Steal
  <2>. QED BY <1>7, <2>2, <2>3 DEF Steal
<1>8. CASE TakeMail(t)
  <2>1. reg[t].grp \in Groups
    BY <1>0, <1>8, LocalsHere DEF TakeMail, WakePCs, LocalsAt, FindPCs
  <2>2. CASE mailbox' = mailbox
    BY <1>0, <1>8, <2>2 DEF TakeMail, QueueTypes
  <2>3. CASE mailbox[reg[t].grp] # <<>> /\ mailbox' = [mailbox EXCEPT ![reg[t].grp] = Tail(@)]
    <3>1. Tail(mailbox[reg[t].grp]) \in Seq(Tasks)
      BY <1>0, <2>1, <2>3, LastOfSeq DEF QueueTypes
    <3>. QED BY <1>0, <1>8, <2>3, <3>1 DEF QueueTypes, TakeMail
  <2>. QED BY <1>8, <2>2, <2>3 DEF TakeMail
<1>9. CASE Sink(t)
  <2>1. reg[t].grp \in Groups
    BY <1>0, <1>9, LocalsHere DEF Sink, WakePCs, LocalsAt, FindPCs
  <2>. QED BY <1>0, <1>9, <2>1 DEF QueueTypes, Sink
<1>. QED BY <1>1, <1>2, <1>3, <1>4, <1>5, <1>6, <1>7, <1>8, <1>9, QueueSteps

LEMMA ParkStep ==
  ASSUME Types, NEW t \in Threads, Step(t) PROVE ParkTypes'
<1>0. ParkTypes /\ ThreadTypes /\ TokenBound \in Nat
  BY SizeAssumption DEF Types
<1>1. CASE UNCHANGED parkVars
  BY <1>0, <1>1 DEF parkVars, ParkTypes
<1>2. CASE Begin
  BY <1>0, <1>2 DEF Begin, ParkTypes
<1>3. CASE LoadToken(t) \/ Arm(t) \/ Acquire(t) \/ Disarm(t) \/ WakeEpoch(t)
  <2>1. CASE LoadToken(t) \/ WakeEpoch(t)
    BY <1>0, <2>1 DEF LoadToken, WakeEpoch, ParkTypes
  <2>2. CASE Arm(t) \/ Disarm(t)
    BY <1>0, <2>2 DEF Arm, Disarm, ParkTypes
  <2>3. CASE Acquire(t)
    BY <1>0, <2>3 DEF Acquire, ParkTypes
  <2>. QED BY <1>3, <2>1, <2>2, <2>3
<1>4. CASE WakeRelease(t)
  <2>1. wake[t].want \in Nat
    BY <1>0 DEF ThreadTypes
  <2>. QED BY <1>0, <1>4, <2>1 DEF WakeRelease, ParkTypes
<1>5. CASE (t = Main /\ Latch) \/ Submit(t) \/ PushLocal(t) \/ PushMail(t) \/ MailHelp(t) \/ Advertise(t)
           \/ WakeRead(t)
  BY <1>1, <1>5 DEF Latch, Submit, PushLocal, PushMail, MailHelp, Advertise, WakeRead
<1>6. CASE OwnGroup(t) \/ PopOwn(t) \/ Steal(t) \/ TakeMail(t) \/ NextGroup(t) \/ Enter(t) \/ Leave(t)
           \/ Sink(t) \/ Chain(t) \/ Exec(t) \/ EndTask(t) \/ Restore(t) \/ Back(t)
  BY <1>1, <1>6 DEF OwnGroup, PopOwn, Steal, TakeMail, NextGroup, Enter, Leave, Sink, Chain, Exec,
                    EndTask, Restore, Back
<1>7. CASE Signal(t) \/ CoopWait(t) \/ Block(t) \/ WaitLoad(t) \/ WaitMore(t) \/ SetStop(t)
           \/ Stopping(t) \/ Join(t) \/ Entry(t) \/ LoopHead(t) \/ EpochCheck(t) \/ Exit(t) \/ Woken(t)
  BY <1>1, <1>7 DEF Signal, CoopWait, Block, WaitLoad, WaitMore, SetStop, Stopping, Join, Entry,
                    LoopHead, EpochCheck, Exit, Woken
<1>. QED BY <1>2, <1>3, <1>4, <1>5, <1>6, <1>7 DEF Step

LEMMA CtlStep ==
  ASSUME Types, NEW t \in Threads, Step(t)
  PROVE  CtlTypes' /\ submitted' \subseteq Tasks
<1>0. CtlTypes /\ submitted \subseteq Tasks /\ FlowTypes
  BY DEF Types
<1>1. CASE UNCHANGED <<ctlVars, histVars>>
  BY <1>0, <1>1 DEF ctlVars, CtlTypes, histVars
<1>2. CASE (t = Main /\ (Begin \/ Latch)) \/ SetStop(t) \/ Join(t)
  <2>1. CASE Begin
    <3>1. pending' = 0 /\ stop' = FALSE /\ up' = up /\ event' = event /\ submitted' = submitted
      BY <2>1 DEF Begin, histVars
    <3>2. pending' \in Int
      BY <3>1
    <3>4. stop' \in BOOLEAN
      <4>1. stop' = FALSE
        BY <2>1, Zenon DEF Begin
      <4>. QED BY <4>1, Zenon
    <3>3. up' \in BOOLEAN /\ event' \in [Events -> {0, 1}] /\ submitted' \subseteq Tasks
      BY <1>0, <3>1 DEF CtlTypes
    <3>. QED BY <3>2, <3>3, <3>4 DEF CtlTypes
  <2>2. CASE Latch \/ SetStop(t) \/ Join(t)
    BY <1>0, <2>2 DEF Latch, SetStop, Join, CtlTypes, histVars
  <2>. QED BY <1>2, <2>1, <2>2
<1>3. CASE Submit(t)
  <2>1. Call(t).arg \in Tasks
    BY <1>0, <1>3, CallTyped DEF Submit, In
  <2>. QED BY <1>0, <1>3, <2>1 DEF Submit, CtlTypes
<1>4. CASE EndTask(t)
  BY <1>0, <1>4 DEF EndTask, CtlTypes
<1>5. CASE CoopWait(t) \/ Block(t) \/ Signal(t)
  BY <1>0, <1>5 DEF CoopWait, Block, Signal, CtlTypes, histVars
<1>6. CASE PushLocal(t) \/ PushMail(t) \/ MailHelp(t) \/ Advertise(t) \/ WakeEpoch(t)
           \/ WakeRead(t) \/ WakeRelease(t)
  BY <1>1, <1>6 DEF PushLocal, PushMail, MailHelp, Advertise, WakeEpoch, WakeRead, WakeRelease
<1>7. CASE OwnGroup(t) \/ PopOwn(t) \/ Steal(t) \/ TakeMail(t) \/ NextGroup(t) \/ Enter(t) \/ Leave(t)
           \/ Sink(t) \/ Chain(t) \/ Exec(t) \/ Restore(t) \/ Back(t)
  BY <1>1, <1>7 DEF OwnGroup, PopOwn, Steal, TakeMail, NextGroup, Enter, Leave, Sink, Chain, Exec,
                    Restore, Back
<1>8. CASE WaitLoad(t) \/ WaitMore(t) \/ Stopping(t) \/ Entry(t) \/ LoopHead(t) \/ LoadToken(t)
           \/ Arm(t) \/ EpochCheck(t) \/ Exit(t) \/ Acquire(t) \/ Woken(t) \/ Disarm(t)
  BY <1>1, <1>8 DEF WaitLoad, WaitMore, Stopping, Entry, LoopHead, LoadToken, Arm, EpochCheck, Exit,
                    Acquire, Woken, Disarm
<1>. QED BY <1>2, <1>3, <1>4, <1>5, <1>6, <1>7, <1>8 DEF Step

LEMMA FlowStep ==
  ASSUME Types, NEW t \in Threads, Step(t) PROVE FlowTypes'
<1>0. FlowTypes /\ ThreadTypes
  BY DEF Types
<1>1. CASE UNCHANGED flowVars
  BY <1>0, <1>1 DEF flowVars, FlowTypes
<1>2. ASSUME UNCHANGED stack, NEW x, at' = [at EXCEPT ![x] = @ + 1] PROVE FlowTypes'
  <2>1. CASE x \in {Main} \cup Foreign \cup Tasks
    <3>1. at[x] + 1 \in Nat \ {0}
      BY <1>0, <2>1 DEF FlowTypes
    <3>. QED BY <1>0, <1>2, <3>1 DEF FlowTypes
  <2>2. CASE x \notin {Main} \cup Foreign \cup Tasks
    <3>1. at' = at
      BY <1>0, <1>2, <2>2 DEF FlowTypes
    <3>. QED BY <1>0, <1>2, <3>1 DEF FlowTypes
  <2>. QED BY <2>1, <2>2
<1>3. CASE Exec(t)
  <2>1. reg[t] \in Regs /\ t \in Workers /\ (reg[t].by # "help" => t # Main) /\ reg[t].item \in Tasks
    BY <1>0, <1>3, LocalsHere DEF Exec, WakePCs, LocalsAt, FindPCs, HoldPCs
  <2> DEFINE f == [task |-> reg[t].item, by |-> reg[t].by, saved |-> reg[t].saved]
  <2>2. f \in Frame_ /\ f.by = reg[t].by
    BY <2>1 DEF Frame_, Regs
  <2>3. stack' = [stack EXCEPT ![t] = Append(@, f)] /\ at' = at
    BY <1>3 DEF Exec
  <2>. HIDE DEF f
  <2>4. stack[t] \in Seq(Frame_)
    BY <1>0 DEF FlowTypes
  <2>5. /\ Append(stack[t], f) \in Seq(Frame_)
        /\ \A i \in DOMAIN Append(stack[t], f) : \/ i \in DOMAIN stack[t] /\ Append(stack[t], f)[i] = stack[t][i]
                                                \/ Append(stack[t], f)[i] = f
    BY <2>2, <2>4
  <2>. QED BY <1>0, <2>1, <2>2, <2>3, <2>5 DEF FlowTypes
<1>4. CASE EndTask(t)
  <2>1. stack' = [stack EXCEPT ![t] = SubSeq(@, 1, Len(@) - 1)] /\ at' = at /\ stack[t] # <<>>
    BY <1>4 DEF EndTask
  <2>2. stack[t] \in Seq(Frame_)
    BY <1>0 DEF FlowTypes
  <2> DEFINE s == SubSeq(stack[t], 1, Len(stack[t]) - 1)
  <2>3. s \in Seq(Frame_) /\ \A i \in DOMAIN s : i \in DOMAIN stack[t] /\ s[i] = stack[t][i]
    BY <2>1, <2>2, LastOfSeq
  <2>4. stack' = [stack EXCEPT ![t] = s]
    BY <2>1
  <2>. HIDE DEF s
  <2>. QED BY <1>0, <2>1, <2>3, <2>4 DEF FlowTypes
<1>5. CASE (t = Main /\ Latch) \/ Advertise(t) \/ CoopWait(t) \/ Block(t) \/ Signal(t) \/ WaitLoad(t)
           \/ Join(t)
  <2>1. UNCHANGED flowVars \/ (UNCHANGED stack /\ \E u : at' = [at EXCEPT ![Frame(u)] = @ + 1])
    BY <1>5 DEF Latch, Advertise, CoopWait, Block, Signal, WaitLoad, WaitOver, Join, Advance, flowVars
  <2>. QED BY <1>1, <1>2, <2>1
<1>6. CASE (t = Main /\ Begin) \/ Submit(t) \/ PushLocal(t) \/ PushMail(t) \/ MailHelp(t) \/ WakeEpoch(t)
           \/ WakeRead(t) \/ WakeRelease(t)
  BY <1>1, <1>6 DEF Begin, Submit, PushLocal, PushMail, MailHelp, WakeEpoch, WakeRead, WakeRelease
<1>7. CASE OwnGroup(t) \/ PopOwn(t) \/ Steal(t) \/ TakeMail(t) \/ NextGroup(t) \/ Enter(t) \/ Leave(t)
           \/ Sink(t) \/ Chain(t) \/ Restore(t) \/ Back(t)
  BY <1>1, <1>7 DEF OwnGroup, PopOwn, Steal, TakeMail, NextGroup, Enter, Leave, Sink, Chain, Restore, Back
<1>8. CASE WaitMore(t) \/ SetStop(t) \/ Stopping(t) \/ Entry(t) \/ LoopHead(t) \/ LoadToken(t)
           \/ Arm(t) \/ EpochCheck(t) \/ Exit(t) \/ Acquire(t) \/ Woken(t) \/ Disarm(t)
  BY <1>1, <1>8 DEF WaitMore, SetStop, Stopping, Entry, LoopHead, LoadToken, Arm, EpochCheck, Exit,
                    Acquire, Woken, Disarm
<1>. QED BY <1>3, <1>4, <1>5, <1>6, <1>7, <1>8 DEF Step

\* Only these steps move a worker or change the free slots.
LEMMA PlaceSteps ==
  ASSUME NEW t \in Threads, Step(t)
  PROVE  \/ UNCHANGED <<free, place>>
         \/ (t = Main /\ Begin) \/ Exit(t) \/ Enter(t) \/ Leave(t) \/ Restore(t)
<1>. USE DEF Step
<1>1. CASE (t = Main /\ Latch) \/ Submit(t) \/ PushLocal(t) \/ PushMail(t) \/ MailHelp(t) \/ Advertise(t)
           \/ WakeEpoch(t) \/ WakeRead(t) \/ WakeRelease(t)
  BY <1>1 DEF Latch, Submit, PushLocal, PushMail, MailHelp, Advertise, WakeEpoch, WakeRead, WakeRelease
<1>2. CASE OwnGroup(t) \/ PopOwn(t) \/ Steal(t) \/ TakeMail(t) \/ NextGroup(t)
           \/ Sink(t) \/ Chain(t) \/ Exec(t) \/ EndTask(t) \/ Back(t)
  BY <1>2 DEF OwnGroup, PopOwn, Steal, TakeMail, NextGroup, Sink, Chain, Exec, EndTask, Back
<1>3. CASE Signal(t) \/ CoopWait(t) \/ Block(t) \/ WaitLoad(t) \/ WaitMore(t) \/ SetStop(t)
           \/ Stopping(t) \/ Join(t)
  BY <1>3 DEF Signal, CoopWait, Block, WaitLoad, WaitMore, SetStop, Stopping, Join
<1>4. CASE Entry(t) \/ LoopHead(t) \/ LoadToken(t) \/ Arm(t) \/ EpochCheck(t) \/ Acquire(t)
           \/ Woken(t) \/ Disarm(t)
  BY <1>4 DEF Entry, LoopHead, LoadToken, Arm, EpochCheck, Acquire, Woken, Disarm
<1>. QED BY <1>1, <1>2, <1>3, <1>4

\* A step of t moves no other thread.
Others(t) == /\ \A u \in Threads \ {t} : /\ pc'[u] = pc[u] /\ wake'[u] = wake[u]
                                         /\ reg'[u] = reg[u] /\ stack'[u] = stack[u]
             /\ \A u \in Workers \ {t} : place'[u] = place[u]

\* One thread's part of a function changes, or none.
Changes(f, g, t) == f = g \/ \E x : f = [g EXCEPT ![t] = x]

LEMMA OthersStay ==
  ASSUME Types, NEW t \in Threads, Step(t), ~(t = Main /\ Begin) PROVE Others(t)
<1>1. /\ pc = [u \in Threads |-> pc[u]] /\ wake = [u \in Threads |-> wake[u]]
      /\ reg = [u \in Threads |-> reg[u]] /\ stack = [u \in Threads |-> stack[u]]
      /\ place = [u \in Workers |-> place[u]]
  BY DEF Types, ThreadTypes, FlowTypes, PlaceTypes
<1>2. ASSUME Changes(pc', pc, t), Changes(wake', wake, t), Changes(reg', reg, t),
             Changes(stack', stack, t), Changes(place', place, t)
      PROVE  Others(t)
  BY <1>1, <1>2 DEF Others, Changes
<1>. USE DEF Changes, Goto, WakeThen, Forget, Got, flowVars
<1>3. CASE Latch /\ t = Main
  BY <1>2, <1>3 DEF Latch
<1>4. CASE Submit(t) \/ PushLocal(t) \/ PushMail(t) \/ Advertise(t) \/ WakeEpoch(t)
  BY <1>2, <1>4 DEF Submit, PushLocal, PushMail, Advertise, WakeEpoch
<1>5. CASE WakeRead(t) \/ WakeRelease(t)
  BY <1>2, <1>5 DEF WakeRead, WakeRelease
<1>6. CASE MailHelp(t) \/ LoadToken(t) \/ Arm(t)
  BY <1>2, <1>6 DEF MailHelp, LoadToken, Arm, Help, Find
<1>7. CASE OwnGroup(t) \/ PopOwn(t)
  BY <1>2, <1>7 DEF OwnGroup, PopOwn
<1>8. CASE Steal(t) \/ TakeMail(t)
  BY <1>2, <1>8 DEF Steal, TakeMail
<1>9. CASE NextGroup(t)
  <2>1. NotFound(t) => Changes(pc', pc, t) /\ Changes(reg', reg, t)
    BY DEF NotFound, Find
  <2>2. Changes(pc', pc, t)
    BY <1>9, <2>1 DEF NextGroup
  <2>3. Changes(reg', reg, t)
    BY <1>9, <2>1 DEF NextGroup
  <2>. QED BY <1>2, <1>9, <2>2, <2>3 DEF NextGroup
<1>10. CASE Enter(t) \/ Restore(t)
  BY <1>2, <1>10 DEF Enter, Restore, EnterGroup
<1>11. CASE Leave(t) \/ Exit(t)
  BY <1>2, <1>11 DEF Leave, Exit
<1>12. CASE Sink(t) \/ Chain(t) \/ Exec(t) \/ EndTask(t)
  BY <1>2, <1>12 DEF Sink, Chain, Exec, EndTask
<1>13. CASE Back(t) \/ Block(t) \/ Signal(t)
  BY <1>2, <1>13 DEF Back, Block, Signal
<1>14. CASE CoopWait(t) \/ WaitLoad(t)
  BY <1>2, <1>14 DEF CoopWait, WaitLoad, WaitOver, Help, Find
<1>15. CASE WaitMore(t)
  BY <1>2, <1>15 DEF WaitMore
<1>16. CASE SetStop(t) \/ Stopping(t) \/ Join(t)
  BY <1>2, <1>16 DEF SetStop, Stopping, Join
<1>17. CASE Entry(t) \/ LoopHead(t) \/ EpochCheck(t) \/ Acquire(t) \/ Woken(t) \/ Disarm(t)
  BY <1>2, <1>17 DEF Entry, LoopHead, EpochCheck, Acquire, Woken, Disarm
<1>. QED BY <1>3, <1>4, <1>5, <1>6, <1>7, <1>8, <1>9, <1>10, <1>11, <1>12, <1>13, <1>14, <1>15, <1>16,
            <1>17 DEF Step

-----------------------------------------------------------------------------
(* Slots.  A slot is free or has one worker.  A worker that goes from one  *)
(* group to another claims the new slot before it gives back the old one.  *)

Leaving(w) == pc[w] \in {"leave", "restore_leave"}
\* The group a worker on the move goes to.
Target(w) == IF pc[w] = "leave" THEN reg[w].grp ELSE reg[w].saved

\* A worker in a group, or on its way from one to another, has slots of these groups.
Seated ==
  \A w \in Workers :
    /\ place[w].grp # None => place[w].slot \in SlotsOf(place[w].grp)
    /\ Leaving(w) => /\ place[w].grp # None
                     /\ Target(w) \in Groups /\ reg[w].slot \in SlotsOf(Target(w))

\* Between begin_execution and the end of end_execution.
Running == up \/ pc[Main] = "latch"

SlotInv ==
  Running =>
    /\ \A w \in Workers : Leaving(w) => place[w] # [grp |-> Target(w), slot |-> reg[w].slot]
    /\ \A g \in Groups : \A s \in SlotsOf(g) :
         /\ \A w \in Workers : Holds(w, g, s) => s \notin free[g]
         /\ \A v, w \in Workers : Holds(v, g, s) /\ Holds(w, g, s) => v = w
         /\ s \notin free[g] => \E w \in Workers : Holds(w, g, s)

\* Holds, in terms of where the worker is and where it goes.
LEMMA HoldsIs ==
  ASSUME NEW w, NEW g, NEW s
  PROVE  Holds(w, g, s) <=> \/ place[w] = [grp |-> g, slot |-> s]
                            \/ Leaving(w) /\ Target(w) = g /\ reg[w].slot = s
BY DEF Holds, Leaving, Target

\* A step that is no Begin and does not move a worker from slot to slot.
LEMMA StaysSeated ==
  ASSUME Types, NEW t \in Threads, Step(t),
         ~(t = Main /\ Begin), ~Exit(t), ~Enter(t), ~Leave(t), ~Restore(t)
  PROVE  /\ UNCHANGED <<free, place>> /\ ~Leaving(t) /\ ~Leaving(t)'
         /\ \A w \in Workers : Leaving(w)' = Leaving(w)
                               /\ (Leaving(w) => Target(w)' = Target(w) /\ reg'[w].slot = reg[w].slot)
<1>1. UNCHANGED <<free, place>> /\ Others(t)
  BY PlaceSteps, OthersStay
<1>2. ThreadTypes /\ pc \in [Threads -> PCs]
  BY DEF Types, ThreadTypes
<1>3. ~Leaving(t) /\ pc'[t] \notin {"leave", "restore_leave"}
  <2>. USE DEF Goto, WakeThen, Got, Leaving
  <2>1. CASE Latch /\ t = Main
    BY <1>2, <2>1 DEF Latch
  <2>2. CASE Submit(t) \/ PushLocal(t) \/ PushMail(t) \/ Advertise(t)
    BY <1>2, <2>2 DEF Submit, PushLocal, PushMail, Advertise, In
  <2>3. CASE WakeEpoch(t) \/ WakeRead(t) \/ WakeRelease(t)
    <3>1. wake[t].to \in Returns
      BY <1>2 DEF ThreadTypes
    <3>. QED BY <1>2, <2>3, <3>1 DEF WakeEpoch, WakeRead, WakeRelease, Returns
  <2>4. CASE MailHelp(t) \/ LoadToken(t) \/ Arm(t)
    BY <1>2, <2>4 DEF MailHelp, LoadToken, Arm, Help, Find
  <2>5. CASE OwnGroup(t) \/ PopOwn(t) \/ Steal(t) \/ TakeMail(t)
    BY <1>2, <2>5 DEF OwnGroup, PopOwn, Steal, TakeMail
  <2>6. CASE NextGroup(t)
    <3>1. NotFound(t) => \E l \in {"arm", "check", "own", "restore"} : Goto(t, l)
      BY DEF NotFound, Find
    <3>2. \E l \in {"arm", "check", "own", "restore", "next", "steal", "enter"} : pc'[t] = l
      BY <1>2, <2>6, <3>1 DEF NextGroup
    <3>. QED BY <2>6, <3>2 DEF NextGroup
  <2>7. CASE Sink(t) \/ Chain(t) \/ Exec(t) \/ EndTask(t)
    BY <1>2, <2>7 DEF Sink, Chain, Exec, EndTask
  <2>8. CASE Back(t) \/ Block(t) \/ Signal(t)
    BY <1>2, <2>8 DEF Back, Block, Signal, In
  <2>9. CASE CoopWait(t) \/ WaitLoad(t)
    BY <1>2, <2>9 DEF CoopWait, WaitLoad, WaitOver, Help, Find, In
  <2>10. CASE WaitMore(t) \/ SetStop(t) \/ Stopping(t) \/ Join(t)
    BY <1>2, <2>10 DEF WaitMore, SetStop, Stopping, Join
  <2>11. CASE Entry(t) \/ LoopHead(t) \/ EpochCheck(t) \/ Acquire(t) \/ Woken(t) \/ Disarm(t)
    BY <1>2, <2>11 DEF Entry, LoopHead, EpochCheck, Acquire, Woken, Disarm
  <2>. QED BY <2>1, <2>2, <2>3, <2>4, <2>5, <2>6, <2>7, <2>8, <2>9, <2>10, <2>11 DEF Step
<1>. QED BY <1>1, <1>3, MainWorks DEF Others, Leaving, Target

\* A step that leaves the slots and the places alone, and is of a worker not on the move.
LEMMA KeepsSeats ==
  ASSUME Types, NEW t \in Threads, Others(t), UNCHANGED <<free, place>>, ~Leaving(t), ~Leaving(t)'
  PROVE  /\ Seated => Seated'
         /\ PlaceTypes'
         /\ (Running' => Running) /\ SlotInv => SlotInv'
<1>1. \A w \in Workers : Leaving(w)' = Leaving(w)
                         /\ (Leaving(w) => Target(w)' = Target(w) /\ reg'[w].slot = reg[w].slot)
  BY MainWorks DEF Others, Leaving, Target
<1>2. \A w \in Workers : \A g, s : Holds(w, g, s)' <=> Holds(w, g, s)
  <2>1. SUFFICES ASSUME NEW w \in Workers, NEW g, NEW s PROVE Holds(w, g, s)' <=> Holds(w, g, s)
    OBVIOUS
  <2>2. Holds(w, g, s)' <=> \/ place'[w] = [grp |-> g, slot |-> s]
                            \/ Leaving(w)' /\ Target(w)' = g /\ reg'[w].slot = s
    BY HoldsIs DEF Holds, Leaving, Target
  <2>. QED BY <1>1, <2>2, HoldsIs
<1>3. Seated => Seated'
  BY <1>1 DEF Seated
<1>4. PlaceTypes'
  BY <1>1 DEF Types, PlaceTypes
<1>5. (Running' => Running) /\ SlotInv => SlotInv'
  <2>1. SUFFICES ASSUME Running, SlotInv PROVE SlotInv'
    BY DEF SlotInv
  <2>2. \A w \in Workers : Leaving(w)' => place'[w] # [grp |-> Target(w)', slot |-> reg'[w].slot]
    BY <1>1, <2>1 DEF SlotInv
  <2>3. \A g \in Groups : \A s \in SlotsOf(g) :
          /\ \A w \in Workers : Holds(w, g, s)' => s \notin free'[g]
          /\ \A v, w \in Workers : Holds(v, g, s)' /\ Holds(w, g, s)' => v = w
          /\ s \notin free'[g] => \E w \in Workers : Holds(w, g, s)'
    BY <1>1, <1>2, <2>1 DEF SlotInv
  <2>. QED BY <2>2, <2>3 DEF SlotInv
<1>. QED BY <1>3, <1>4, <1>5

\* A step that is no Begin and moves no worker from slot to slot.
LEMMA SeatedSame ==
  ASSUME Types, NEW t \in Threads, Step(t),
         ~(t = Main /\ Begin), ~Exit(t), ~Enter(t), ~Leave(t), ~Restore(t)
  PROVE  /\ Seated => Seated'
         /\ PlaceTypes'
         /\ (Running' => Running) /\ SlotInv => SlotInv'
BY StaysSeated, OthersStay, KeepsSeats

\* Only begin_execution starts the execution.
LEMMA RunningStays ==
  ASSUME Types, NEW t \in Threads, Step(t), ~(t = Main /\ Begin), Running'
  PROVE  Running
<1>1. CASE t = Main /\ Latch
  BY <1>1 DEF Latch, Running
<1>2. CASE ~(t = Main /\ Latch)
  <2>1. Others(t) /\ pc \in [Threads -> PCs] /\ Main \in Threads
    BY OthersStay, MainWorks DEF Types, ThreadTypes
  <2>2. up' => up
    BY <1>2 DEF Step, Submit, PushLocal, PushMail, MailHelp, Advertise, WakeEpoch, WakeRead,
      WakeRelease, OwnGroup, PopOwn, Steal, TakeMail, NextGroup, Enter, Leave, Sink, Chain, Exec,
      EndTask, Restore, Back, Signal, CoopWait, Block, WaitLoad, WaitMore, SetStop, Stopping, Join,
      Entry, LoopHead, LoadToken, Arm, EpochCheck, Exit, Acquire, Woken, Disarm, ctlVars
  <2>3. pc'[t] = "latch" => FALSE
    <3>1. wake[t].to \in Returns
      BY DEF Types, ThreadTypes
    <3>. USE DEF Goto, WakeThen, Got, EnterGroup
    <3>2. CASE Submit(t) \/ PushLocal(t) \/ PushMail(t) \/ Advertise(t)
      BY <2>1, <3>2 DEF Submit, PushLocal, PushMail, Advertise
    <3>3. CASE WakeEpoch(t) \/ WakeRead(t) \/ WakeRelease(t)
      BY <2>1, <3>1, <3>3 DEF WakeEpoch, WakeRead, WakeRelease, Returns
    <3>4. CASE MailHelp(t) \/ LoadToken(t) \/ Arm(t)
      BY <2>1, <3>4 DEF MailHelp, LoadToken, Arm, Help, Find
    <3>5. CASE OwnGroup(t) \/ PopOwn(t) \/ Steal(t) \/ TakeMail(t)
      BY <2>1, <3>5 DEF OwnGroup, PopOwn, Steal, TakeMail
    <3>6. CASE NextGroup(t)
      <4>1. NotFound(t) => \E l \in {"arm", "check", "own", "restore"} : Goto(t, l)
        BY DEF NotFound, Find
      <4>2. \E l \in {"arm", "check", "own", "restore", "next", "steal", "enter"} : pc'[t] = l
        BY <2>1, <3>6, <4>1 DEF NextGroup
      <4>. QED BY <4>2
    <3>7. CASE Enter(t) \/ Leave(t) \/ Restore(t)
      BY <2>1, <3>7 DEF Enter, Leave, Restore
    <3>8. CASE Sink(t) \/ Chain(t) \/ Exec(t) \/ EndTask(t)
      BY <2>1, <3>8 DEF Sink, Chain, Exec, EndTask
    <3>9. CASE Back(t) \/ Block(t) \/ Signal(t)
      BY <2>1, <3>9 DEF Back, Block, Signal, In
    <3>10. CASE CoopWait(t) \/ WaitLoad(t)
      BY <2>1, <3>10 DEF CoopWait, WaitLoad, WaitOver, Help, Find, In
    <3>11. CASE WaitMore(t) \/ SetStop(t) \/ Stopping(t) \/ Join(t)
      BY <2>1, <3>11 DEF WaitMore, SetStop, Stopping, Join
    <3>12. CASE Entry(t) \/ LoopHead(t) \/ EpochCheck(t) \/ Exit(t) \/ Acquire(t) \/ Woken(t) \/ Disarm(t)
      BY <2>1, <3>12 DEF Entry, LoopHead, EpochCheck, Exit, Acquire, Woken, Disarm
    <3>. QED BY <1>2, <3>2, <3>3, <3>4, <3>5, <3>6, <3>7, <3>8, <3>9, <3>10, <3>11, <3>12 DEF Step
  <2>. QED BY <2>1, <2>2, <2>3 DEF Running, Others
<1>. QED BY <1>1, <1>2

\* Claiming the lowest free slot of g, with the old group, if any, still held.
LEMMA ClaimKeeps ==
  ASSUME Types, Seated, NEW t \in Workers, NEW g \in Groups,
         NEW next \in PCs \ {"leave", "restore_leave"}, NEW leave \in {"leave", "restore_leave"},
         ~Leaving(t), EnterGroup(t, g, next, leave), Others(t),
         leave = "leave" => reg[t].grp = g,
         leave = "restore_leave" => reg[t].saved = g
  PROVE  /\ PlaceTypes' /\ Seated'
         /\ (Running' => Running) /\ SlotInv => SlotInv'
<1> DEFINE s == Lowest(free[g])
<1>0. PlaceTypes /\ ThreadTypes /\ t \in Threads
  BY MainWorks DEF Types
<1>1. /\ free[g] # {} /\ s \in free[g] /\ s \in SlotsOf(g) /\ s \in AllSlots
  <2>1. free[g] \subseteq Nat /\ free[g] # {} /\ free[g] \subseteq SlotsOf(g) /\ SlotsOf(g) \subseteq AllSlots
    BY <1>0, SlotFacts DEF PlaceTypes, EnterGroup
  <2>. QED BY <2>1, LowestIn
<1>2. /\ free' = [free EXCEPT ![g] = @ \ {s}]
      /\ reg' = [reg EXCEPT ![t].slot = s]
      /\ \/ /\ place[t].grp = None /\ place' = [place EXCEPT ![t] = [grp |-> g, slot |-> s]]
            /\ pc' = [pc EXCEPT ![t] = next]
         \/ place[t].grp # None /\ place' = place /\ pc' = [pc EXCEPT ![t] = leave]
  BY DEF EnterGroup, Goto
<1>3. /\ free \in [Groups -> SUBSET AllSlots] /\ place \in [Workers -> Spots]
      /\ reg \in [Threads -> Regs] /\ pc \in [Threads -> PCs]
      /\ \A h \in Groups : free[h] \subseteq SlotsOf(h)
  BY <1>0 DEF PlaceTypes, ThreadTypes
<1>. HIDE DEF s
<1>4. [grp |-> g, slot |-> s] \in Spots /\ g # None
  BY <1>1, ThreadAssumption DEF Spots
<1>5. /\ free'[g] = free[g] \ {s} /\ \A h \in Groups \ {g} : free'[h] = free[h]
      /\ reg'[t].slot = s /\ reg'[t].grp = reg[t].grp /\ reg'[t].saved = reg[t].saved
  BY <1>2, <1>3, <1>0 DEF Regs
<1>6. \A w \in Workers \ {t} :
        /\ place'[w] = place[w]
        /\ Leaving(w)' = Leaving(w) /\ Target(w)' = Target(w) /\ reg'[w].slot = reg[w].slot
  BY MainWorks DEF Others, Leaving, Target
<1>7. \/ /\ place[t].grp = None /\ place'[t] = [grp |-> g, slot |-> s] /\ ~Leaving(t)'
      \/ /\ place[t].grp # None /\ place'[t] = place[t] /\ Leaving(t)' /\ Target(t)' = g
  BY <1>0, <1>2, <1>3, <1>5 DEF Leaving, Target
<1>8. PlaceTypes'
  BY <1>1, <1>2, <1>3, <1>4 DEF PlaceTypes
<1>9. Seated'
  BY <1>1, <1>4, <1>5, <1>6, <1>7 DEF Seated
<1>10. (Running' => Running) /\ SlotInv => SlotInv'
  <2>1. SUFFICES ASSUME Running, SlotInv PROVE SlotInv'
    BY DEF SlotInv
  <2>2. \A w \in Workers \ {t} : \A h, r : Holds(w, h, r)' <=> Holds(w, h, r)
    BY <1>6 DEF Holds, Leaving, Target
  <2>3. \A h \in Groups : \A r \in SlotsOf(h) : Holds(t, h, r)' <=> Holds(t, h, r) \/ (h = g /\ r = s)
    <3>1. SUFFICES ASSUME NEW h \in Groups, NEW r \in SlotsOf(h)
                   PROVE  Holds(t, h, r)' <=> Holds(t, h, r) \/ (h = g /\ r = s)
      OBVIOUS
    <3>2. Holds(t, h, r) <=> place[t] = [grp |-> h, slot |-> r]
      BY HoldsIs
    <3>3. Holds(t, h, r)' <=> \/ place'[t] = [grp |-> h, slot |-> r]
                              \/ Leaving(t)' /\ Target(t)' = h /\ reg'[t].slot = r
      BY HoldsIs DEF Holds, Leaving, Target
    <3>4. h # None
      BY ThreadAssumption
    <3>. QED BY <1>5, <1>7, <3>2, <3>3, <3>4
  <2>4. \A w \in Workers : ~Holds(w, g, s)
    BY <1>1, <2>1 DEF SlotInv
  <2>5. \A w \in Workers : Leaving(w)' => place'[w] # [grp |-> Target(w)', slot |-> reg'[w].slot]
    <3>1. Leaving(t)' => place'[t] # [grp |-> g, slot |-> s]
      BY <1>4, <1>7, <2>4, HoldsIs
    <3>. QED BY <1>5, <1>6, <1>7, <2>1, <3>1 DEF SlotInv
  <2>6. ASSUME NEW h \in Groups, NEW r \in SlotsOf(h)
        PROVE  /\ \A w \in Workers : Holds(w, h, r)' => r \notin free'[h]
               /\ \A v, w \in Workers : Holds(v, h, r)' /\ Holds(w, h, r)' => v = w
               /\ r \notin free'[h] => \E w \in Workers : Holds(w, h, r)'
    <3>1. CASE h = g /\ r = s
      <4>1. \A w \in Workers : Holds(w, h, r)' <=> w = t
        BY <2>2, <2>3, <2>4, <3>1
      <4>. QED BY <1>5, <3>1, <4>1
    <3>2. CASE ~(h = g /\ r = s)
      <4>1. \A w \in Workers : Holds(w, h, r)' <=> Holds(w, h, r)
        BY <2>2, <2>3, <3>2
      <4>2. r \in free'[h] <=> r \in free[h]
        BY <1>5, <3>2
      <4>. QED BY <2>1, <4>1, <4>2 DEF SlotInv
    <3>. QED BY <3>1, <3>2
  <2>7. \A h \in Groups : \A r \in SlotsOf(h) :
          /\ \A w \in Workers : Holds(w, h, r)' => r \notin free'[h]
          /\ \A v, w \in Workers : Holds(v, h, r)' /\ Holds(w, h, r)' => v = w
          /\ r \notin free'[h] => \E w \in Workers : Holds(w, h, r)'
    BY <2>6
  <2>. QED BY <2>5, <2>7 DEF SlotInv
<1>. QED BY <1>8, <1>9, <1>10

\* Giving back the slot of the group the worker was in; p is where it is now.
LEMMA VacateKeeps ==
  ASSUME Types, Seated, NEW t \in Workers, Vacate(t), Others(t),
         NEW p \in Spots, place' = [place EXCEPT ![t] = p], ~Leaving(t)',
         IF Leaving(t) THEN p = [grp |-> Target(t), slot |-> reg[t].slot] ELSE p = NoPlace
  PROVE  /\ PlaceTypes' /\ Seated'
         /\ (Running' => Running) /\ SlotInv => SlotInv'
<1>0. PlaceTypes /\ t \in Threads
  BY MainWorks DEF Types
<1>1. /\ free \in [Groups -> SUBSET AllSlots] /\ place \in [Workers -> Spots]
      /\ \A h \in Groups : free[h] \subseteq SlotsOf(h)
      /\ None \notin Groups
  BY <1>0, ThreadAssumption DEF PlaceTypes
<1>2. place[t].grp # None => place[t].grp \in Groups /\ place[t].slot \in SlotsOf(place[t].grp)
  BY <1>1 DEF Seated, Spots
<1>3. \A h \in Groups : free'[h] = IF place[t].grp = h THEN free[h] \cup {place[t].slot} ELSE free[h]
  BY <1>1, <1>2 DEF Vacate
<1>4. place'[t] = p /\ \A w \in Workers \ {t} :
        /\ place'[w] = place[w]
        /\ Leaving(w)' = Leaving(w) /\ Target(w)' = Target(w) /\ reg'[w].slot = reg[w].slot
  BY <1>1, MainWorks DEF Others, Leaving, Target
<1>5. p.grp # None => p.slot \in SlotsOf(p.grp)
  BY DEF Seated, NoPlace
<1>6. PlaceTypes'
  <2>1. free' \in [Groups -> SUBSET AllSlots]
    BY <1>1, <1>2, SlotFacts DEF Vacate
  <2>2. \A h \in Groups : free'[h] \subseteq SlotsOf(h)
    BY <1>1, <1>2, <1>3
  <2>3. place' \in [Workers -> Spots]
    BY <1>1
  <2>. QED BY <2>1, <2>2, <2>3 DEF PlaceTypes
<1>7. Seated'
  BY <1>4, <1>5 DEF Seated
<1>8. (Running' => Running) /\ SlotInv => SlotInv'
  <2>1. SUFFICES ASSUME Running, SlotInv PROVE SlotInv'
    BY DEF SlotInv
  <2>2. \A w \in Workers \ {t} : \A h, r : Holds(w, h, r)' <=> Holds(w, h, r)
    BY <1>4 DEF Holds, Leaving, Target
  <2>3. \A h \in Groups : \A r \in SlotsOf(h) :
          Holds(t, h, r)' <=> Holds(t, h, r) /\ place[t] # [grp |-> h, slot |-> r]
    <3>1. SUFFICES ASSUME NEW h \in Groups, NEW r \in SlotsOf(h)
                   PROVE  Holds(t, h, r)' <=> Holds(t, h, r) /\ place[t] # [grp |-> h, slot |-> r]
      OBVIOUS
    <3>2. Holds(t, h, r) <=> \/ place[t] = [grp |-> h, slot |-> r]
                             \/ Leaving(t) /\ Target(t) = h /\ reg[t].slot = r
      BY HoldsIs
    <3>3. Holds(t, h, r)' <=> p = [grp |-> h, slot |-> r]
      BY <1>4 DEF Holds, Leaving
    <3>4. CASE Leaving(t)
      <4>1. place[t] # [grp |-> Target(t), slot |-> reg[t].slot]
        BY <2>1, <3>4 DEF SlotInv
      <4>. QED BY <3>2, <3>3, <3>4, <4>1
    <3>5. CASE ~Leaving(t)
      BY <1>1, <3>2, <3>3, <3>5 DEF NoPlace
    <3>. QED BY <3>4, <3>5
  <2>4. \A w \in Workers : Leaving(w)' => place'[w] # [grp |-> Target(w)', slot |-> reg'[w].slot]
    BY <1>4, <2>1 DEF SlotInv
  <2>5. ASSUME NEW h \in Groups, NEW r \in SlotsOf(h)
        PROVE  /\ \A w \in Workers : Holds(w, h, r)' => r \notin free'[h]
               /\ \A v, w \in Workers : Holds(v, h, r)' /\ Holds(w, h, r)' => v = w
               /\ r \notin free'[h] => \E w \in Workers : Holds(w, h, r)'
    <3>1. place[t] = [grp |-> h, slot |-> r] <=> place[t].grp = h /\ place[t].slot = r
      <4>1. place[t] \in Spots
        BY <1>1
      <4>. QED BY <4>1 DEF Spots
    <3>2. CASE place[t] = [grp |-> h, slot |-> r]
      <4>1. Holds(t, h, r)
        BY <3>2, HoldsIs
      <4>2. \A w \in Workers : Holds(w, h, r) => w = t
        BY <2>1, <4>1 DEF SlotInv
      <4>3. \A w \in Workers : ~Holds(w, h, r)'
        BY <2>2, <2>3, <3>2, <4>2
      <4>4. r \in free'[h]
        BY <1>3, <3>1, <3>2
      <4>. QED BY <4>3, <4>4
    <3>3. CASE place[t] # [grp |-> h, slot |-> r]
      <4>1. \A w \in Workers : Holds(w, h, r)' <=> Holds(w, h, r)
        BY <2>2, <2>3, <3>3
      <4>2. r \in free'[h] <=> r \in free[h]
        BY <1>3, <3>1, <3>3
      <4>. QED BY <2>1, <4>1, <4>2 DEF SlotInv
    <3>. QED BY <3>2, <3>3
  <2>6. \A h \in Groups : \A r \in SlotsOf(h) :
          /\ \A w \in Workers : Holds(w, h, r)' => r \notin free'[h]
          /\ \A v, w \in Workers : Holds(v, h, r)' /\ Holds(w, h, r)' => v = w
          /\ r \notin free'[h] => \E w \in Workers : Holds(w, h, r)'
    BY <2>5
  <2>. QED BY <2>4, <2>6 DEF SlotInv
<1>. QED BY <1>6, <1>7, <1>8

\* begin_execution gives out all slots but the one of the main thread.
LEMMA BeginSeats ==
  ASSUME Types, Begin PROVE PlaceTypes' /\ Seated' /\ SlotInv'
<1>0. PlaceTypes /\ ThreadTypes /\ Main \in Workers /\ Workers \subseteq Threads /\ None \notin Groups
  BY MainWorks, ThreadAssumption DEF Types
<1>1. /\ free' = [g \in Groups |-> IF g = 0 THEN SlotsOf(g) \ {0} ELSE SlotsOf(g)]
      /\ place' = [w \in Workers |-> IF w = Main THEN [grp |-> 0, slot |-> 0] ELSE NoPlace]
      /\ pc' = [t \in Threads |-> IF t \in Workers \ {Main} THEN "entry"
                                  ELSE IF t = Main THEN "latch" ELSE pc[t]]
  BY DEF Begin
<1>2. NoPlace \in Spots /\ [grp |-> 0, slot |-> 0] \in Spots
  BY SlotFacts, GroupAssumption DEF NoPlace, Spots
<1>3. PlaceTypes'
  <2>1. \A g \in Groups : SlotsOf(g) \subseteq AllSlots
    BY SlotFacts
  <2>. QED BY <1>1, <1>2, <2>1 DEF PlaceTypes
<1>4. \A w \in Workers : ~Leaving(w)'
  BY <1>0, <1>1 DEF Leaving
<1>5. \A w \in Workers : place'[w] = IF w = Main THEN [grp |-> 0, slot |-> 0] ELSE NoPlace
  BY <1>1
<1>6. Seated'
  BY <1>4, <1>5, SlotFacts DEF Seated, NoPlace
<1>7. \A w \in Workers : \A g \in Groups : \A s : Holds(w, g, s)' <=> w = Main /\ g = 0 /\ s = 0
  <2>1. SUFFICES ASSUME NEW w \in Workers, NEW g \in Groups, NEW s
                 PROVE  Holds(w, g, s)' <=> w = Main /\ g = 0 /\ s = 0
    OBVIOUS
  <2>2. Holds(w, g, s)' <=> place'[w] = [grp |-> g, slot |-> s]
    BY <1>4 DEF Holds, Leaving
  <2>. QED BY <1>0, <1>5, <2>2 DEF NoPlace
<1>8. \A g \in Groups : \A s \in SlotsOf(g) : s \notin free'[g] <=> g = 0 /\ s = 0
  BY <1>1
<1>. QED BY <1>0, <1>3, <1>4, <1>6, <1>7, <1>8 DEF SlotInv

LEMMA SeatedStep ==
  ASSUME Types, Seated, NEW t \in Threads, Step(t)
  PROVE  PlaceTypes' /\ Seated' /\ (SlotInv => SlotInv')
<1>0. ThreadTypes /\ PlaceTypes
  BY DEF Types
<1>1. CASE t = Main /\ Begin
  BY <1>1, BeginSeats
<1>2. CASE ~(t = Main /\ Begin)
  <2>0. (Running' => Running) /\ Others(t)
    BY <1>2, RunningStays, OthersStay
  <2>1. CASE Exit(t)
    <3>1. t \in Workers /\ ~Leaving(t) /\ pc' = [pc EXCEPT ![t] = "parked"]
      BY <1>0, <2>1, LocalsHere DEF Exit, LocalsAt, LoopPCs, WakePCs, Leaving, Goto
    <3>2. ~Leaving(t)' /\ NoPlace \in Spots
      BY <1>0, <3>1, SlotFacts DEF Leaving, ThreadTypes, NoPlace, Spots
    <3>3. Vacate(t) /\ place' = [place EXCEPT ![t] = NoPlace]
      BY <2>1 DEF Exit
    <3>. QED BY <2>0, <3>1, <3>2, <3>3, VacateKeeps
  <2>2. CASE Leave(t)
    <3> DEFINE p == [grp |-> Target(t), slot |-> reg[t].slot]
    <3>1. t \in Workers /\ Leaving(t)
      BY <1>0, <2>2, LocalsHere DEF Leave, LocalsAt, FindPCs, WakePCs, Leaving
    <3>2. p \in Spots
      BY <1>0, <3>1, SlotFacts DEF Seated, Spots
    <3>3. Vacate(t) /\ place' = [place EXCEPT ![t] = p]
          /\ \E l \in {"steal", "back"} : pc' = [pc EXCEPT ![t] = l]
      BY <2>2 DEF Leave, Target, Goto
    <3>4. ~Leaving(t)'
      BY <1>0, <3>3 DEF Leaving, ThreadTypes
    <3>. QED BY <2>0, <3>1, <3>2, <3>3, <3>4, VacateKeeps
  <2>3. CASE Enter(t)
    <3>1. t \in Workers /\ ~Leaving(t) /\ reg[t].grp \in Groups
      BY <1>0, <2>3, LocalsHere DEF Enter, LocalsAt, FindPCs, HoldPCs, WakePCs, Leaving
    <3>2. CASE EnterGroup(t, reg[t].grp, "steal", "leave")
      <4>1. "steal" \in PCs \ {"leave", "restore_leave"}
        BY DEF PCs
      <4>. QED BY <2>0, <3>1, <3>2, <4>1, ClaimKeeps
    <3>3. CASE Goto(t, "next") /\ UNCHANGED <<free, place, reg>>
      <4>1. pc' = [pc EXCEPT ![t] = "next"] /\ ~Leaving(t)'
        BY <1>0, <3>3 DEF Goto, Leaving, ThreadTypes
      <4>. QED BY <2>0, <3>1, <3>3, <4>1, KeepsSeats
    <3>. QED BY <2>3, <3>2, <3>3 DEF Enter
  <2>4. CASE Restore(t)
    <3>1. t \in Workers /\ ~Leaving(t) /\ reg[t].saved \in Groups \cup {None}
      BY <1>0, <2>4, LocalsHere DEF Restore, LocalsAt, WakePCs, Leaving, Regs
    <3>2. CASE reg[t].saved # None /\ EnterGroup(t, reg[t].saved, "back", "restore_leave")
      <4>1. "back" \in PCs \ {"leave", "restore_leave"} /\ reg[t].saved \in Groups
        BY <3>1, <3>2 DEF PCs
      <4>. QED BY <2>0, <3>1, <3>2, <4>1, ClaimKeeps
    <3>3. CASE Goto(t, "back") /\ UNCHANGED <<free, place, reg>>
      <4>1. pc' = [pc EXCEPT ![t] = "back"] /\ ~Leaving(t)'
        BY <1>0, <3>3 DEF Goto, Leaving, ThreadTypes
      <4>. QED BY <2>0, <3>1, <3>3, <4>1, KeepsSeats
    <3>. QED BY <2>4, <3>2, <3>3 DEF Restore
  <2>5. CASE ~Exit(t) /\ ~Leave(t) /\ ~Enter(t) /\ ~Restore(t)
    BY <1>2, <2>0, <2>5, SeatedSame
  <2>. QED BY <2>1, <2>2, <2>3, <2>4, <2>5
<1>. QED BY <1>1, <1>2

-----------------------------------------------------------------------------
(* The theorems.                                                           *)

LEMMA TypesInit == Init => Types /\ Seated /\ SlotInv
<1>1. SUFFICES ASSUME Init PROVE Types /\ Seated /\ SlotInv
  OBVIOUS
<1>2. QueueTypes
  BY <1>1 DEF Init, QueueTypes, EmptyDeques
<1>3. ParkTypes
  BY <1>1, SizeAssumption DEF Init, ParkTypes
<1>4. CtlTypes
  <2>1. stop = FALSE /\ up = FALSE
    BY <1>1, Zenon DEF Init
  <2>2. stop \in BOOLEAN /\ up \in BOOLEAN
    BY <2>1, Zenon
  <2>3. pending \in Int /\ event \in [Events -> {0, 1}]
    BY <1>1 DEF Init
  <2>. QED BY <2>2, <2>3 DEF CtlTypes
<1>5. FlowTypes
  <2>1. stack = [t \in Threads |-> <<>>] /\ at = [x \in {Main} \cup Foreign \cup Tasks |-> 1]
    BY <1>1 DEF Init
  <2>. QED BY <2>1 DEF FlowTypes
<1>6. PlaceTypes
  <2>1. NoPlace \in Spots
    BY SlotFacts DEF NoPlace, Spots
  <2>. QED BY <1>1, <2>1 DEF Init, PlaceTypes
<1>7. pc = [t \in Threads |-> IF t \in Workers \ {Main} THEN "exited" ELSE "user"]
      /\ wake = [t \in Threads |-> NoWake] /\ reg = [t \in Threads |-> NoRegs]
      /\ place = [w \in Workers |-> NoPlace]
  BY <1>1 DEF Init
<1>8. ThreadTypes
  <2>1. NoRegs \in Regs /\ NoWake \in [want : Nat, to : Returns]
    BY SlotFacts DEF NoRegs, Regs, NoWake, Returns
  <2>2. \A t \in Threads : Heading(t) = pc[t]
    BY <1>7 DEF Heading, WakePCs
  <2>3. \A t \in Threads : LocalsAt(t, pc[t], reg[t])
    BY <1>7 DEF LocalsAt, LoopPCs, FindPCs, HoldPCs
  <2>4. pc \in [Threads -> PCs]
    BY <1>7 DEF PCs
  <2>. QED BY <1>7, <2>1, <2>2, <2>3, <2>4 DEF ThreadTypes
<1>9. Seated
  BY <1>7, MainWorks DEF Seated, Leaving, NoPlace
<1>10. SlotInv
  <2>1. ~Running
    <3>1. ~up
      BY <1>1, Zenon DEF Init
    <3>. QED BY <1>7, <3>1, MainWorks DEF Running
  <2>. QED BY <2>1 DEF SlotInv
<1>. QED BY <1>1, <1>2, <1>3, <1>4, <1>5, <1>6, <1>8, <1>9, <1>10 DEF Types, Init

LEMMA TypesNext ==
  ASSUME Types, Seated, [Next]_vars PROVE Types' /\ Seated' /\ (SlotInv => SlotInv')
<1>1. ASSUME NEW t \in Threads, Step(t) PROVE Types' /\ Seated' /\ (SlotInv => SlotInv')
  <2>1. PlaceTypes' /\ Seated' /\ (SlotInv => SlotInv')
    BY <1>1, SeatedStep
  <2>2. QueueTypes' /\ ParkTypes' /\ CtlTypes' /\ submitted' \subseteq Tasks /\ FlowTypes' /\ ThreadTypes'
    BY <1>1, QueueStep, ParkStep, CtlStep, FlowStep, ThreadStep
  <2>. QED BY <2>1, <2>2 DEF Types
<1>2. CASE UNCHANGED vars
  <2>1. Types'
    <3>1. QueueTypes' /\ ParkTypes' /\ CtlTypes' /\ submitted' \subseteq Tasks
      BY <1>2 DEF vars, Types, QueueTypes, ParkTypes, CtlTypes
    <3>2. FlowTypes' /\ PlaceTypes'
      BY <1>2 DEF vars, Types, FlowTypes, PlaceTypes
    <3>3. ThreadTypes'
      BY <1>2 DEF vars, Types, ThreadTypes, Heading
    <3>. QED BY <3>1, <3>2, <3>3 DEF Types
  <2>2. \A w, g, s : Holds(w, g, s)' <=> Holds(w, g, s)
    BY <1>2 DEF vars, Holds
  <2>3. Seated'
    BY <1>2 DEF vars, Seated, Leaving, Target
  <2>4. SlotInv => SlotInv'
    <3>1. Running' = Running
      BY <1>2, Zenon DEF vars, Running
    <3>2. \A w : Leaving(w)' = Leaving(w) /\ Target(w)' = Target(w)
      BY <1>2 DEF vars, Leaving, Target
    <3>. QED BY <1>2, <2>2, <3>1, <3>2 DEF vars, SlotInv
  <2>. QED BY <2>1, <2>3, <2>4
<1>. QED BY <1>1, <1>2 DEF Next, Finished

\* The part of the type invariant that needs no accounting: what a thread has in its locals and
\* on its stack fits the place it is at, tokens stay within their bound, and the slots in use
\* are slots of their groups.
THEOREM TypesCorrect == Spec => [](Types /\ Seated)
<1>1. Init => Types /\ Seated
  BY TypesInit
<1>2. Types /\ Seated /\ [Next]_vars => (Types /\ Seated)'
  BY TypesNext
<1>. QED BY <1>1, <1>2, PTL DEF Spec

LEMMA OneHolder ==
  ASSUME SlotInv PROVE SlotExclusive
<1>1. SUFFICES ASSUME up, NEW g \in Groups, NEW s \in SlotsOf(g)
               PROVE  Cardinality({w \in Workers : Holds(w, g, s)}) = IF s \in free[g] THEN 0 ELSE 1
  BY DEF SlotExclusive
<1> DEFINE W == {w \in Workers : Holds(w, g, s)}
<1>2. /\ \A w \in Workers : Holds(w, g, s) => s \notin free[g]
      /\ \A v, w \in Workers : Holds(v, g, s) /\ Holds(w, g, s) => v = w
      /\ s \notin free[g] => \E w \in Workers : Holds(w, g, s)
  BY <1>1 DEF SlotInv, Running
<1>3. CASE s \in free[g]
  <2>1. W = {}
    BY <1>2, <1>3
  <2>. QED BY <1>3, <2>1, FS_EmptySet
<1>4. CASE s \notin free[g]
  <2>1. PICK w \in Workers : Holds(w, g, s)
    BY <1>2, <1>4
  <2>2. W = {w}
    BY <1>2, <2>1
  <2>. QED BY <1>4, <2>2, FS_Singleton
<1>. QED BY <1>3, <1>4

\* While an execution is up, every slot of every group is free and empty, or has exactly one
\* worker: claim_slot never gives a slot to two workers, and exit and enter_context lose none.
\* The deque of a slot therefore has one producer at a time.
THEOREM SlotTheorem == Spec => []SlotExclusive
<1>1. Init => Types /\ Seated /\ SlotInv
  BY TypesInit
<1>2. Types /\ Seated /\ SlotInv /\ [Next]_vars => (Types /\ Seated /\ SlotInv)'
  BY TypesNext
<1>3. Types /\ Seated /\ SlotInv => SlotExclusive
  BY OneHolder
<1>. QED BY <1>1, <1>2, <1>3, PTL DEF Spec

=============================================================================
