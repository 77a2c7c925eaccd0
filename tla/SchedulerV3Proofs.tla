------------------------- MODULE SchedulerV3Proofs -------------------------
(***************************************************************************)
(* Proofs about SchedulerV3 for every number of workers, groups, tasks and *)
(* every program (Script) its clients run: the types, the wakeups, where   *)
(* the tasks are, and then the counters and the context.                   *)
(***************************************************************************)
EXTENDS SchedulerV3, FiniteSetTheorems, TLAPS

\* The last element of a non-empty sequence, and what is left before it.
LEMMA LastOfSeq ==
  ASSUME NEW S, NEW s \in Seq(S), s # <<>>
  PROVE  /\ s[Len(s)] \in S /\ Head(s) \in S
         /\ SubSeq(s, 1, Len(s) - 1) \in Seq(S) /\ Tail(s) \in Seq(S)
<1>1. Len(s) \in Nat \ {0}
  OBVIOUS
<1>. QED BY <1>1

\* The call a thread is in names a task, a group or an event, as its operation demands.
LEMMA CallTyped ==
  ASSUME NEW t \in Threads, NEW op, Calls(t, op), TypeOK
  PROVE  /\ op = "submit" => Call(t).arg \in Tasks /\ Dest[Call(t).arg] \in Groups
         /\ op = "clear" => Call(t).arg \in Groups
         /\ op \in {"signal", "cwait"} => Call(t).arg \in Events
         /\ Frame(t) \in {Main} \cup Foreign \cup Tasks
<1>1. Frame(t) \in {Main} \cup Foreign \cup Tasks
  <2>1. CASE stack[t] = <<>>
    BY <2>1 DEF Calls, HasCall, InLoop, Frame, Threads, Workers
  <2>2. CASE stack[t] # <<>>
    <3>1. stack[t] \in Seq([task : Tasks, saved : Groups \cup {None}])
      BY DEF TypeOK, Types
    <3>2. Top(t) \in [task : Tasks, saved : Groups \cup {None}]
      BY <2>2, <3>1, LastOfSeq DEF Top
    <3>. QED BY <2>2, <3>2 DEF Frame
  <2>. QED BY <2>1, <2>2
<1>2. Frame(t) \in DOMAIN Script /\ Script[Frame(t)] \in Seq(Op)
  BY <1>1, TaskAssumption
<1>3. at[Frame(t)] \in DOMAIN Script[Frame(t)]
  BY <1>1, <1>2 DEF Calls, HasCall, TypeOK, Types
<1>4. Call(t).op = op
  BY DEF Calls
<1>. QED BY <1>1, <1>2, <1>3, <1>4, ScriptAssumption, TaskAssumption DEF Call

\* What the helpers that move a thread do to its place and its locals.
LEMMA GotoKeeps ==
  ASSUME Types, NEW t \in Threads, NEW l \in PCs, Goto(t, l)
  PROVE  /\ pc' \in [Threads -> PCs] /\ pc'[t] = l
         /\ \A u \in Threads \ {t} : pc'[u] = pc[u]
BY DEF Types, Goto

\* NotifyThen sends t to the lock, to return to l.
LEMMA NotifyKeeps ==
  ASSUME Types, NEW t \in Threads, NEW l \in Returns, NotifyThen(t, l)
  PROVE  /\ pc' \in [Threads -> PCs] /\ pc'[t] = "notify_lock"
         /\ \A u \in Threads \ {t} : pc'[u] = pc[u]
         /\ ret' \in [Threads -> Returns] /\ ret'[t] = l
         /\ \A u \in Threads \ {t} : ret'[u] = ret[u]
<1>1. "notify_lock" \in PCs
  BY DEF PCs
<1>. QED BY <1>1 DEF Types, NotifyThen

\* Where t is heading for after Goto, with notify_workers left alone.
LEMMA GoHeading ==
  ASSUME Types, NEW t \in Threads, NEW l \in PCs \ {"notify_lock", "notify_all"},
         Goto(t, l), ret' = ret
  PROVE  /\ pc' \in [Threads -> PCs] /\ ret' \in [Threads -> Returns]
         /\ Heading(t)' = l
         /\ \A u \in Threads \ {t} : Heading(u)' = Heading(u)
<1>1. pc' \in [Threads -> PCs] /\ pc'[t] = l /\ \A u \in Threads \ {t} : pc'[u] = pc[u]
  BY GotoKeeps
<1>. QED BY <1>1 DEF Heading, Types

\* The same after NotifyThen.
LEMMA NotifyHeading ==
  ASSUME Types, NEW t \in Threads, NEW l \in Returns, NotifyThen(t, l)
  PROVE  /\ pc' \in [Threads -> PCs] /\ ret' \in [Threads -> Returns]
         /\ Heading(t)' = l
         /\ \A u \in Threads \ {t} : Heading(u)' = Heading(u)
BY NotifyKeeps DEF Heading

\* Advance keeps the positions in the scripts positive.
LEMMA AdvanceKeeps ==
  ASSUME Types, NEW t \in Threads, Advance(t)
  PROVE  at' \in [{Main} \cup Foreign \cup Tasks -> Nat \ {0}]
<1>1. CASE Frame(t) \in {Main} \cup Foreign \cup Tasks
  <2>1. at[Frame(t)] + 1 \in Nat \ {0}
    BY <1>1 DEF Types
  <2>. QED BY <1>1, <2>1 DEF Types, Advance
<1>2. CASE Frame(t) \notin {Main} \cup Foreign \cup Tasks
  BY <1>2 DEF Types, Advance
<1>. QED BY <1>1, <1>2

\* The locals of a thread.
Regs == [cand : SUBSET Groups, grp : Groups \cup {None}, victims : SUBSET Workers,
         item : Tasks \cup {None}, spins : Nat]

\* Retry leaves every group of t to be examined.
LEMMA RetryKeeps ==
  ASSUME Types, NEW t \in Threads, NEW n \in Nat, Retry(t, n)
  PROVE  /\ reg' \in [Threads -> Regs] /\ reg'[t].cand = GroupsOf(t)
         /\ \A u \in Threads \ {t} : reg'[u] = reg[u]
BY DEF Types, Retry, Regs, GroupsOf

\* Found leaves t with an item and its group.
LEMMA FoundKeeps ==
  ASSUME Types, NEW t \in Threads, NEW g \in Groups, NEW k \in Tasks, Found(t, g, k)
  PROVE  /\ reg' \in [Threads -> Regs]
         /\ reg'[t].cand = {} /\ reg'[t].grp = g /\ reg'[t].item = k
         /\ \A u \in Threads \ {t} : reg'[u] = reg[u]
BY DEF Types, Found, NoRegs, Regs

\* Forget leaves t without locals.
LEMMA ForgetKeeps ==
  ASSUME Types, NEW t \in Threads, Forget(t)
  PROVE  /\ reg' \in [Threads -> Regs] /\ reg'[t].cand = {}
         /\ \A u \in Threads \ {t} : reg'[u] = reg[u]
BY DEF Types, Forget, NoRegs, Regs

\* Examining a group takes it from those left.
LEMMA NarrowKeeps ==
  ASSUME TypeOK, NEW t \in Threads, NEW g \in reg[t].cand,
         \/ reg' = [reg EXCEPT ![t].cand = @ \ {g}]
         \/ reg' = [reg EXCEPT ![t].cand = @ \ {g}, ![t].grp = g]
  PROVE  /\ reg' \in [Threads -> Regs] /\ reg'[t].cand \subseteq GroupsOf(t)
         /\ g \in GroupsOf(t)
         /\ \A u \in Threads \ {t} : reg'[u] = reg[u]
<1>1. reg[t] \in Regs /\ reg[t].cand \subseteq GroupsOf(t) /\ g \in Groups
  BY DEF TypeOK, Types, LocalsOK, Regs, GroupsOf
<1>2. CASE reg' = [reg EXCEPT ![t].cand = @ \ {g}]
  BY <1>1, <1>2 DEF TypeOK, Types, Regs
<1>3. CASE reg' = [reg EXCEPT ![t].cand = @ \ {g}, ![t].grp = g]
  BY <1>1, <1>3 DEF TypeOK, Types, Regs
<1>. QED BY <1>2, <1>3

\* Queue operations keep the types of the queues; a deque that does not exist is untouched.
LEMMA PushKeeps ==
  ASSUME Types, NEW g \in Groups, NEW k \in Tasks, NEW t,
         deque' = [deque EXCEPT ![g][t] = Append(@, k)]
  PROVE  deque' \in [Groups -> [Workers -> Seq(Tasks)]]
<1>1. [deque[g] EXCEPT ![t] = Append(@, k)] \in [Workers -> Seq(Tasks)]
  <2>1. ASSUME t \in Workers PROVE Append(deque[g][t], k) \in Seq(Tasks)
    BY <2>1 DEF Types
  <2>2. deque[g] \in [Workers -> Seq(Tasks)]
    BY DEF Types
  <2>. QED BY <2>1, <2>2
<1>. QED BY <1>1 DEF Types

\* Appending to a mailbox.
LEMMA PostKeeps ==
  ASSUME Types, NEW g \in Groups, NEW k \in Tasks,
         mailbox' = [mailbox EXCEPT ![g] = Append(@, k)]
  PROVE  mailbox' \in [Groups -> Seq(Tasks)]
<1>1. Append(mailbox[g], k) \in Seq(Tasks)
  BY DEF Types
<1>. QED BY <1>1 DEF Types

\* Taking the head of a mailbox.
LEMMA TakeKeeps ==
  ASSUME Types, NEW g \in Groups, mailbox[g] # <<>>,
         mailbox' = [mailbox EXCEPT ![g] = Tail(@)]
  PROVE  Head(mailbox[g]) \in Tasks /\ mailbox' \in [Groups -> Seq(Tasks)]
<1>1. mailbox[g] \in Seq(Tasks)
  BY DEF Types
<1>. QED BY <1>1, LastOfSeq DEF Types

\* Taking an end of a deque.
LEMMA PopKeeps ==
  ASSUME Types, NEW g \in Groups, NEW w \in Workers, deque[g][w] # <<>>,
         \/ deque' = [deque EXCEPT ![g][w] = Tail(@)]
         \/ deque' = [deque EXCEPT ![g][w] = SubSeq(deque[g][w], 1, Len(deque[g][w]) - 1)]
  PROVE  /\ Head(deque[g][w]) \in Tasks /\ deque[g][w][Len(deque[g][w])] \in Tasks
         /\ deque' \in [Groups -> [Workers -> Seq(Tasks)]]
<1>1. deque[g] \in [Workers -> Seq(Tasks)] /\ deque[g][w] \in Seq(Tasks)
  BY DEF Types
<1>2. ASSUME NEW s \in Seq(Tasks)
      PROVE  [deque EXCEPT ![g][w] = s] \in [Groups -> [Workers -> Seq(Tasks)]]
  BY <1>1, <1>2 DEF Types
<1>3. /\ Head(deque[g][w]) \in Tasks /\ deque[g][w][Len(deque[g][w])] \in Tasks
      /\ Tail(deque[g][w]) \in Seq(Tasks)
      /\ SubSeq(deque[g][w], 1, Len(deque[g][w]) - 1) \in Seq(Tasks)
  BY <1>1, LastOfSeq
<1>. QED BY <1>2, <1>3

\* Choosing the victims of a steal.
LEMMA MemberVictims ==
  ASSUME Types, NEW t \in Threads, NEW V \in SUBSET Workers, reg' = [reg EXCEPT ![t].victims = V]
  PROVE  /\ reg' \in [Threads -> Regs]
         /\ reg'[t].cand = reg[t].cand /\ reg'[t].grp = reg[t].grp
         /\ \A u \in Threads \ {t} : reg'[u] = reg[u]
BY DEF Types, Regs

\* A step of thread t keeps TypeOK if it keeps the types, the locals of t, and those of
\* every other thread, which it may at most send elsewhere.
LEMMA OneThread ==
  ASSUME TypeOK, NEW t \in Threads, Types', LocalsOK(t)',
         \A u \in Threads \ {t} : /\ reg'[u] = reg[u]
                                  /\ Heading(u)' = Heading(u) \/ Heading(u)' \notin Taking \cup Holding
  PROVE  TypeOK'
BY DEF TypeOK, LocalsOK

\* Entry keeps TypeOK.
LEMMA TypeEntry ==
  ASSUME TypeOK, NEW t \in Threads, Entry(t) PROVE TypeOK'
<1> USE DEF TypeOK
<1>1. /\ pc' \in [Threads -> PCs] /\ ret' \in [Threads -> Returns]
      /\ Heading(t)' \in {"loop"} /\ \A u \in Threads \ {t} : Heading(u)' = Heading(u)
  BY GoHeading, NotifyHeading DEF Entry, PCs, Returns
<1>2. UNCHANGED <<deque, mailbox, queued, pending, stop, up, event, ret, stack, at, ctx, reg,
         submitted, done, dropped>>
  BY DEF Entry, queueVars, flowVars, histVars
<1>3. Types'
  BY <1>1, <1>2 DEF Types, Regs
<1>4. LocalsOK(t)'
  BY <1>1, <1>2, <1>3 DEF Entry, LocalsOK, Heading, Taking, Holding, queueVars, flowVars, histVars
<1>. QED BY <1>1, <1>2, <1>3, <1>4, OneThread DEF Entry, Heading, queueVars, flowVars, histVars

\* LoopHead keeps TypeOK.
LEMMA TypeLoopHead ==
  ASSUME TypeOK, NEW t \in Threads, LoopHead(t) PROVE TypeOK'
<1> USE DEF TypeOK
<1>1. /\ pc' \in [Threads -> PCs] /\ ret' \in [Threads -> Returns]
      /\ Heading(t)' \in {"exited", "try"} /\ \A u \in Threads \ {t} : Heading(u)' = Heading(u)
  BY GoHeading, NotifyHeading DEF LoopHead, PCs, Returns, LocalsOK
<1>2. /\ reg' \in [Threads -> Regs] /\ \A u \in Threads \ {t} : reg'[u] = reg[u]
      /\ reg'[t].cand \subseteq GroupsOf(t)
  BY RetryKeeps, SizeAssumption DEF LoopHead, Types, Regs, LocalsOK
<1>3. UNCHANGED <<deque, mailbox, queued, pending, stop, up, event, ret, stack, at, ctx,
         submitted, done, dropped>>
  BY DEF LoopHead, queueVars, flowVars, histVars, LocalsOK
<1>4. Types'
  BY <1>1, <1>2, <1>3 DEF Types, Regs
<1>5. LocalsOK(t)'
  BY <1>1, <1>2, <1>3, <1>4 DEF LoopHead, LocalsOK, Heading, Taking, Holding, queueVars,
       flowVars, histVars, LocalsOK
<1>. QED BY <1>1, <1>2, <1>3, <1>4, <1>5, OneThread DEF LoopHead, Heading, queueVars, flowVars,
         histVars

\* Submit keeps TypeOK.
LEMMA TypeSubmit ==
  ASSUME TypeOK, NEW t \in Threads, Submit(t) PROVE TypeOK'
<1> USE DEF TypeOK
<1>1. Call(t).arg \in Tasks /\ Dest[Call(t).arg] \in Groups
  BY CallTyped DEF Submit, In
<1>2. /\ pc' \in [Threads -> PCs] /\ ret' \in [Threads -> Returns]
      /\ Heading(t)' \in {"push_local",
               "push_mail"} /\ \A u \in Threads \ {t} : Heading(u)' = Heading(u)
  BY <1>1, GoHeading, NotifyHeading DEF Submit, PCs, Returns
<1>3. pending' \in Int /\ submitted' \subseteq Tasks
  BY <1>1 DEF Submit, Types
<1>4. UNCHANGED <<deque, mailbox, queued, stop, up, event, ret, stack, at, ctx, reg, done,
         dropped>>
  BY DEF Submit, queueVars, flowVars, histVars
<1>5. Types'
  BY <1>1, <1>2, <1>3, <1>4 DEF Types, Regs
<1>6. LocalsOK(t)'
  BY <1>1, <1>2, <1>3, <1>4, <1>5 DEF Submit, LocalsOK, Heading, Taking, Holding, queueVars,
       flowVars, histVars
<1>. QED BY <1>1, <1>2, <1>3, <1>4, <1>5, <1>6, OneThread DEF Submit, Heading, queueVars,
         flowVars, histVars

\* Advertise keeps TypeOK.
LEMMA TypeAdvertise ==
  ASSUME TypeOK, NEW t \in Threads, Advertise(t) PROVE TypeOK'
<1> USE DEF TypeOK
<1>1. Call(t).arg \in Tasks /\ Dest[Call(t).arg] \in Groups
  BY CallTyped DEF Advertise, In
<1>2. /\ pc' \in [Threads -> PCs] /\ ret' \in [Threads -> Returns]
      /\ Heading(t)' \in {"user"} /\ \A u \in Threads \ {t} : Heading(u)' = Heading(u)
  BY <1>1, GoHeading, NotifyHeading DEF Advertise, PCs, Returns
<1>3. at' \in [{Main} \cup Foreign \cup Tasks -> Nat \ {0}]
  BY AdvanceKeeps DEF Advertise, Types
<1>4. queued' \in [Groups -> Int]
  BY <1>1 DEF Advertise, Types
<1>5. UNCHANGED <<deque, mailbox, pending, stop, up, event, stack, ctx, reg, submitted, done,
         dropped>>
  BY DEF Advertise, queueVars, flowVars, histVars
<1>6. Types'
  BY <1>1, <1>2, <1>3, <1>4, <1>5 DEF Types, Regs
<1>7. LocalsOK(t)'
  BY <1>1, <1>2, <1>3, <1>4, <1>5, <1>6 DEF Advertise, LocalsOK, Heading, Taking, Holding,
       queueVars, flowVars, histVars
<1>. QED BY <1>1, <1>2, <1>3, <1>4, <1>5, <1>6, <1>7, OneThread DEF Advertise, Heading,
         queueVars, flowVars, histVars

\* Sink keeps TypeOK.
LEMMA TypeSink ==
  ASSUME TypeOK, NEW t \in Threads, Sink(t) PROVE TypeOK'
<1> USE DEF TypeOK
<1>1. reg[t].grp \in Groups
  BY DEF Sink, LocalsOK, Heading, Taking, GroupsOf
<1>2. /\ pc' \in [Threads -> PCs] /\ ret' \in [Threads -> Returns]
      /\ Heading(t)' \in {"chain"} /\ \A u \in Threads \ {t} : Heading(u)' = Heading(u)
  BY <1>1, GoHeading, NotifyHeading DEF Sink, PCs, Returns
<1>3. queued' \in [Groups -> Int]
  BY <1>1 DEF Sink, Types
<1>4. UNCHANGED <<deque, mailbox, pending, stop, up, event, ret, stack, at, ctx, reg, submitted,
         done, dropped>>
  BY DEF Sink, queueVars, flowVars, histVars
<1>5. Types'
  BY <1>1, <1>2, <1>3, <1>4 DEF Types, Regs
<1>6. LocalsOK(t)'
  BY <1>1, <1>2, <1>3, <1>4, <1>5 DEF Sink, LocalsOK, Heading, Taking, Holding, queueVars,
       flowVars, histVars
<1>. QED BY <1>1, <1>2, <1>3, <1>4, <1>5, <1>6, OneThread DEF Sink, Heading, queueVars,
         flowVars, histVars

\* Chain keeps TypeOK.
LEMMA TypeChain ==
  ASSUME TypeOK, NEW t \in Threads, Chain(t) PROVE TypeOK'
<1> USE DEF TypeOK
<1>1. /\ pc' \in [Threads -> PCs] /\ ret' \in [Threads -> Returns]
      /\ Heading(t)' \in {"exec"} /\ \A u \in Threads \ {t} : Heading(u)' = Heading(u)
  BY GoHeading, NotifyHeading DEF Chain, PCs, Returns
<1>2. UNCHANGED <<deque, mailbox, queued, pending, stop, up, event, stack, at, ctx, reg,
         submitted, done, dropped>>
  BY DEF Chain, queueVars, flowVars, histVars
<1>3. Types'
  BY <1>1, <1>2 DEF Types, Regs
<1>4. LocalsOK(t)'
  BY <1>1, <1>2, <1>3 DEF Chain, LocalsOK, Heading, Taking, Holding, queueVars, flowVars, histVars
<1>. QED BY <1>1, <1>2, <1>3, <1>4, OneThread DEF Chain, Heading, queueVars, flowVars, histVars

\* CoopWait keeps TypeOK.
LEMMA TypeCoopWait ==
  ASSUME TypeOK, NEW t \in Threads, CoopWait(t) PROVE TypeOK'
<1> USE DEF TypeOK
<1>1. Call(t).arg \in Events
  BY CallTyped DEF CoopWait, In
<1>2. /\ pc' \in [Threads -> PCs] /\ ret' \in [Threads -> Returns]
      /\ Heading(t)' \in {"user", "try"} /\ \A u \in Threads \ {t} : Heading(u)' = Heading(u)
  <2>1. CASE event[Call(t).arg] = 1
    BY <1>1, <2>1 DEF CoopWait, In, Types, Heading, Returns
  <2>2. CASE event[Call(t).arg] = 0
    BY <1>1, <2>2, GoHeading DEF CoopWait, PCs, Returns, TryOne
  <2>. QED BY <2>1, <2>2 DEF CoopWait
<1>3. /\ reg' \in [Threads -> Regs] /\ \A u \in Threads \ {t} : reg'[u] = reg[u]
      /\ reg'[t].cand \subseteq GroupsOf(t)
  BY <1>1, RetryKeeps DEF CoopWait, Types, Regs, TryOne, LocalsOK, In
<1>4. event' \in [Events -> {0, 1}]
  BY <1>1 DEF CoopWait, Types
<1>5. at' \in [{Main} \cup Foreign \cup Tasks -> Nat \ {0}]
  BY AdvanceKeeps DEF CoopWait, Types
<1>6. UNCHANGED <<deque, mailbox, queued, pending, stop, up, ret, stack, ctx, submitted, done,
         dropped>>
  BY DEF CoopWait, queueVars, flowVars, histVars, TryOne, LocalsOK, In
<1>7. Types'
  BY <1>1, <1>2, <1>3, <1>4, <1>5, <1>6 DEF Types, Regs
<1>8. LocalsOK(t)'
  BY <1>1, <1>2, <1>3, <1>4, <1>5, <1>6, <1>7 DEF CoopWait, LocalsOK, Heading, Taking, Holding,
       queueVars, flowVars, histVars, TryOne, LocalsOK, In
<1>. QED BY <1>1, <1>2, <1>3, <1>4, <1>5, <1>6, <1>7, <1>8, OneThread DEF CoopWait, Heading,
         queueVars, flowVars, histVars

\* Signal keeps TypeOK.
LEMMA TypeSignal ==
  ASSUME TypeOK, NEW t \in Threads, Signal(t) PROVE TypeOK'
<1> USE DEF TypeOK
<1>1. Call(t).arg \in Events
  BY CallTyped DEF Signal, In
<1>2. event' \in [Events -> {0, 1}]
  BY <1>1 DEF Signal, Types
<1>3. at' \in [{Main} \cup Foreign \cup Tasks -> Nat \ {0}]
  BY AdvanceKeeps DEF Signal, Types
<1>4. UNCHANGED <<deque, mailbox, queued, pending, stop, up, pc, ret, stack, ctx, reg,
         submitted, done, dropped>>
  BY DEF Signal, queueVars, flowVars, histVars
<1>5. Types'
  BY <1>1, <1>2, <1>3, <1>4 DEF Types, Regs
<1>6. LocalsOK(t)'
  BY <1>1, <1>2, <1>3, <1>4, <1>5 DEF Signal, LocalsOK, Heading, Taking, Holding, queueVars,
       flowVars, histVars
<1>. QED BY <1>1, <1>2, <1>3, <1>4, <1>5, <1>6, OneThread DEF Signal, Heading, queueVars,
         flowVars, histVars

\* ClearBegin keeps TypeOK.
LEMMA TypeClearBegin ==
  ASSUME TypeOK, NEW t \in Threads, ClearBegin(t) PROVE TypeOK'
<1> USE DEF TypeOK
<1>1. /\ pc' \in [Threads -> PCs] /\ ret' \in [Threads -> Returns]
      /\ Heading(t)' \in {"clear_mail"} /\ \A u \in Threads \ {t} : Heading(u)' = Heading(u)
  BY GoHeading, NotifyHeading DEF ClearBegin, PCs, Returns
<1>2. UNCHANGED <<deque, mailbox, queued, pending, stop, up, event, ret, stack, at, ctx, reg,
         submitted, done, dropped>>
  BY DEF ClearBegin, queueVars, flowVars, histVars
<1>3. Types'
  BY <1>1, <1>2 DEF Types, Regs
<1>4. LocalsOK(t)'
  BY <1>1, <1>2, <1>3 DEF ClearBegin, LocalsOK, Heading, Taking, Holding, queueVars, flowVars,
       histVars
<1>. QED BY <1>1, <1>2, <1>3, <1>4, OneThread DEF ClearBegin, Heading, queueVars, flowVars,
         histVars

\* ClearSink keeps TypeOK.
LEMMA TypeClearSink ==
  ASSUME TypeOK, NEW t \in Threads, ClearSink(t) PROVE TypeOK'
<1> USE DEF TypeOK
<1>1. Call(t).arg \in Groups
  BY CallTyped DEF ClearSink, In
<1>2. /\ pc' \in [Threads -> PCs] /\ ret' \in [Threads -> Returns]
      /\ Heading(t)' \in {"clear_finish"} /\ \A u \in Threads \ {t} : Heading(u)' = Heading(u)
  BY <1>1, GoHeading, NotifyHeading DEF ClearSink, PCs, Returns, In
<1>3. queued' \in [Groups -> Int]
  BY <1>1 DEF ClearSink, Types
<1>4. UNCHANGED <<deque, mailbox, pending, stop, up, event, ret, stack, at, ctx, reg, submitted,
         done, dropped>>
  BY DEF ClearSink, queueVars, flowVars, histVars, In
<1>5. Types'
  BY <1>1, <1>2, <1>3, <1>4 DEF Types, Regs
<1>6. LocalsOK(t)'
  BY <1>1, <1>2, <1>3, <1>4, <1>5 DEF ClearSink, LocalsOK, Heading, Taking, Holding, queueVars,
       flowVars, histVars, In
<1>. QED BY <1>1, <1>2, <1>3, <1>4, <1>5, <1>6, OneThread DEF ClearSink, Heading, queueVars,
         flowVars, histVars

\* ClearFinish keeps TypeOK.
LEMMA TypeClearFinish ==
  ASSUME TypeOK, NEW t \in Threads, ClearFinish(t) PROVE TypeOK'
<1> USE DEF TypeOK
<1>1. reg[t].item \in Tasks
  BY DEF ClearFinish, FinishTask, LocalsOK, Heading, Holding, In
<1>2. /\ pc' \in [Threads -> PCs] /\ ret' \in [Threads -> Returns]
      /\ Heading(t)' \in {"clear_mail"} /\ \A u \in Threads \ {t} : Heading(u)' = Heading(u)
  BY <1>1, GoHeading, NotifyHeading DEF ClearFinish, FinishTask, PCs, Returns
<1>3. /\ reg' \in [Threads -> Regs] /\ \A u \in Threads \ {t} : reg'[u] = reg[u]
      /\ reg'[t].cand \subseteq GroupsOf(t)
  BY <1>1, ForgetKeeps DEF ClearFinish, FinishTask, Types, Regs
<1>4. pending' \in Int /\ dropped' \subseteq Tasks
  BY <1>1 DEF ClearFinish, FinishTask, Types
<1>5. UNCHANGED <<deque, mailbox, queued, stop, up, event, stack, at, ctx, submitted, done>>
  BY DEF ClearFinish, FinishTask, queueVars, flowVars, histVars
<1>6. Types'
  BY <1>1, <1>2, <1>3, <1>4, <1>5 DEF Types, Regs
<1>7. LocalsOK(t)'
  BY <1>1, <1>2, <1>3, <1>4, <1>5, <1>6 DEF ClearFinish, FinishTask, LocalsOK, Heading, Taking, Holding,
       queueVars, flowVars, histVars
<1>. QED BY <1>1, <1>2, <1>3, <1>4, <1>5, <1>6, <1>7, OneThread DEF ClearFinish, FinishTask, Heading,
         queueVars, flowVars, histVars

\* WaitLoad keeps TypeOK.
LEMMA TypeWaitLoad ==
  ASSUME TypeOK, NEW t \in Threads, WaitLoad(t) PROVE TypeOK'
<1> USE DEF TypeOK
<1>1. /\ pc' \in [Threads -> PCs] /\ ret' \in [Threads -> Returns]
      /\ Heading(t)' \in {"set_stop", "user",
               "try"} /\ \A u \in Threads \ {t} : Heading(u)' = Heading(u)
  BY GoHeading, NotifyHeading DEF WaitLoad, PCs, Returns, WaitOver, TryOne,
       LocalsOK, In
<1>2. /\ reg' \in [Threads -> Regs] /\ \A u \in Threads \ {t} : reg'[u] = reg[u]
      /\ reg'[t].cand \subseteq GroupsOf(t)
  BY RetryKeeps DEF WaitLoad, Types, Regs, WaitOver, TryOne, LocalsOK, In
<1>3. at' \in [{Main} \cup Foreign \cup Tasks -> Nat \ {0}]
  BY AdvanceKeeps DEF WaitLoad, Types, WaitOver
<1>4. UNCHANGED <<deque, mailbox, queued, pending, stop, up, event, ret, stack, ctx, submitted,
         done, dropped>>
  BY DEF WaitLoad, queueVars, flowVars, histVars, WaitOver, TryOne, LocalsOK, In
<1>5. Types'
  BY <1>1, <1>2, <1>3, <1>4 DEF Types, Regs
<1>6. LocalsOK(t)'
  BY <1>1, <1>2, <1>3, <1>4, <1>5 DEF WaitLoad, LocalsOK, Heading, Taking, Holding, queueVars,
       flowVars, histVars, WaitOver, TryOne, LocalsOK, In
<1>. QED BY <1>1, <1>2, <1>3, <1>4, <1>5, <1>6, OneThread DEF WaitLoad, Heading, queueVars,
         flowVars, histVars

\* WaitSnapshot keeps TypeOK.
LEMMA TypeWaitSnapshot ==
  ASSUME TypeOK, NEW t \in Threads, WaitSnapshot(t) PROVE TypeOK'
<1> USE DEF TypeOK
<1>1. /\ pc' \in [Threads -> PCs] /\ ret' \in [Threads -> Returns]
      /\ Heading(t)' \in {"set_stop", "user",
               "park_lock"} /\ \A u \in Threads \ {t} : Heading(u)' = Heading(u)
  BY GoHeading, NotifyHeading DEF WaitSnapshot, PCs, Returns, WaitOver
<1>2. at' \in [{Main} \cup Foreign \cup Tasks -> Nat \ {0}]
  BY AdvanceKeeps DEF WaitSnapshot, Types, WaitOver
<1>3. UNCHANGED <<deque, mailbox, queued, pending, stop, up, event, ret, stack, ctx, reg,
         submitted, done, dropped>>
  BY DEF WaitSnapshot, queueVars, flowVars, histVars, WaitOver
<1>4. Types'
  BY <1>1, <1>2, <1>3 DEF Types, Regs
<1>5. LocalsOK(t)'
  BY <1>1, <1>2, <1>3, <1>4 DEF WaitSnapshot, LocalsOK, Heading, Taking, Holding, queueVars,
       flowVars, histVars, WaitOver
<1>. QED BY <1>1, <1>2, <1>3, <1>4, <1>5, OneThread DEF WaitSnapshot, Heading, queueVars,
         flowVars, histVars

\* SetStop keeps TypeOK.
LEMMA TypeSetStop ==
  ASSUME TypeOK, NEW t \in Threads, SetStop(t) PROVE TypeOK'
<1> USE DEF TypeOK
<1>1. /\ pc' \in [Threads -> PCs] /\ ret' \in [Threads -> Returns]
      /\ Heading(t)' \in {"join"} /\ \A u \in Threads \ {t} : Heading(u)' = Heading(u)
  BY GoHeading, NotifyHeading DEF SetStop, PCs, Returns
<1>2. stop' \in BOOLEAN
  BY DEF SetStop
<1>3. UNCHANGED <<deque, mailbox, queued, pending, up, event, stack, at, ctx, reg, submitted,
         done, dropped>>
  BY DEF SetStop, queueVars, flowVars, histVars
<1>4. Types'
  BY <1>1, <1>2, <1>3 DEF Types, Regs
<1>5. LocalsOK(t)'
  BY <1>1, <1>2, <1>3, <1>4 DEF SetStop, LocalsOK, Heading, Taking, Holding, queueVars,
       flowVars, histVars
<1>. QED BY <1>1, <1>2, <1>3, <1>4, <1>5, OneThread DEF SetStop, Heading, queueVars, flowVars,
         histVars

\* Join keeps TypeOK.
LEMMA TypeJoin ==
  ASSUME TypeOK, NEW t \in Threads, Join(t) PROVE TypeOK'
<1> USE DEF TypeOK
<1>1. /\ pc' \in [Threads -> PCs] /\ ret' \in [Threads -> Returns]
      /\ Heading(t)' \in {"user"} /\ \A u \in Threads \ {t} : Heading(u)' = Heading(u)
  BY GoHeading, NotifyHeading DEF Join, PCs, Returns
<1>2. at' \in [{Main} \cup Foreign \cup Tasks -> Nat \ {0}]
  BY AdvanceKeeps DEF Join, Types
<1>3. up' \in BOOLEAN
  BY DEF Join
<1>4. UNCHANGED <<deque, mailbox, queued, pending, stop, event, ret, stack, ctx, reg, submitted,
         done, dropped>>
  BY DEF Join, queueVars, flowVars, histVars
<1>5. Types'
  BY <1>1, <1>2, <1>3, <1>4 DEF Types, Regs
<1>6. LocalsOK(t)'
  BY <1>1, <1>2, <1>3, <1>4, <1>5 DEF Join, LocalsOK, Heading, Taking, Holding, queueVars,
       flowVars, histVars
<1>. QED BY <1>1, <1>2, <1>3, <1>4, <1>5, <1>6, OneThread DEF Join, Heading, queueVars,
         flowVars, histVars

\* ParkLock keeps TypeOK.
LEMMA TypeParkLock ==
  ASSUME TypeOK, NEW t \in Threads, ParkLock(t) PROVE TypeOK'
<1> USE DEF TypeOK
<1>1. /\ pc' \in [Threads -> PCs] /\ ret' \in [Threads -> Returns]
      /\ Heading(t)' \in {"park_check"} /\ \A u \in Threads \ {t} : Heading(u)' = Heading(u)
  BY GoHeading, NotifyHeading DEF ParkLock, PCs, Returns
<1>2. UNCHANGED <<deque, mailbox, queued, pending, stop, up, event, ret, stack, at, ctx, reg,
         submitted, done, dropped>>
  BY DEF ParkLock, queueVars, flowVars, histVars
<1>3. Types'
  BY <1>1, <1>2 DEF Types, Regs
<1>4. LocalsOK(t)'
  BY <1>1, <1>2, <1>3 DEF ParkLock, LocalsOK, Heading, Taking, Holding, queueVars, flowVars,
       histVars
<1>. QED BY <1>1, <1>2, <1>3, <1>4, OneThread DEF ParkLock, Heading, queueVars, flowVars, histVars

\* ParkCheck keeps TypeOK.
LEMMA TypeParkCheck ==
  ASSUME TypeOK, NEW t \in Threads, ParkCheck(t) PROVE TypeOK'
<1> USE DEF TypeOK
<1>1. /\ pc' \in [Threads -> PCs] /\ ret' \in [Threads -> Returns]
      /\ Heading(t)' \in {"loop", "user",
               "park_wait"} /\ \A u \in Threads \ {t} : Heading(u)' = Heading(u)
  BY GoHeading, NotifyHeading DEF ParkCheck, PCs, Returns, Resume, LocalsOK
<1>2. /\ reg' \in [Threads -> Regs] /\ \A u \in Threads \ {t} : reg'[u] = reg[u]
      /\ reg'[t].cand \subseteq GroupsOf(t)
  BY RetryKeeps DEF ParkCheck, Types, Regs, Resume, LocalsOK
<1>3. UNCHANGED <<deque, mailbox, queued, pending, stop, up, event, ret, stack, at, ctx,
         submitted, done, dropped>>
  BY DEF ParkCheck, queueVars, flowVars, histVars, Resume, LocalsOK
<1>4. Types'
  BY <1>1, <1>2, <1>3 DEF Types, Regs
<1>5. LocalsOK(t)'
  BY <1>1, <1>2, <1>3, <1>4 DEF ParkCheck, LocalsOK, Heading, Taking, Holding, queueVars,
       flowVars, histVars, Resume, LocalsOK
<1>. QED BY <1>1, <1>2, <1>3, <1>4, <1>5, OneThread DEF ParkCheck, Heading, queueVars, flowVars,
         histVars

\* SpuriousWake keeps TypeOK.
LEMMA TypeSpuriousWake ==
  ASSUME TypeOK, NEW t \in Threads, SpuriousWake(t) PROVE TypeOK'
<1> USE DEF TypeOK
<1>1. /\ pc' \in [Threads -> PCs] /\ ret' \in [Threads -> Returns]
      /\ Heading(t)' \in {"park_lock"} /\ \A u \in Threads \ {t} : Heading(u)' = Heading(u)
  BY GoHeading, NotifyHeading DEF SpuriousWake, PCs, Returns
<1>2. UNCHANGED <<deque, mailbox, queued, pending, stop, up, event, ret, stack, at, ctx, reg,
         submitted, done, dropped>>
  BY DEF SpuriousWake, queueVars, flowVars, histVars
<1>3. Types'
  BY <1>1, <1>2 DEF Types, Regs
<1>4. LocalsOK(t)'
  BY <1>1, <1>2, <1>3 DEF SpuriousWake, LocalsOK, Heading, Taking, Holding, queueVars, flowVars,
       histVars
<1>. QED BY <1>1, <1>2, <1>3, <1>4, OneThread DEF SpuriousWake, Heading, queueVars, flowVars,
         histVars

\* TryGroup keeps TypeOK.
LEMMA TypeTryGroup ==
  ASSUME TypeOK, NEW t \in Threads, TryGroup(t) PROVE TypeOK'
<1> DEFINE Moved ==
      /\ pc' \in [Threads -> PCs] /\ reg' \in [Threads -> Regs]
      /\ \A u \in Threads \ {t} : Heading(u)' = Heading(u) /\ reg'[u] = reg[u]
      /\ reg'[t].cand \subseteq GroupsOf(t)
      /\ \/ Heading(t)' \in {"try", "park_lock", "push_mail", "user", "wait_snapshot"}
         \/ Heading(t)' = "take_own" /\ reg'[t].grp \in GroupsOf(t)
<1>1. Moved
  <2>1. CASE Repeats(t) /\ Goto(t, "try") /\ Retry(t, reg[t].spins - 1)
    <3>1. reg[t].spins - 1 \in Nat
      BY <2>1 DEF TypeOK, Types, Repeats
    <3>. QED BY <2>1, <3>1, GotoKeeps, RetryKeeps DEF TypeOK, PCs, TryGroup, Heading
  <2>2. CASE ~Repeats(t) /\ Goto(t, Caller(t)) /\ Forget(t)
    <3>1. Caller(t) \in {"park_lock", "push_mail", "user", "wait_snapshot"}
      BY DEF Caller
    <3>2. Caller(t) \in PCs
      BY <3>1 DEF PCs
    <3>. QED BY <2>2, <3>1, <3>2, GotoKeeps, ForgetKeeps DEF TypeOK, TryGroup, Heading
  <2>3. ASSUME NEW g \in reg[t].cand, UNCHANGED pc, reg' = [reg EXCEPT ![t].cand = @ \ {g}]
        PROVE  Moved
    BY <2>3, NarrowKeeps DEF TypeOK, Types, TryGroup, Heading
  <2>4. ASSUME NEW g \in reg[t].cand, Goto(t, "take_own"),
               reg' = [reg EXCEPT ![t].cand = @ \ {g}, ![t].grp = g]
        PROVE  Moved
    <3>1. /\ pc' \in [Threads -> PCs] /\ pc'[t] = "take_own"
          /\ \A u \in Threads \ {t} : pc'[u] = pc[u]
      BY <2>4, GotoKeeps DEF TypeOK, PCs
    <3>2. /\ reg' \in [Threads -> Regs] /\ \A u \in Threads \ {t} : reg'[u] = reg[u]
          /\ reg'[t].cand \subseteq GroupsOf(t) /\ g \in GroupsOf(t)
      BY <2>4, NarrowKeeps
    <3>3. reg'[t].grp = g
      BY <2>4 DEF TypeOK, Types
    <3>. QED BY <3>1, <3>2, <3>3 DEF TryGroup, Heading
  <2>. QED BY <2>1, <2>2, <2>3, <2>4 DEF TryGroup
<1>2. UNCHANGED <<queueVars, pending, stop, up, event, ret, flowVars, histVars>>
  BY DEF TryGroup
<1>3. Types'
  BY <1>1, <1>2 DEF TypeOK, Types, Regs, queueVars, flowVars, histVars
<1>4. LocalsOK(t)'
  BY <1>1 DEF LocalsOK, Taking, Holding
<1>. QED BY <1>1, <1>3, <1>4, OneThread

\* TakeSteal keeps TypeOK.
LEMMA TypeTakeSteal ==
  ASSUME TypeOK, NEW t \in Threads, TakeSteal(t) PROVE TypeOK'
<1>1. /\ reg[t].grp \in Groups /\ reg[t].grp \in GroupsOf(t)
      /\ pc[t] = "take_steal" /\ UNCHANGED ret
  BY DEF TypeOK, TakeSteal, LocalsOK, Heading, Taking, GroupsOf, Members
<1>2. reg[t].victims \in SUBSET Workers /\ reg[t].cand \subseteq GroupsOf(t) /\ reg[t] \in Regs
  BY DEF TypeOK, Types, LocalsOK, Regs
<1> DEFINE Moved ==
      /\ deque' \in [Groups -> [Workers -> Seq(Tasks)]]
      /\ pc' \in [Threads -> PCs] /\ reg' \in [Threads -> Regs]
      /\ \A u \in Threads \ {t} : Heading(u)' = Heading(u) /\ reg'[u] = reg[u]
      /\ reg'[t].cand \subseteq GroupsOf(t)
      /\ \/ Heading(t)' = "try"
         \/ Heading(t)' = "take_steal" /\ reg'[t].grp = reg[t].grp
         \/ Heading(t)' = "sink" /\ reg'[t].grp = reg[t].grp /\ reg'[t].item \in Tasks
<1>3. Moved
  <2>1. CASE Goto(t, "try") /\ reg' = [reg EXCEPT ![t].grp = None] /\ UNCHANGED deque
    BY <1>1, <1>2, <2>1, GotoKeeps DEF TypeOK, Types, Regs, PCs, Heading
  <2>2. ASSUME NEW v \in reg[t].victims, deque[reg[t].grp][v] # <<>>,
               deque' = [deque EXCEPT ![reg[t].grp][v] = Tail(@)],
               Found(t, reg[t].grp, Head(deque[reg[t].grp][v])), Goto(t, "sink")
        PROVE  Moved
    <3>1. Head(deque[reg[t].grp][v]) \in Tasks /\ deque' \in [Groups -> [Workers -> Seq(Tasks)]]
      BY <1>1, <1>2, <2>2, PopKeeps DEF TypeOK
    <3>2. "sink" \in PCs
      BY DEF PCs
    <3>. QED BY <1>1, <2>2, <3>1, <3>2, GotoKeeps, FoundKeeps DEF TypeOK, Heading
  <2>3. ASSUME NEW v \in reg[t].victims, UNCHANGED <<deque, pc>>,
               reg' = [reg EXCEPT ![t].victims = @ \ {v}]
        PROVE  Moved
    <3>1. reg[t].victims \ {v} \in SUBSET Workers
      BY <1>2
    <3>. QED BY <1>1, <1>2, <2>3, <3>1, MemberVictims DEF TypeOK, Types, Heading
  <2>. QED BY <2>1, <2>2, <2>3 DEF TakeSteal
<1>4. UNCHANGED <<mailbox, queued, pending, stop, up, event, ret, flowVars, histVars>>
  BY DEF TakeSteal
<1>5. Types'
  BY <1>3, <1>4 DEF TypeOK, Types, Regs, flowVars, histVars
<1>6. LocalsOK(t)'
  BY <1>1, <1>3 DEF LocalsOK, Taking, Holding
<1>. QED BY <1>3, <1>5, <1>6, OneThread

\* ClearSteal keeps TypeOK.
LEMMA TypeClearSteal ==
  ASSUME TypeOK, NEW t \in Threads, ClearSteal(t) PROVE TypeOK'
<1>1. Call(t).arg \in Groups
  BY CallTyped DEF ClearSteal, In
<1>2. reg[t].victims \in SUBSET Workers /\ reg[t].cand \subseteq GroupsOf(t)
  BY DEF TypeOK, Types, LocalsOK
<1> DEFINE Moved ==
      /\ deque' \in [Groups -> [Workers -> Seq(Tasks)]]
      /\ at' \in [{Main} \cup Foreign \cup Tasks -> Nat \ {0}]
      /\ pc' \in [Threads -> PCs] /\ reg' \in [Threads -> Regs]
      /\ \A u \in Threads \ {t} : Heading(u)' = Heading(u) /\ reg'[u] = reg[u]
      /\ reg'[t].cand \subseteq GroupsOf(t)
      /\ \/ Heading(t)' \in {"user", "clear_steal"}
         \/ Heading(t)' = "clear_sink" /\ reg'[t].item \in Tasks
<1>3. Moved
  <2>1. CASE Advance(t) /\ Goto(t, "user") /\ Forget(t) /\ UNCHANGED deque
    BY <2>1, GotoKeeps, ForgetKeeps, AdvanceKeeps DEF TypeOK, Types, PCs, ClearSteal, Heading
  <2>2. ASSUME NEW v \in reg[t].victims, UNCHANGED at, deque[Call(t).arg][v] # <<>>,
               deque' = [deque EXCEPT ![Call(t).arg][v] = Tail(@)],
               Found(t, Call(t).arg, Head(deque[Call(t).arg][v])), Goto(t, "clear_sink")
        PROVE  Moved
    <3>1. Head(deque[Call(t).arg][v]) \in Tasks /\ deque' \in [Groups -> [Workers -> Seq(Tasks)]]
      BY <1>1, <1>2, <2>2, PopKeeps DEF TypeOK
    <3>2. at' \in [{Main} \cup Foreign \cup Tasks -> Nat \ {0}] /\ "clear_sink" \in PCs
      BY <2>2 DEF TypeOK, Types, PCs
    <3>. QED BY <1>1, <2>2, <3>1, <3>2, GotoKeeps, FoundKeeps DEF TypeOK, ClearSteal, Heading
  <2>3. ASSUME NEW v \in reg[t].victims, UNCHANGED <<at, deque, pc>>,
               reg' = [reg EXCEPT ![t].victims = @ \ {v}]
        PROVE  Moved
    <3>1. reg[t].victims \ {v} \in SUBSET Workers
      BY <1>2
    <3>. QED BY <1>2, <2>3, <3>1, MemberVictims DEF TypeOK, Types, ClearSteal, In, Heading
  <2>. QED BY <2>1, <2>2, <2>3 DEF ClearSteal
<1>4. UNCHANGED <<mailbox, queued, pending, stop, up, event, ret, stack, ctx, histVars>>
  BY DEF ClearSteal
<1>5. Types'
  BY <1>3, <1>4 DEF TypeOK, Types, Regs, histVars
<1>6. LocalsOK(t)'
  BY <1>3 DEF LocalsOK, Taking, Holding
<1>. QED BY <1>3, <1>5, <1>6, OneThread

\* ParkWait keeps TypeOK.
LEMMA TypeParkWait ==
  ASSUME TypeOK, NEW t \in Threads, ParkWait(t) PROVE TypeOK'
<1> DEFINE Moved ==
      /\ pc' \in [Threads -> PCs] /\ reg' \in [Threads -> Regs]
      /\ \A u \in Threads \ {t} : Heading(u)' = Heading(u) /\ reg'[u] = reg[u]
      /\ reg'[t].cand \subseteq GroupsOf(t)
      /\ Heading(t)' \in {"asleep", "loop", "user", "park_wait"}
<1>1. Moved
  <2>1. CASE Goto(t, "asleep") /\ UNCHANGED reg
    BY <2>1, GotoKeeps DEF TypeOK, Types, LocalsOK, PCs, Regs, ParkWait, Heading
  <2>2. CASE Resume(t) /\ Forget(t)
    BY <2>2, GotoKeeps, ForgetKeeps DEF TypeOK, Resume, PCs, ParkWait, Heading
  <2>3. ASSUME NEW g \in reg[t].cand, UNCHANGED pc, reg' = [reg EXCEPT ![t].cand = @ \ {g}]
        PROVE  Moved
    BY <2>3, NarrowKeeps DEF TypeOK, Types, ParkWait, Heading
  <2>. QED BY <2>1, <2>2, <2>3 DEF ParkWait
<1>2. UNCHANGED <<queueVars, pending, stop, up, event, ret, flowVars, histVars>>
  BY DEF ParkWait
<1>3. Types'
  BY <1>1, <1>2 DEF TypeOK, Types, Regs, queueVars, flowVars, histVars
<1>4. LocalsOK(t)'
  BY <1>1 DEF LocalsOK, Taking, Holding
<1>. QED BY <1>1, <1>3, <1>4, OneThread

\* PushLocal keeps TypeOK.
LEMMA TypePushLocal ==
  ASSUME TypeOK, NEW t \in Threads, PushLocal(t) PROVE TypeOK'
<1>1. Call(t).arg \in Tasks /\ Dest[Call(t).arg] \in Groups
  BY CallTyped DEF PushLocal, In
<1>2. deque' \in [Groups -> [Workers -> Seq(Tasks)]]
  <2>1. CASE deque' = [deque EXCEPT ![Dest[Call(t).arg]][t] = Append(@, Call(t).arg)]
    BY <1>1, <2>1, PushKeeps DEF TypeOK
  <2>2. CASE UNCHANGED deque
    BY <2>2 DEF TypeOK, Types
  <2>. QED BY <2>1, <2>2 DEF PushLocal
<1>3. /\ pc' \in [Threads -> PCs] /\ Heading(t)' \in {"advertise", "push_mail"}
      /\ \A u \in Threads \ {t} : Heading(u)' = Heading(u)
  BY GotoKeeps DEF PushLocal, TypeOK, PCs, Heading
<1>4. UNCHANGED <<mailbox, queued, pending, stop, up, event, ret, flowVars, reg, histVars>>
  BY DEF PushLocal
<1>5. Types'
  BY <1>2, <1>3, <1>4 DEF TypeOK, Types, flowVars, histVars
<1>6. LocalsOK(t)'
  BY <1>3, <1>4 DEF TypeOK, LocalsOK, Taking, Holding
<1>. QED BY <1>3, <1>4, <1>5, <1>6, OneThread

\* PushMail keeps TypeOK.
LEMMA TypePushMail ==
  ASSUME TypeOK, NEW t \in Threads, PushMail(t) PROVE TypeOK'
<1>1. Call(t).arg \in Tasks /\ Dest[Call(t).arg] \in Groups
  BY CallTyped DEF PushMail, In
<1>2. mailbox' \in [Groups -> Seq(Tasks)]
  <2>1. CASE mailbox' = [mailbox EXCEPT ![Dest[Call(t).arg]] = Append(@, Call(t).arg)]
    BY <1>1, <2>1, PostKeeps DEF TypeOK
  <2>2. CASE UNCHANGED mailbox
    BY <2>2 DEF TypeOK, Types
  <2>. QED BY <2>1, <2>2 DEF PushMail
<1>3. /\ pc' \in [Threads -> PCs] /\ ret' \in [Threads -> Returns]
      /\ Heading(t)' \in {"advertise", "try", "push_mail"}
      /\ \A u \in Threads \ {t} : Heading(u)' = Heading(u)
  <2>1. CASE Goto(t, "advertise") /\ UNCHANGED ret
    BY <2>1, GotoKeeps DEF TypeOK, Types, PCs, Heading
  <2>2. CASE NotifyThen(t, IF t \in Workers THEN "try" ELSE "push_mail")
    BY <2>2, NotifyKeeps DEF TypeOK, Returns, Heading
  <2>. QED BY <2>1, <2>2 DEF PushMail
<1>4. /\ reg' \in [Threads -> Regs] /\ reg'[t].cand \subseteq GroupsOf(t)
      /\ \A u \in Threads \ {t} : reg'[u] = reg[u]
  BY RetryKeeps DEF PushMail, TypeOK, Types, LocalsOK, Regs
<1>5. UNCHANGED <<deque, queued, pending, stop, up, event, flowVars, histVars>>
  BY DEF PushMail
<1>6. Types'
  BY <1>2, <1>3, <1>4, <1>5 DEF TypeOK, Types, Regs, flowVars, histVars
<1>7. LocalsOK(t)'
  BY <1>3, <1>4 DEF LocalsOK, Taking, Holding
<1>. QED BY <1>3, <1>4, <1>6, <1>7, OneThread

\* NotifyLock keeps TypeOK.
LEMMA TypeNotifyLock ==
  ASSUME TypeOK, NEW t \in Threads, NotifyLock(t) PROVE TypeOK'
<1>1. pc' \in [Threads -> PCs] /\ \A u \in Threads : Heading(u)' = Heading(u)
  BY GotoKeeps DEF NotifyLock, TypeOK, PCs, Heading
<1>2. UNCHANGED <<queueVars, pending, stop, up, event, ret, flowVars, reg, histVars>>
  BY DEF NotifyLock
<1>3. Types'
  BY <1>1, <1>2 DEF TypeOK, Types, queueVars, flowVars, histVars
<1>. QED BY <1>1, <1>2, <1>3, OneThread DEF TypeOK, LocalsOK

\* NotifyAll keeps TypeOK.
LEMMA TypeNotifyAll ==
  ASSUME TypeOK, NEW t \in Threads, NotifyAll(t) PROVE TypeOK'
<1>1. ret[t] \in Returns /\ Returns \subseteq PCs /\ "park_lock" \in PCs /\ "user" \in Returns
  BY DEF TypeOK, Types, Returns, PCs
<1>2. /\ pc' \in [Threads -> PCs] /\ ret' \in [Threads -> Returns]
      /\ pc'[t] = ret[t] /\ \A u \in Threads \ {t} : ret'[u] = ret[u]
      /\ \A u \in Threads \ {t} : pc'[u] = pc[u] \/ (pc'[u] = "park_lock" /\ pc[u] = "asleep")
  BY <1>1 DEF NotifyAll, TypeOK, Types
<1>3. UNCHANGED <<queueVars, pending, stop, up, event, flowVars, reg, histVars>>
  BY DEF NotifyAll
<1>4. Types'
  BY <1>2, <1>3 DEF TypeOK, Types, queueVars, flowVars, histVars
<1>5. /\ Heading(t)' = Heading(t)
      /\ \A u \in Threads \ {t} : Heading(u)' = Heading(u) \/ Heading(u)' = "park_lock"
  BY <1>1, <1>2 DEF NotifyAll, Heading, Returns
<1>6. LocalsOK(t)'
  BY <1>3, <1>5 DEF TypeOK, LocalsOK
<1>. QED BY <1>3, <1>4, <1>5, <1>6, OneThread DEF Taking, Holding

\* TakeOwn keeps TypeOK.
LEMMA TypeTakeOwn ==
  ASSUME TypeOK, NEW t \in Threads, TakeOwn(t) PROVE TypeOK'
<1>1. t \in Workers /\ reg[t].grp \in Groups /\ reg[t].grp \in GroupsOf(t)
  BY DEF TypeOK, TakeOwn, LocalsOK, Heading, Taking, GroupsOf, Members
<1> DEFINE d == deque[reg[t].grp][t]
           Moved ==
             /\ deque' \in [Groups -> [Workers -> Seq(Tasks)]]
             /\ pc' \in [Threads -> PCs] /\ reg' \in [Threads -> Regs]
             /\ \A u \in Threads \ {t} : Heading(u)' = Heading(u) /\ reg'[u] = reg[u]
             /\ reg'[t].cand \subseteq GroupsOf(t) /\ reg'[t].grp = reg[t].grp
             /\ \/ Heading(t)' = "take_mail"
                \/ Heading(t)' = "sink" /\ reg'[t].item \in Tasks
<1>2. Moved
  <2>1. CASE /\ d # <<>>
             /\ deque' = [deque EXCEPT ![reg[t].grp][t] = SubSeq(d, 1, Len(d) - 1)]
             /\ Found(t, reg[t].grp, d[Len(d)]) /\ Goto(t, "sink")
    <3>1. d[Len(d)] \in Tasks /\ deque' \in [Groups -> [Workers -> Seq(Tasks)]]
      BY <1>1, <2>1, PopKeeps DEF TypeOK
    <3>. HIDE DEF d
    <3>. QED BY <1>1, <2>1, <3>1, GotoKeeps, FoundKeeps DEF TypeOK, PCs, TakeOwn, Heading
  <2>2. CASE Goto(t, "take_mail") /\ UNCHANGED <<deque, reg>>
    BY <2>2, GotoKeeps DEF TypeOK, Types, LocalsOK, Regs, PCs, TakeOwn, Heading
  <2>. QED BY <2>1, <2>2 DEF TakeOwn
<1>3. UNCHANGED <<mailbox, queued, pending, stop, up, event, ret, flowVars, histVars>>
  BY DEF TakeOwn
<1>4. Types'
  BY <1>2, <1>3 DEF TypeOK, Types, Regs, flowVars, histVars
<1>5. LocalsOK(t)'
  BY <1>1, <1>2 DEF LocalsOK, Taking, Holding
<1>. QED BY <1>2, <1>4, <1>5, OneThread

\* TakeMail keeps TypeOK.
LEMMA TypeTakeMail ==
  ASSUME TypeOK, NEW t \in Threads, TakeMail(t) PROVE TypeOK'
<1>1. reg[t].grp \in Groups /\ reg[t].grp \in GroupsOf(t) /\ reg[t].cand \subseteq GroupsOf(t)
  BY DEF TypeOK, TakeMail, LocalsOK, Heading, Taking, GroupsOf
<1> DEFINE g == reg[t].grp
           Moved ==
             /\ mailbox' \in [Groups -> Seq(Tasks)]
             /\ pc' \in [Threads -> PCs] /\ reg' \in [Threads -> Regs]
             /\ \A u \in Threads \ {t} : Heading(u)' = Heading(u) /\ reg'[u] = reg[u]
             /\ reg'[t].cand \subseteq GroupsOf(t) /\ reg'[t].grp = reg[t].grp
             /\ \/ Heading(t)' = "take_steal"
                \/ Heading(t)' = "sink" /\ reg'[t].item \in Tasks
<1>2. Moved
  <2>1. CASE /\ mailbox[g] # <<>> /\ mailbox' = [mailbox EXCEPT ![g] = Tail(@)]
             /\ Found(t, g, Head(mailbox[g])) /\ Goto(t, "sink")
    <3>1. Head(mailbox[g]) \in Tasks /\ mailbox' \in [Groups -> Seq(Tasks)]
      BY <1>1, <2>1, TakeKeeps DEF TypeOK
    <3>. QED BY <1>1, <2>1, <3>1, GotoKeeps, FoundKeeps DEF TypeOK, PCs, TakeMail, Heading
  <2>2. CASE /\ reg' = [reg EXCEPT ![t].victims = Members(g) \ {t}]
             /\ Goto(t, "take_steal") /\ UNCHANGED mailbox
    <3>1. Members(g) \ {t} \in SUBSET Workers
      BY DEF Members
    <3>. QED BY <1>1, <2>2, <3>1, GotoKeeps, MemberVictims DEF TypeOK, Types, PCs, TakeMail,
             Heading
  <2>. QED BY <2>1, <2>2 DEF TakeMail
<1>3. UNCHANGED <<deque, queued, pending, stop, up, event, ret, flowVars, histVars>>
  BY DEF TakeMail
<1>4. Types'
  BY <1>2, <1>3 DEF TypeOK, Types, Regs, flowVars, histVars
<1>5. LocalsOK(t)'
  BY <1>1, <1>2 DEF LocalsOK, Taking, Holding
<1>. QED BY <1>2, <1>4, <1>5, OneThread

\* ClearMail keeps TypeOK.
LEMMA TypeClearMail ==
  ASSUME TypeOK, NEW t \in Threads, ClearMail(t) PROVE TypeOK'
<1> DEFINE g == Call(t).arg
           Moved ==
             /\ mailbox' \in [Groups -> Seq(Tasks)]
             /\ pc' \in [Threads -> PCs] /\ reg' \in [Threads -> Regs]
             /\ \A u \in Threads \ {t} : Heading(u)' = Heading(u) /\ reg'[u] = reg[u]
             /\ reg'[t].cand \subseteq GroupsOf(t)
             /\ \/ Heading(t)' = "clear_steal"
                \/ Heading(t)' = "clear_sink" /\ reg'[t].item \in Tasks
<1>1. g \in Groups /\ reg[t].cand \subseteq GroupsOf(t)
  BY CallTyped DEF ClearMail, In, TypeOK, LocalsOK
<1>2. Moved
  <2>1. CASE /\ mailbox[g] # <<>> /\ mailbox' = [mailbox EXCEPT ![g] = Tail(@)]
             /\ Found(t, g, Head(mailbox[g])) /\ Goto(t, "clear_sink")
    <3>1. Head(mailbox[g]) \in Tasks /\ mailbox' \in [Groups -> Seq(Tasks)]
      BY <1>1, <2>1, TakeKeeps DEF TypeOK
    <3>. HIDE DEF g
    <3>. QED BY <1>1, <2>1, <3>1, GotoKeeps, FoundKeeps DEF TypeOK, PCs, ClearMail, Heading
  <2>2. CASE /\ reg' = [reg EXCEPT ![t].victims = Members(g)]
             /\ Goto(t, "clear_steal") /\ UNCHANGED mailbox
    <3>1. Members(g) \in SUBSET Workers
      BY DEF Members
    <3>. HIDE DEF g
    <3>. QED BY <1>1, <2>2, <3>1, GotoKeeps, MemberVictims DEF TypeOK, Types, PCs, ClearMail,
             Heading
  <2>. QED BY <2>1, <2>2 DEF ClearMail
<1>3. UNCHANGED <<deque, queued, pending, stop, up, event, ret, flowVars, histVars>>
  BY DEF ClearMail
<1>4. Types'
  BY <1>2, <1>3 DEF TypeOK, Types, Regs, flowVars, histVars
<1>5. LocalsOK(t)'
  BY <1>2 DEF LocalsOK, Taking, Holding
<1>. QED BY <1>2, <1>4, <1>5, OneThread

\* Exec keeps TypeOK.
LEMMA TypeExec ==
  ASSUME TypeOK, NEW t \in Threads, Exec(t) PROVE TypeOK'
<1>1. t \in Workers /\ reg[t].grp \in Groups /\ reg[t].item \in Tasks
  BY DEF TypeOK, Exec, LocalsOK, Heading, Taking, Holding, GroupsOf, Members
<1>2. ctx' \in [Workers -> Groups \cup {None}]
  BY <1>1 DEF Exec, TypeOK, Types
<1>3. stack' \in [Threads -> Seq([task : Tasks, saved : Groups \cup {None}])]
  <2> DEFINE Frm == [task : Tasks, saved : Groups \cup {None}]
  <2>1. [task |-> reg[t].item, saved |-> ctx[t]] \in Frm /\ stack[t] \in Seq(Frm)
    BY <1>1 DEF TypeOK, Types
  <2>2. Append(stack[t], [task |-> reg[t].item, saved |-> ctx[t]]) \in Seq(Frm)
    <3>. HIDE DEF Frm
    <3>. QED BY <2>1
  <2>. QED BY <2>2 DEF Exec, TypeOK, Types
<1>4. /\ pc' \in [Threads -> PCs] /\ Heading(t)' = "user"
      /\ \A u \in Threads \ {t} : Heading(u)' = Heading(u)
  BY GotoKeeps DEF Exec, TypeOK, PCs, Heading
<1>5. /\ reg' \in [Threads -> Regs] /\ reg'[t].cand = {}
      /\ \A u \in Threads \ {t} : reg'[u] = reg[u]
  BY ForgetKeeps DEF Exec, TypeOK
<1>6. UNCHANGED <<queueVars, pending, stop, up, event, ret, at, histVars>>
  BY DEF Exec
<1>7. Types'
  BY <1>2, <1>3, <1>4, <1>5, <1>6 DEF TypeOK, Types, Regs, queueVars, histVars
<1>8. LocalsOK(t)'
  BY <1>4, <1>5 DEF LocalsOK, Taking, Holding
<1>. QED BY <1>4, <1>5, <1>7, <1>8, OneThread

\* EndTask keeps TypeOK.
LEMMA TypeEndTask ==
  ASSUME TypeOK, NEW t \in Threads, EndTask(t) PROVE TypeOK'
<1> DEFINE Frm == [task : Tasks, saved : Groups \cup {None}]
<1>1. SubSeq(stack[t], 1, Len(stack[t]) - 1) \in Seq(Frm) /\ Top(t) \in Frm
  <2>1. stack[t] \in Seq(Frm) /\ stack[t] # <<>>
    BY DEF EndTask, FinishTask, TypeOK, Types
  <2>. HIDE DEF Frm
  <2>. QED BY <2>1, LastOfSeq DEF Top
<1>2. Top(t).task \in Tasks /\ Top(t).saved \in Groups \cup {None}
  BY <1>1
<1>3. ctx' \in [Workers -> Groups \cup {None}]
  BY <1>2 DEF EndTask, FinishTask, RestoreContext, TypeOK, Types
<1>4. stack' \in [Threads -> Seq(Frm)]
  BY <1>1 DEF EndTask, FinishTask, TypeOK, Types
<1>5. pending' \in Int /\ done' \subseteq Tasks
  <2>1. pending' = pending - 1 /\ done' = done \cup {Top(t).task}
    BY DEF EndTask, FinishTask
  <2>. QED BY <1>2, <2>1 DEF TypeOK, Types
<1> DEFINE Moved ==
      /\ pc' \in [Threads -> PCs] /\ ret' \in [Threads -> Returns]
      /\ Heading(t)' \in {"loop", "push_mail", "user"}
      /\ \A u \in Threads \ {t} : Heading(u)' = Heading(u)
<1>6. Moved
  <2>1. ASSUME NEW l \in {"loop", "push_mail", "user"}, Goto(t, l), UNCHANGED ret
        PROVE  Moved
    BY <2>1, GotoKeeps DEF TypeOK, Types, PCs, Heading
  <2>2. ASSUME NEW l \in {"loop", "push_mail", "user"}, NotifyThen(t, l)
        PROVE  Moved
    BY <2>2, NotifyKeeps DEF TypeOK, Returns, Heading
  <2>. QED BY <2>1, <2>2 DEF EndTask, FinishTask
<1>7. UNCHANGED <<queueVars, stop, up, event, at, reg, submitted, dropped>>
  BY DEF EndTask, FinishTask
<1>8. Types'
  BY <1>3, <1>4, <1>5, <1>6, <1>7 DEF TypeOK, Types, queueVars
<1>9. LocalsOK(t)'
  BY <1>6, <1>7 DEF TypeOK, LocalsOK, Taking, Holding
<1>. QED BY <1>6, <1>7, <1>8, <1>9, OneThread

\* Begin keeps TypeOK.
LEMMA TypeBegin ==
  ASSUME TypeOK, Begin PROVE TypeOK'
<1>1. deque' \in [Groups -> [Workers -> Seq(Tasks)]] /\ mailbox' \in [Groups -> Seq(Tasks)]
  <2>1. <<>> \in Seq(Tasks)
    OBVIOUS
  <2>. QED BY <2>1 DEF Begin, EmptyDeques
<1>2. queued' \in [Groups -> Int] /\ pending' \in Int
  BY DEF Begin
<1>9. stop' \in BOOLEAN
  BY DEF Begin
<1>3. /\ pc' \in [Threads -> PCs] /\ reg' = reg /\ ret' = ret
      /\ \A u \in Threads : pc'[u] \in {"entry", "latch", pc[u]}
  BY DEF Begin, TypeOK, Types, PCs
<1>4. Types'
  BY <1>1, <1>2, <1>9, <1>3 DEF Begin, TypeOK, Types, histVars
<1>5. \A u \in Threads : Heading(u)' \in {"entry", "latch", Heading(u)}
  BY <1>3 DEF Heading
<1>. QED BY <1>3, <1>4, <1>5 DEF TypeOK, LocalsOK, Taking, Holding

\* Latch keeps TypeOK.
LEMMA TypeLatch ==
  ASSUME TypeOK, Latch PROVE TypeOK'
<1>1. Main \in Threads
  BY ThreadAssumption DEF Main, Workers, Threads
<1>2. /\ pc' \in [Threads -> PCs] /\ Heading(Main)' = "user"
      /\ \A u \in Threads \ {Main} : Heading(u)' = Heading(u)
      /\ at' \in [{Main} \cup Foreign \cup Tasks -> Nat \ {0}] /\ up' \in BOOLEAN
  BY <1>1, GotoKeeps, AdvanceKeeps DEF Latch, TypeOK, PCs, Heading
<1>3. UNCHANGED <<queueVars, pending, stop, event, ret, stack, ctx, reg, histVars>>
  BY DEF Latch
<1>4. Types'
  BY <1>2, <1>3 DEF TypeOK, Types, queueVars, histVars
<1>5. LocalsOK(Main)'
  BY <1>1, <1>2, <1>3 DEF TypeOK, LocalsOK, Taking, Holding
<1>. QED BY <1>1, <1>2, <1>3, <1>4, <1>5, OneThread

\* Every step keeps TypeOK.
LEMMA TypeStep ==
  ASSUME TypeOK, [Next]_vars PROVE TypeOK'
<1>1. ASSUME NEW t \in Threads, Step(t) PROVE TypeOK'
  BY <1>1, TypeBegin, TypeLatch, TypeSubmit, TypePushLocal, TypePushMail, TypeAdvertise,
     TypeNotifyAll, TypeTryGroup, TypeTakeOwn, TypeTakeMail, TypeTakeSteal, TypeSink, TypeChain,
     TypeExec, TypeEndTask, TypeSignal, TypeCoopWait, TypeClearBegin, TypeClearMail,
     TypeClearSteal, TypeClearSink, TypeClearFinish, TypeWaitLoad, TypeWaitSnapshot,
     TypeSetStop, TypeJoin, TypeEntry, TypeLoopHead, TypeParkCheck, TypeParkWait DEF Step
<1>2. ASSUME NEW t \in Threads, Lock(t) \/ SpuriousWake(t) PROVE TypeOK'
  BY <1>2, TypeNotifyLock, TypeParkLock, TypeSpuriousWake DEF Lock
<1>3. CASE UNCHANGED vars
  BY <1>3 DEF vars, TypeOK, Types, LocalsOK, Heading
<1>. QED BY <1>1, <1>2, <1>3 DEF Next, Finished

\* TypeOK is an invariant for every number of workers, groups and tasks and every program.
THEOREM TypeCorrect == Spec => []TypeOK
<1>1. Init => TypeOK
  <2>1. ASSUME Init PROVE Types
    <3>1. <<>> \in Seq(Tasks) /\ <<>> \in Seq([task : Tasks, saved : Groups \cup {None}])
      OBVIOUS
    <3>2. deque \in [Groups -> [Workers -> Seq(Tasks)]] /\ mailbox \in [Groups -> Seq(Tasks)]
      BY <2>1, <3>1 DEF Init, EmptyDeques
    <3>3. stack \in [Threads -> Seq([task : Tasks, saved : Groups \cup {None}])]
      BY <2>1, <3>1 DEF Init
    <3>4. queued \in [Groups -> Int] /\ pending \in Int /\ event \in [Events -> {0, 1}]
      BY <2>1 DEF Init
    <3>7. stop \in BOOLEAN /\ up \in BOOLEAN
      BY <2>1 DEF Init
    <3>5. /\ pc \in [Threads -> PCs] /\ ret \in [Threads -> Returns]
          /\ at \in [{Main} \cup Foreign \cup Tasks -> Nat \ {0}]
      BY <2>1 DEF Init, PCs, Returns
    <3>6. /\ ctx \in [Workers -> Groups \cup {None}]
          /\ reg \in [Threads -> [cand : SUBSET Groups, grp : Groups \cup {None},
                                  victims : SUBSET Workers, item : Tasks \cup {None},
                                  spins : Nat]]
      BY <2>1 DEF Init, NoRegs
    <3>. QED BY <2>1, <3>2, <3>3, <3>4, <3>7, <3>5, <3>6 DEF Init, Types
  <2>2. ASSUME Init, NEW t \in Threads PROVE LocalsOK(t)
    BY <2>2 DEF Init, LocalsOK, Heading, NoRegs, Taking, Holding
  <2>. QED BY <2>1, <2>2 DEF TypeOK
<1>. QED BY <1>1, TypeStep, PTL DEF Spec

\* What t has already read in the predicate of its wait without seeing that it holds now.
Missed(t) == \/ InLoop(t) /\ stop
             \/ \E g \in GroupsOf(t) \ reg[t].cand : queued[g] > 0

\* The mutex is held by one thread at most; whoever changes the predicate of a thread that
\* has read it is still waiting for the mutex; and no sleeper is forgotten.
WakeInv ==
  /\ \A t, u \in Threads : {pc[t], pc[u]} \subseteq {"park_check", "park_wait"} => t = u
  /\ \A t \in Threads : pc[t] = "park_wait" /\ Missed(t) => \E u \in Threads : pc[u] = "notify_lock"
  /\ NoLostWakeup

\* Thread t moves alone: the others keep their place, their locals and their stack.
Alone(t) == \A u \in Threads \ {t} : pc'[u] = pc[u] /\ reg'[u] = reg[u] /\ stack'[u] = stack[u]

\* A step that neither parks, nor notifies, nor makes work or stop_ appear.
LEMMA Quiet ==
  ASSUME TypeOK, WakeInv, NEW t \in Threads, Alone(t), stop' = stop,
         \A g \in Groups : queued'[g] > 0 => queued[g] > 0,
         pc[t] \notin {"notify_lock", "notify_all"},
         pc'[t] \notin {"park_check", "park_wait", "asleep"}
  PROVE  WakeInv'
<1>1. \A u \in Threads : pc[u] \in {"notify_lock", "notify_all"} => pc'[u] = pc[u]
  BY DEF Alone
<1>2. \A u \in Threads : pc'[u] \in {"park_check", "park_wait", "asleep"} =>
        u # t /\ pc'[u] = pc[u] /\ reg'[u] = reg[u] /\ (InLoop(u)' <=> InLoop(u))
  BY DEF Alone, InLoop
<1>3. \A u \in Threads : GroupsOf(u) \subseteq Groups
  BY DEF GroupsOf
<1>4. ASSUME NEW u \in Threads, pc'[u] = "park_wait",
         Missed(u)' PROVE \E v \in Threads : pc'[v] = "notify_lock"
  <2>1. Missed(u)
    BY <1>2, <1>3, <1>4 DEF Missed
  <2>. QED BY <1>1, <1>2, <1>4, <2>1 DEF WakeInv
<1>5. ASSUME NEW u \in Threads, pc'[u] = "asleep", HasQueued(u)' \/ (InLoop(u)
         /\ stop)' PROVE Notifying'
  <2>1. HasQueued(u) \/ (InLoop(u) /\ stop)
    BY <1>2, <1>3, <1>5 DEF HasQueued
  <2>. QED BY <1>1, <1>2, <1>5, <2>1 DEF WakeInv, NoLostWakeup, Notifying
<1>6. \A u, v \in Threads : {pc'[u], pc'[v]} \subseteq {"park_check", "park_wait"} => u = v
  BY <1>2 DEF WakeInv
<1>. QED BY <1>4, <1>5, <1>6 DEF WakeInv, NoLostWakeup

\* A step that ends before the lock of notify_workers may change what it likes.
LEMMA Loud ==
  ASSUME WakeInv, NEW t \in Threads, Alone(t), pc'[t] = "notify_lock"
  PROVE  WakeInv'
<1>1. \A u, v \in Threads : {pc'[u], pc'[v]} \subseteq {"park_check", "park_wait"} => u = v
  BY DEF WakeInv, Alone
<1>. QED BY <1>1 DEF WakeInv, NoLostWakeup, Notifying

\* Latch keeps WakeInv.
LEMMA WakeLatch ==
  ASSUME TypeOK, WakeInv, Latch PROVE WakeInv'
<1>0. Main \in Threads
  BY ThreadAssumption DEF Main, Workers, Threads
<1>1. Alone(Main) /\ stop' = stop
  BY <1>0 DEF Latch, TypeOK, Types, Alone, queueVars, flowVars, histVars, In, Goto, Forget,
       Found, Retry, NotifyThen, Main
<1>2. pc[Main] \notin {"notify_lock", "notify_all"} /\ pc'[Main] \notin {"park_check",
         "park_wait", "asleep"}
  BY <1>0 DEF Latch, TypeOK, Types, queueVars, flowVars, histVars, In, Goto, Forget, Found,
       Retry, NotifyThen, Main
<1>3. \A g \in Groups : queued'[g] > 0 => queued[g] > 0
  BY DEF Latch, TypeOK, Types, queueVars, flowVars, histVars, In
<1>. QED BY <1>0, <1>1, <1>2, <1>3, Quiet

\* Submit keeps WakeInv.
LEMMA WakeSubmit ==
  ASSUME TypeOK, WakeInv, NEW t \in Threads, Submit(t) PROVE WakeInv'
<1>1. Alone(t) /\ stop' = stop
  BY DEF Submit, TypeOK, Types, Alone, queueVars, flowVars, histVars, In, Goto, Forget, Found,
       Retry, NotifyThen
<1>2. pc[t] \notin {"notify_lock", "notify_all"} /\ pc'[t] \notin {"park_check", "park_wait",
         "asleep"}
  BY DEF Submit, TypeOK, Types, queueVars, flowVars, histVars, In, Goto, Forget, Found, Retry,
       NotifyThen
<1>3. \A g \in Groups : queued'[g] > 0 => queued[g] > 0
  BY DEF Submit, TypeOK, Types, queueVars, flowVars, histVars, In
<1>. QED BY <1>1, <1>2, <1>3, Quiet

\* PushLocal keeps WakeInv.
LEMMA WakePushLocal ==
  ASSUME TypeOK, WakeInv, NEW t \in Threads, PushLocal(t) PROVE WakeInv'
<1>1. Alone(t) /\ stop' = stop
  BY DEF PushLocal, TypeOK, Types, Alone, queueVars, flowVars, histVars, In, Goto, Forget,
       Found, Retry, NotifyThen
<1>2. pc[t] \notin {"notify_lock", "notify_all"} /\ pc'[t] \notin {"park_check", "park_wait",
         "asleep"}
  BY DEF PushLocal, TypeOK, Types, queueVars, flowVars, histVars, In, Goto, Forget, Found,
       Retry, NotifyThen
<1>3. \A g \in Groups : queued'[g] > 0 => queued[g] > 0
  BY DEF PushLocal, TypeOK, Types, queueVars, flowVars, histVars, In
<1>. QED BY <1>1, <1>2, <1>3, Quiet

\* TryGroup keeps WakeInv.
LEMMA WakeTryGroup ==
  ASSUME TypeOK, WakeInv, NEW t \in Threads, TryGroup(t) PROVE WakeInv'
<1>1. Alone(t) /\ stop' = stop
  BY DEF TryGroup, TypeOK, Types, Alone, queueVars, flowVars, histVars, In, Goto, Forget, Found,
       Retry, NotifyThen, Caller
<1>2. pc[t] \notin {"notify_lock", "notify_all"} /\ pc'[t] \notin {"park_check", "park_wait",
         "asleep"}
  BY DEF TryGroup, TypeOK, Types, queueVars, flowVars, histVars, In, Goto, Forget, Found, Retry,
       NotifyThen, Caller
<1>3. \A g \in Groups : queued'[g] > 0 => queued[g] > 0
  BY DEF TryGroup, TypeOK, Types, queueVars, flowVars, histVars, In
<1>. QED BY <1>1, <1>2, <1>3, Quiet

\* TakeOwn keeps WakeInv.
LEMMA WakeTakeOwn ==
  ASSUME TypeOK, WakeInv, NEW t \in Threads, TakeOwn(t) PROVE WakeInv'
<1>1. Alone(t) /\ stop' = stop
  BY DEF TakeOwn, TypeOK, Types, Alone, queueVars, flowVars, histVars, In, Goto, Forget, Found,
       Retry, NotifyThen
<1>2. pc[t] \notin {"notify_lock", "notify_all"} /\ pc'[t] \notin {"park_check", "park_wait",
         "asleep"}
  BY DEF TakeOwn, TypeOK, Types, queueVars, flowVars, histVars, In, Goto, Forget, Found, Retry,
       NotifyThen
<1>3. \A g \in Groups : queued'[g] > 0 => queued[g] > 0
  BY DEF TakeOwn, TypeOK, Types, queueVars, flowVars, histVars, In
<1>. QED BY <1>1, <1>2, <1>3, Quiet

\* TakeMail keeps WakeInv.
LEMMA WakeTakeMail ==
  ASSUME TypeOK, WakeInv, NEW t \in Threads, TakeMail(t) PROVE WakeInv'
<1>1. Alone(t) /\ stop' = stop
  BY DEF TakeMail, TypeOK, Types, Alone, queueVars, flowVars, histVars, In, Goto, Forget, Found,
       Retry, NotifyThen
<1>2. pc[t] \notin {"notify_lock", "notify_all"} /\ pc'[t] \notin {"park_check", "park_wait",
         "asleep"}
  BY DEF TakeMail, TypeOK, Types, queueVars, flowVars, histVars, In, Goto, Forget, Found, Retry,
       NotifyThen
<1>3. \A g \in Groups : queued'[g] > 0 => queued[g] > 0
  BY DEF TakeMail, TypeOK, Types, queueVars, flowVars, histVars, In
<1>. QED BY <1>1, <1>2, <1>3, Quiet

\* TakeSteal keeps WakeInv.
LEMMA WakeTakeSteal ==
  ASSUME TypeOK, WakeInv, NEW t \in Threads, TakeSteal(t) PROVE WakeInv'
<1>1. Alone(t) /\ stop' = stop
  BY DEF TakeSteal, TypeOK, Types, Alone, queueVars, flowVars, histVars, In, Goto, Forget,
       Found, Retry, NotifyThen
<1>2. pc[t] \notin {"notify_lock", "notify_all"} /\ pc'[t] \notin {"park_check", "park_wait",
         "asleep"}
  BY DEF TakeSteal, TypeOK, Types, queueVars, flowVars, histVars, In, Goto, Forget, Found,
       Retry, NotifyThen
<1>3. \A g \in Groups : queued'[g] > 0 => queued[g] > 0
  BY DEF TakeSteal, TypeOK, Types, queueVars, flowVars, histVars, In
<1>. QED BY <1>1, <1>2, <1>3, Quiet

\* Sink keeps WakeInv.
LEMMA WakeSink ==
  ASSUME TypeOK, WakeInv, NEW t \in Threads, Sink(t) PROVE WakeInv'
<1>1. Alone(t) /\ stop' = stop
  BY DEF Sink, TypeOK, Types, Alone, queueVars, flowVars, histVars, In, Goto, Forget, Found,
       Retry, NotifyThen
<1>2. pc[t] \notin {"notify_lock", "notify_all"} /\ pc'[t] \notin {"park_check", "park_wait",
         "asleep"}
  BY DEF Sink, TypeOK, Types, queueVars, flowVars, histVars, In, Goto, Forget, Found, Retry,
       NotifyThen
<1>3. \A g \in Groups : queued'[g] > 0 => queued[g] > 0
  BY DEF Sink, TypeOK, Types, queueVars, flowVars, histVars, In
<1>. QED BY <1>1, <1>2, <1>3, Quiet

\* Exec keeps WakeInv.
LEMMA WakeExec ==
  ASSUME TypeOK, WakeInv, NEW t \in Threads, Exec(t) PROVE WakeInv'
<1>1. Alone(t) /\ stop' = stop
  BY DEF Exec, TypeOK, Types, Alone, queueVars, flowVars, histVars, In, Goto, Forget, Found,
       Retry, NotifyThen
<1>2. pc[t] \notin {"notify_lock", "notify_all"} /\ pc'[t] \notin {"park_check", "park_wait",
         "asleep"}
  BY DEF Exec, TypeOK, Types, queueVars, flowVars, histVars, In, Goto, Forget, Found, Retry,
       NotifyThen
<1>3. \A g \in Groups : queued'[g] > 0 => queued[g] > 0
  BY DEF Exec, TypeOK, Types, queueVars, flowVars, histVars, In
<1>. QED BY <1>1, <1>2, <1>3, Quiet

\* Signal keeps WakeInv.
LEMMA WakeSignal ==
  ASSUME TypeOK, WakeInv, NEW t \in Threads, Signal(t) PROVE WakeInv'
<1>1. Alone(t) /\ stop' = stop
  BY DEF Signal, TypeOK, Types, Alone, queueVars, flowVars, histVars, In, Goto, Forget, Found,
       Retry, NotifyThen
<1>2. pc[t] \notin {"notify_lock", "notify_all"} /\ pc'[t] \notin {"park_check", "park_wait",
         "asleep"}
  BY DEF Signal, TypeOK, Types, queueVars, flowVars, histVars, In, Goto, Forget, Found, Retry,
       NotifyThen
<1>3. \A g \in Groups : queued'[g] > 0 => queued[g] > 0
  BY DEF Signal, TypeOK, Types, queueVars, flowVars, histVars, In
<1>. QED BY <1>1, <1>2, <1>3, Quiet

\* CoopWait keeps WakeInv.
LEMMA WakeCoopWait ==
  ASSUME TypeOK, WakeInv, NEW t \in Threads, CoopWait(t) PROVE WakeInv'
<1>1. Alone(t) /\ stop' = stop
  BY DEF CoopWait, TypeOK, Types, Alone, queueVars, flowVars, histVars, In, Goto, Forget, Found,
       Retry, NotifyThen, TryOne
<1>2. pc[t] \notin {"notify_lock", "notify_all"} /\ pc'[t] \notin {"park_check", "park_wait",
         "asleep"}
  BY DEF CoopWait, TypeOK, Types, queueVars, flowVars, histVars, In, Goto, Forget, Found, Retry,
       NotifyThen, TryOne
<1>3. \A g \in Groups : queued'[g] > 0 => queued[g] > 0
  BY DEF CoopWait, TypeOK, Types, queueVars, flowVars, histVars, In
<1>. QED BY <1>1, <1>2, <1>3, Quiet

\* ClearBegin keeps WakeInv.
LEMMA WakeClearBegin ==
  ASSUME TypeOK, WakeInv, NEW t \in Threads, ClearBegin(t) PROVE WakeInv'
<1>1. Alone(t) /\ stop' = stop
  BY DEF ClearBegin, TypeOK, Types, Alone, queueVars, flowVars, histVars, In, Goto, Forget,
       Found, Retry, NotifyThen
<1>2. pc[t] \notin {"notify_lock", "notify_all"} /\ pc'[t] \notin {"park_check", "park_wait",
         "asleep"}
  BY DEF ClearBegin, TypeOK, Types, queueVars, flowVars, histVars, In, Goto, Forget, Found,
       Retry, NotifyThen
<1>3. \A g \in Groups : queued'[g] > 0 => queued[g] > 0
  BY DEF ClearBegin, TypeOK, Types, queueVars, flowVars, histVars, In
<1>. QED BY <1>1, <1>2, <1>3, Quiet

\* ClearMail keeps WakeInv.
LEMMA WakeClearMail ==
  ASSUME TypeOK, WakeInv, NEW t \in Threads, ClearMail(t) PROVE WakeInv'
<1>1. Alone(t) /\ stop' = stop
  BY DEF ClearMail, TypeOK, Types, Alone, queueVars, flowVars, histVars, In, Goto, Forget,
       Found, Retry, NotifyThen
<1>2. pc[t] \notin {"notify_lock", "notify_all"} /\ pc'[t] \notin {"park_check", "park_wait",
         "asleep"}
  BY DEF ClearMail, TypeOK, Types, queueVars, flowVars, histVars, In, Goto, Forget, Found,
       Retry, NotifyThen
<1>3. \A g \in Groups : queued'[g] > 0 => queued[g] > 0
  BY DEF ClearMail, TypeOK, Types, queueVars, flowVars, histVars, In
<1>. QED BY <1>1, <1>2, <1>3, Quiet

\* ClearSteal keeps WakeInv.
LEMMA WakeClearSteal ==
  ASSUME TypeOK, WakeInv, NEW t \in Threads, ClearSteal(t) PROVE WakeInv'
<1>1. Alone(t) /\ stop' = stop
  BY DEF ClearSteal, TypeOK, Types, Alone, queueVars, flowVars, histVars, In, Goto, Forget,
       Found, Retry, NotifyThen
<1>2. pc[t] \notin {"notify_lock", "notify_all"} /\ pc'[t] \notin {"park_check", "park_wait",
         "asleep"}
  BY DEF ClearSteal, TypeOK, Types, queueVars, flowVars, histVars, In, Goto, Forget, Found,
       Retry, NotifyThen
<1>3. \A g \in Groups : queued'[g] > 0 => queued[g] > 0
  BY DEF ClearSteal, TypeOK, Types, queueVars, flowVars, histVars, In
<1>. QED BY <1>1, <1>2, <1>3, Quiet

\* ClearSink keeps WakeInv.
LEMMA WakeClearSink ==
  ASSUME TypeOK, WakeInv, NEW t \in Threads, ClearSink(t) PROVE WakeInv'
<1>1. Alone(t) /\ stop' = stop
  BY DEF ClearSink, TypeOK, Types, Alone, queueVars, flowVars, histVars, In, Goto, Forget,
       Found, Retry, NotifyThen
<1>2. pc[t] \notin {"notify_lock", "notify_all"} /\ pc'[t] \notin {"park_check", "park_wait",
         "asleep"}
  BY DEF ClearSink, TypeOK, Types, queueVars, flowVars, histVars, In, Goto, Forget, Found,
       Retry, NotifyThen
<1>3. \A g \in Groups : queued'[g] > 0 => queued[g] > 0
  BY DEF ClearSink, TypeOK, Types, queueVars, flowVars, histVars, In
<1>. QED BY <1>1, <1>2, <1>3, Quiet

\* WaitLoad keeps WakeInv.
LEMMA WakeWaitLoad ==
  ASSUME TypeOK, WakeInv, NEW t \in Threads, WaitLoad(t) PROVE WakeInv'
<1>1. Alone(t) /\ stop' = stop
  BY DEF WaitLoad, TypeOK, Types, Alone, queueVars, flowVars, histVars, In, Goto, Forget, Found,
       Retry, NotifyThen, TryOne, WaitOver
<1>2. pc[t] \notin {"notify_lock", "notify_all"} /\ pc'[t] \notin {"park_check", "park_wait",
         "asleep"}
  BY DEF WaitLoad, TypeOK, Types, queueVars, flowVars, histVars, In, Goto, Forget, Found, Retry,
       NotifyThen, TryOne, WaitOver
<1>3. \A g \in Groups : queued'[g] > 0 => queued[g] > 0
  BY DEF WaitLoad, TypeOK, Types, queueVars, flowVars, histVars, In
<1>. QED BY <1>1, <1>2, <1>3, Quiet

\* WaitSnapshot keeps WakeInv.
LEMMA WakeWaitSnapshot ==
  ASSUME TypeOK, WakeInv, NEW t \in Threads, WaitSnapshot(t) PROVE WakeInv'
<1>1. Alone(t) /\ stop' = stop
  BY DEF WaitSnapshot, TypeOK, Types, Alone, queueVars, flowVars, histVars, In, Goto, Forget,
       Found, Retry, NotifyThen, WaitOver
<1>2. pc[t] \notin {"notify_lock", "notify_all"} /\ pc'[t] \notin {"park_check", "park_wait",
         "asleep"}
  BY DEF WaitSnapshot, TypeOK, Types, queueVars, flowVars, histVars, In, Goto, Forget, Found,
       Retry, NotifyThen, WaitOver
<1>3. \A g \in Groups : queued'[g] > 0 => queued[g] > 0
  BY DEF WaitSnapshot, TypeOK, Types, queueVars, flowVars, histVars, In
<1>. QED BY <1>1, <1>2, <1>3, Quiet

\* Join keeps WakeInv.
LEMMA WakeJoin ==
  ASSUME TypeOK, WakeInv, NEW t \in Threads, Join(t) PROVE WakeInv'
<1>1. Alone(t) /\ stop' = stop
  BY DEF Join, TypeOK, Types, Alone, queueVars, flowVars, histVars, In, Goto, Forget, Found,
       Retry, NotifyThen
<1>2. pc[t] \notin {"notify_lock", "notify_all"} /\ pc'[t] \notin {"park_check", "park_wait",
         "asleep"}
  BY DEF Join, TypeOK, Types, queueVars, flowVars, histVars, In, Goto, Forget, Found, Retry,
       NotifyThen
<1>3. \A g \in Groups : queued'[g] > 0 => queued[g] > 0
  BY DEF Join, TypeOK, Types, queueVars, flowVars, histVars, In
<1>. QED BY <1>1, <1>2, <1>3, Quiet

\* Entry keeps WakeInv.
LEMMA WakeEntry ==
  ASSUME TypeOK, WakeInv, NEW t \in Threads, Entry(t) PROVE WakeInv'
<1>1. Alone(t) /\ stop' = stop
  BY DEF Entry, TypeOK, Types, Alone, queueVars, flowVars, histVars, In, Goto, Forget, Found,
       Retry, NotifyThen
<1>2. pc[t] \notin {"notify_lock", "notify_all"} /\ pc'[t] \notin {"park_check", "park_wait",
         "asleep"}
  BY DEF Entry, TypeOK, Types, queueVars, flowVars, histVars, In, Goto, Forget, Found, Retry,
       NotifyThen
<1>3. \A g \in Groups : queued'[g] > 0 => queued[g] > 0
  BY DEF Entry, TypeOK, Types, queueVars, flowVars, histVars, In
<1>. QED BY <1>1, <1>2, <1>3, Quiet

\* LoopHead keeps WakeInv.
LEMMA WakeLoopHead ==
  ASSUME TypeOK, WakeInv, NEW t \in Threads, LoopHead(t) PROVE WakeInv'
<1>1. Alone(t) /\ stop' = stop
  BY DEF LoopHead, TypeOK, Types, Alone, queueVars, flowVars, histVars, In, Goto, Forget, Found,
       Retry, NotifyThen
<1>2. pc[t] \notin {"notify_lock", "notify_all"} /\ pc'[t] \notin {"park_check", "park_wait",
         "asleep"}
  BY DEF LoopHead, TypeOK, Types, queueVars, flowVars, histVars, In, Goto, Forget, Found, Retry,
       NotifyThen
<1>3. \A g \in Groups : queued'[g] > 0 => queued[g] > 0
  BY DEF LoopHead, TypeOK, Types, queueVars, flowVars, histVars, In
<1>. QED BY <1>1, <1>2, <1>3, Quiet

\* SpuriousWake keeps WakeInv.
LEMMA WakeSpuriousWake ==
  ASSUME TypeOK, WakeInv, NEW t \in Threads, SpuriousWake(t) PROVE WakeInv'
<1>1. Alone(t) /\ stop' = stop
  BY DEF SpuriousWake, TypeOK, Types, Alone, queueVars, flowVars, histVars, In, Goto, Forget,
       Found, Retry, NotifyThen
<1>2. pc[t] \notin {"notify_lock", "notify_all"} /\ pc'[t] \notin {"park_check", "park_wait",
         "asleep"}
  BY DEF SpuriousWake, TypeOK, Types, queueVars, flowVars, histVars, In, Goto, Forget, Found,
       Retry, NotifyThen
<1>3. \A g \in Groups : queued'[g] > 0 => queued[g] > 0
  BY DEF SpuriousWake, TypeOK, Types, queueVars, flowVars, histVars, In
<1>. QED BY <1>1, <1>2, <1>3, Quiet

\* Advertise keeps WakeInv.
LEMMA WakeAdvertise ==
  ASSUME TypeOK, WakeInv, NEW t \in Threads, Advertise(t) PROVE WakeInv'
<1>1. Alone(t) /\ pc'[t] = "notify_lock"
  BY DEF Advertise, TypeOK, Types, Alone, queueVars, flowVars, histVars, In, Goto, Forget,
       Found, Retry, NotifyThen
<1>. QED BY <1>1, Loud

\* SetStop keeps WakeInv.
LEMMA WakeSetStop ==
  ASSUME TypeOK, WakeInv, NEW t \in Threads, SetStop(t) PROVE WakeInv'
<1>1. Alone(t) /\ pc'[t] = "notify_lock"
  BY DEF SetStop, TypeOK, Types, Alone, queueVars, flowVars, histVars, In, Goto, Forget, Found,
       Retry, NotifyThen
<1>. QED BY <1>1, Loud

\* PushMail keeps WakeInv.
LEMMA WakePushMail ==
  ASSUME TypeOK, WakeInv, NEW t \in Threads, PushMail(t) PROVE WakeInv'
<1>1. Alone(t) /\ stop' = stop /\ queued' = queued
  BY DEF PushMail, TypeOK, Types, Alone, queueVars, flowVars, histVars, In, Goto, Forget, Found,
       Retry, NotifyThen
<1>2. pc[t] \notin {"notify_lock", "notify_all"}
  BY DEF PushMail, In
<1>3. pc'[t] = "notify_lock" \/ pc'[t] \notin {"park_check", "park_wait", "asleep"}
  BY DEF PushMail, TypeOK, Types, Goto, Forget, Found, Retry, NotifyThen
<1>. QED BY <1>1, <1>2, <1>3, Quiet, Loud

\* Chain keeps WakeInv.
LEMMA WakeChain ==
  ASSUME TypeOK, WakeInv, NEW t \in Threads, Chain(t) PROVE WakeInv'
<1>1. Alone(t) /\ stop' = stop /\ queued' = queued
  BY DEF Chain, TypeOK, Types, Alone, queueVars, flowVars, histVars, In, Goto, Forget, Found,
       Retry, NotifyThen
<1>2. pc[t] \notin {"notify_lock", "notify_all"}
  BY DEF Chain, In
<1>3. pc'[t] = "notify_lock" \/ pc'[t] \notin {"park_check", "park_wait", "asleep"}
  BY DEF Chain, TypeOK, Types, Goto, Forget, Found, Retry, NotifyThen
<1>. QED BY <1>1, <1>2, <1>3, Quiet, Loud

\* EndTask keeps WakeInv.
LEMMA WakeEndTask ==
  ASSUME TypeOK, WakeInv, NEW t \in Threads, EndTask(t) PROVE WakeInv'
<1>1. Alone(t) /\ stop' = stop /\ queued' = queued
  BY DEF EndTask, FinishTask, TypeOK, Types, Alone, queueVars, flowVars, histVars, In, Goto, Forget, Found,
       Retry, NotifyThen, RestoreContext
<1>2. pc[t] \notin {"notify_lock", "notify_all"}
  BY DEF EndTask, FinishTask, In
<1>3. pc'[t] = "notify_lock" \/ pc'[t] \notin {"park_check", "park_wait", "asleep"}
  BY DEF EndTask, FinishTask, TypeOK, Types, Goto, Forget, Found, Retry, NotifyThen
<1>. QED BY <1>1, <1>2, <1>3, Quiet, Loud

\* ClearFinish keeps WakeInv.
LEMMA WakeClearFinish ==
  ASSUME TypeOK, WakeInv, NEW t \in Threads, ClearFinish(t) PROVE WakeInv'
<1>1. Alone(t) /\ stop' = stop /\ queued' = queued
  BY DEF ClearFinish, FinishTask, TypeOK, Types, Alone, queueVars, flowVars, histVars, In, Goto, Forget,
       Found, Retry, NotifyThen
<1>2. pc[t] \notin {"notify_lock", "notify_all"}
  BY DEF ClearFinish, FinishTask, In
<1>3. pc'[t] = "notify_lock" \/ pc'[t] \notin {"park_check", "park_wait", "asleep"}
  BY DEF ClearFinish, FinishTask, TypeOK, Types, Goto, Forget, Found, Retry, NotifyThen
<1>. QED BY <1>1, <1>2, <1>3, Quiet, Loud

\* Taking the mutex: nobody is between reading the predicate and sleeping.
LEMMA WakeNotifyLock ==
  ASSUME TypeOK, WakeInv, NEW t \in Threads, NotifyLock(t) PROVE WakeInv'
<1>1. /\ \A u \in Threads \ {t} : pc'[u] = pc[u]
      /\ pc[t] = "notify_lock" /\ pc'[t] = "notify_all"
      /\ UNCHANGED <<queued, stop, stack, reg>>
  BY DEF NotifyLock, TypeOK, Types, Goto, queueVars, flowVars
<1>2. \A u \in Threads : pc'[u] \notin {"park_check", "park_wait"}
  BY <1>1 DEF NotifyLock, MutexFree
<1>3. NoLostWakeup'
  BY <1>1 DEF NoLostWakeup, Notifying
<1>4. \A u, v \in Threads : {pc'[u], pc'[v]} \subseteq {"park_check", "park_wait"} => u = v
  BY <1>2
<1>. QED BY <1>2, <1>3, <1>4 DEF WakeInv

\* notify_all leaves no sleeper.
LEMMA WakeNotifyAll ==
  ASSUME TypeOK, WakeInv, NEW t \in Threads, NotifyAll(t) PROVE WakeInv'
<1>1. /\ pc'[t] = ret[t] /\ ret[t] \in Returns /\ pc[t] = "notify_all"
      /\ \A u \in Threads \ {t} :
           pc'[u] = IF pc[u] = "asleep" THEN "park_lock" ELSE pc[u]
      /\ UNCHANGED <<queued, stop, stack, reg>>
  BY DEF NotifyAll, TypeOK, Types, queueVars, flowVars
<1>2. \A u \in Threads : /\ pc'[u] # "asleep"
                         /\ pc'[u] \in {"park_check", "park_wait"} => u # t /\ pc'[u] = pc[u]
                         /\ pc[u] = "notify_lock" => pc'[u] = pc[u]
  BY <1>1 DEF Returns
<1>3. \A u, v \in Threads : {pc'[u], pc'[v]} \subseteq {"park_check", "park_wait"} => u = v
  BY <1>2 DEF WakeInv
<1>4. ASSUME NEW u \in Threads, pc'[u] = "park_wait", Missed(u)'
      PROVE  \E v \in Threads : pc'[v] = "notify_lock"
  <2>1. pc[u] = "park_wait" /\ Missed(u)
    BY <1>1, <1>2, <1>4 DEF Missed, InLoop
  <2>. QED BY <1>2, <2>1 DEF WakeInv
<1>. QED BY <1>2, <1>3, <1>4 DEF WakeInv, NoLostWakeup

\* ParkLock keeps WakeInv.
LEMMA WakeParkLock ==
  ASSUME TypeOK, WakeInv, NEW t \in Threads, ParkLock(t) PROVE WakeInv'
<1>1. /\ \A u \in Threads \ {t} : pc'[u] = pc[u] /\ pc[u] \notin {"park_check", "park_wait"}
      /\ pc[t] = "park_lock" /\ pc'[t] = "park_check"
      /\ UNCHANGED <<queued, stop, stack, reg>>
  BY DEF ParkLock, TypeOK, Types, Goto, MutexFree, queueVars, flowVars
<1>2. \A u, v \in Threads : {pc'[u], pc'[v]} \subseteq {"park_check", "park_wait"} => u = v
  BY <1>1
<1>3. \A u \in Threads : pc'[u] # "park_wait"
  BY <1>1
<1>4. NoLostWakeup'
  BY <1>1 DEF WakeInv, NoLostWakeup, Notifying, HasQueued, InLoop
<1>. QED BY <1>2, <1>3, <1>4 DEF WakeInv

\* Reading stop_ as false: nothing is missed so far.
LEMMA WakeParkCheck ==
  ASSUME TypeOK, WakeInv, NEW t \in Threads, ParkCheck(t) PROVE WakeInv'
<1>1. /\ Alone(t) /\ pc[t] = "park_check" /\ UNCHANGED <<queued, stop, stack>>
      /\ \/ pc'[t] \in {"loop", "user"}
         \/ pc'[t] = "park_wait" /\ reg'[t].cand = GroupsOf(t) /\ ~Called(t)
  BY DEF ParkCheck, Alone, TypeOK, Types, Goto, Resume, Retry, queueVars, flowVars
<1>2. \A u, v \in Threads : {pc'[u], pc'[v]} \subseteq {"park_check", "park_wait"} => u = v
  BY <1>1 DEF WakeInv, Alone
<1>3. ASSUME NEW u \in Threads, pc'[u] = "park_wait", Missed(u)'
      PROVE  \E v \in Threads : pc'[v] = "notify_lock"
  <2>1. u # t
    BY <1>1, <1>3 DEF Missed, Called, InLoop
  <2>2. pc[u] = "park_wait"
    BY <1>3, <2>1, <1>1 DEF Alone
  <2>. QED BY <1>1, <2>1, <2>2 DEF WakeInv
<1>4. NoLostWakeup'
  BY <1>1 DEF WakeInv, NoLostWakeup, Notifying, HasQueued, InLoop, Alone
<1>. QED BY <1>2, <1>3, <1>4 DEF WakeInv

\* Reading one more queued_ as empty, or going to sleep having read all of them.
LEMMA WakeParkWait ==
  ASSUME TypeOK, WakeInv, NEW t \in Threads, ParkWait(t) PROVE WakeInv'
<1>1. /\ Alone(t) /\ pc[t] = "park_wait" /\ UNCHANGED <<queued, stop, stack>>
      /\ \/ pc'[t] \in {"loop", "user"}
         \/ pc'[t] = "asleep" /\ reg[t].cand = {}
         \/ /\ pc'[t] = "park_wait"
            /\ \E g \in reg[t].cand : queued[g] <= 0 /\ reg'[t].cand = reg[t].cand \ {g}
  BY DEF ParkWait, Alone, TypeOK, Types, Goto, Resume, Forget, queueVars, flowVars
<1>2. \A u, v \in Threads : {pc'[u], pc'[v]} \subseteq {"park_check", "park_wait"} => u = v
  BY <1>1 DEF WakeInv, Alone
<1>3. \A u \in Threads : pc[u] = "notify_lock" => pc'[u] = "notify_lock"
  BY <1>1 DEF Alone
<1>4. ASSUME NEW u \in Threads, pc'[u] = "park_wait", Missed(u)'
      PROVE  \E v \in Threads : pc'[v] = "notify_lock"
  <2>1. u = t
    BY <1>1, <1>4 DEF WakeInv, Alone
  <2>2. Missed(t)
    <3>1. PICK g \in reg[t].cand : queued[g] <= 0 /\ reg'[t].cand = reg[t].cand \ {g}
      BY <1>1, <1>4, <2>1
    <3>2. queued \in [Groups -> Int] /\ GroupsOf(t) \subseteq Groups
      BY DEF TypeOK, Types, GroupsOf
    <3>. QED BY <1>1, <1>4, <2>1, <3>1, <3>2 DEF Missed, InLoop
  <2>. QED BY <1>1, <1>3, <2>2 DEF WakeInv
<1>5. ASSUME NEW u \in Threads, pc'[u] = "asleep", (HasQueued(u) \/ (InLoop(u) /\ stop))'
      PROVE  Notifying'
  <2>1. HasQueued(u) \/ (InLoop(u) /\ stop)
    BY <1>1, <1>5 DEF HasQueued, InLoop
  <2>2. CASE u # t
    BY <1>1, <1>5, <2>1, <2>2 DEF WakeInv, NoLostWakeup, Notifying, Alone
  <2>3. CASE u = t
    <3>1. Missed(t)
      BY <1>1, <1>5, <2>1, <2>3 DEF Missed, HasQueued
    <3>. QED BY <1>1, <1>3, <3>1 DEF WakeInv, Notifying
  <2>. QED BY <2>2, <2>3
<1>. QED BY <1>2, <1>4, <1>5 DEF WakeInv, NoLostWakeup

\* begin_execution resets the counters and starts the workers.
LEMMA WakeBegin ==
  ASSUME TypeOK, WakeInv, Begin PROVE WakeInv'
<1>1. /\ \A u \in Threads : pc'[u] \in {"entry", "latch", pc[u]}
      /\ stop' = FALSE /\ \A g \in Groups : queued'[g] = 0
  BY DEF Begin, TypeOK, Types
<1>2. \A u \in Threads : ~HasQueued(u)' /\ ~Missed(u)' /\ ~stop'
  BY <1>1 DEF HasQueued, Missed, GroupsOf
<1>3. \A u, v \in Threads : {pc'[u], pc'[v]} \subseteq {"park_check", "park_wait"} => u = v
  BY <1>1 DEF WakeInv
<1>. QED BY <1>2, <1>3 DEF WakeInv, NoLostWakeup

\* Every step keeps WakeInv.
LEMMA WakeStep ==
  ASSUME TypeOK, WakeInv, [Next]_vars PROVE WakeInv'
<1>1. ASSUME NEW t \in Threads, Step(t) PROVE WakeInv'
  BY <1>1, WakeBegin, WakeLatch, WakeSubmit, WakePushLocal, WakePushMail, WakeAdvertise,
     WakeNotifyAll, WakeTryGroup, WakeTakeOwn, WakeTakeMail, WakeTakeSteal, WakeSink, WakeChain,
     WakeExec, WakeEndTask, WakeSignal, WakeCoopWait, WakeClearBegin, WakeClearMail,
     WakeClearSteal, WakeClearSink, WakeClearFinish, WakeWaitLoad, WakeWaitSnapshot,
     WakeSetStop, WakeJoin, WakeEntry, WakeLoopHead, WakeParkCheck, WakeParkWait DEF Step
<1>2. ASSUME NEW t \in Threads, Lock(t) \/ SpuriousWake(t) PROVE WakeInv'
  BY <1>2, WakeNotifyLock, WakeParkLock, WakeSpuriousWake DEF Lock
<1>3. CASE UNCHANGED vars
  BY <1>3 DEF vars, WakeInv, NoLostWakeup, Notifying, Missed, HasQueued, InLoop
<1>. QED BY <1>1, <1>2, <1>3 DEF Next, Finished

\* No thread sleeps over work it could take, nor over stop_: run_worker and wait_for_tasks
\* check the predicate under the mutex, and notify_workers takes it before it notifies.
THEOREM WakeupTheorem == Spec => []NoLostWakeup
<1>1. Init => WakeInv
  BY DEF Init, WakeInv, NoLostWakeup, Missed
<1>2. TypeOK /\ WakeInv /\ [Next]_vars => WakeInv'
  BY WakeStep
<1>3. WakeInv => NoLostWakeup
  BY DEF WakeInv
<1>. QED BY <1>1, <1>2, <1>3, TypeCorrect, PTL DEF Spec


-----------------------------------------------------------------------------
(***************************************************************************)
(* Where the tasks of SchedulerV3 are: proofs, for every program its       *)
(* clients run, that no interleaving of submitters, owners, thieves,       *)
(* helpers and clear_group loses a task or runs it twice, and that         *)
(* pending_ is the number of tasks submitted and not finished.             *)
(*                                                                         *)
(* The invariant says what a thread may be in the middle of (Control),     *)
(* that a call of submit is in progress exactly when its task counts as    *)
(* submitted (SubmitInv), and that the live tasks are those being pushed,  *)
(* queued, held by the thread that took them, or running, each in one way  *)
(* and at one place only (Apart and the three invariants named Once).      *)
(***************************************************************************)

Helping  == {"try", "take_own", "take_mail", "take_steal", "sink", "chain", "exec"}
Parking  == {"park_lock", "park_check", "park_wait", "asleep"}
Pushes   == {"push_local", "push_mail", "advertise"}
Clearing == {"clear_mail", "clear_steal", "clear_sink", "clear_finish"}
\* The calls that execute other tasks while they wait.
Helpful  == {"submit", "cwait", "waitall", "end"}
Callers  == {Main} \cup Foreign \cup Tasks

\* The call a thread is in: the loop of run_worker, none, or a call of the script.
Calling(t) == IF InLoop(t) THEN "loop" ELSE IF HasCall(t) THEN Call(t).op ELSE "idle"

\* A thread at h is in a call that gets there.
PlaceOK(t, h) ==
  /\ h \in Pushes   => Calling(t) = "submit"
  /\ h = "push_local" => t \in Workers
  /\ h \in Clearing => Calling(t) = "clear"
  /\ h = "latch"    => Calling(t) = "begin"
  /\ h \in {"set_stop", "join"} => Calling(t) = "end"
  /\ h = "wait_snapshot" => Calling(t) \in {"waitall", "end"}
  /\ h \in Parking  => Calling(t) \in {"loop", "waitall", "end"}
  /\ h \in Helping  => t \in Workers /\ Calling(t) \in {"loop"} \cup Helpful
  /\ h \in {"entry", "loop", "exited"} => Calling(t) = "loop"
  /\ h = "user"     => Calling(t) # "loop"

\* What runs below the i-th frame of t is the loop of run_worker or a call that helps.
Below(t, i) == IF i = 1 THEN t ELSE stack[t][i-1].task
BelowOK(t) ==
  \A i \in DOMAIN stack[t] :
    \/ Below(t, i) \in Workers \ {Main}
    \/ /\ Below(t, i) \in Callers
       /\ at[Below(t, i)] \in DOMAIN Script[Below(t, i)]
       /\ Script[Below(t, i)][at[Below(t, i)]].op \in Helpful
Control == \A t \in Threads : PlaceOK(t, Heading(t)) /\ BelowOK(t)

\* A task has at most one frame, and threads that are not workers run none.
StackOnce == /\ \A t, u \in Threads : \A i \in DOMAIN stack[t], j \in DOMAIN stack[u] :
                  stack[t][i].task = stack[u][j].task => t = u /\ i = j
             /\ \A f \in Foreign : stack[f] = <<>>

\* Only a thread on its way to execute or drop an item has one in its locals.
Items == \A t \in Threads : Heading(t) \notin Holding => reg[t].item = None

\* x is in a call that has begun: helping, or beyond its first step.
Busy(x) == \E t \in Threads : x \in Frames(t) /\ ~(x = Frame(t) /\ Heading(t) = "user")
\* The task of a submit call is submitted once the call has begun, not before.
SubmitInv ==
  \A x \in Callers : \A i \in DOMAIN Script[x] : Script[x][i].op = "submit" =>
    /\ i > at[x] => Script[x][i].arg \notin submitted
    /\ i = at[x] => (Script[x][i].arg \in submitted <=> Busy(x))

\* The queues: a deque of each worker and the mailbox, of each group.
Queue(g, w) == IF w = None THEN mailbox[g] ELSE deque[g][w]
Owners == Workers \cup {None}

\* The four ways a task can be somewhere.
Pushed  == {k \in Tasks : \E t \in Threads : \E x \in Frames(t) : Pushing(t, x, k)}
Waiting == {k \in Tasks : \E g \in Groups, w \in Owners : \E i \in DOMAIN Queue(g, w) :
                            Queue(g, w)[i] = k}
InHand  == {k \in Tasks : \E t \in Threads : reg[t].item = k}
Running == {k \in Tasks : \E t \in Threads : \E i \in DOMAIN stack[t] : stack[t][i].task = k}

QueueOnce ==
  \A g, h \in Groups, v, w \in Owners : \A i \in DOMAIN Queue(g, v), j \in DOMAIN Queue(h, w) :
    Queue(g, v)[i] = Queue(h, w)[j] => g = h /\ v = w /\ i = j
HandOnce == \A t, u \in Threads : reg[t].item # None /\ reg[t].item = reg[u].item => t = u
Apart == /\ Pushed \cap Waiting = {} /\ Pushed \cap InHand = {} /\ Pushed \cap Running = {}
         /\ Waiting \cap InHand = {} /\ Waiting \cap Running = {} /\ InHand \cap Running = {}
         /\ Live = Pushed \cup Waiting \cup InHand \cup Running
         /\ done \cup dropped \subseteq submitted

\* pending_ counts the live tasks.
Pending == IsFiniteSet(Live) /\ pending = Cardinality(Live)

\* The main thread has begun end_execution.
AtEnd == at[Main] \in DOMAIN Script[Main] /\ Script[Main][at[Main]].op = "end" /\ Busy(Main)
\* While the scheduler is down its workers have left and nothing is live; end_execution
\* begins when the other threads have made all their calls.
Down ==
  /\ ~up /\ pc[Main] # "latch" => \A w \in Workers \ {Main} : pc[w] = "exited"
  /\ AtEnd => \A f \in Foreign : pc[f] = "user" /\ ~HasCall(f)
  /\ ~up \/ Heading(Main) \in {"set_stop", "join"} => Live = {}

PlaceInv == /\ Control /\ StackOnce /\ Items /\ SubmitInv
            /\ QueueOnce /\ HandOnce /\ Apart /\ Pending /\ Down

-----------------------------------------------------------------------------
(* Frames and calls.                                                       *)

\* The elements of a sequence, and its last position.
LEMMA ElementOfSeq ==
  ASSUME NEW S, NEW s \in Seq(S)
  PROVE  /\ \A i \in DOMAIN s : s[i] \in S /\ i \in Nat /\ 1 <= i /\ i <= Len(s)
         /\ Len(s) \in Nat /\ DOMAIN s = 1 .. Len(s)
         /\ s # <<>> => Len(s) \in DOMAIN s
         /\ DOMAIN s # {} => s # <<>>
OBVIOUS

\* The frames of a thread are the thread itself and the tasks on its stack.
LEMMA FrameIn ==
  ASSUME TypeOK, NEW t \in Threads
  PROVE  /\ Frame(t) \in Frames(t) /\ t \in Frames(t)
         /\ Frames(t) \subseteq {t} \cup Tasks
         /\ Frame(t) \in {t} \cup Tasks
         /\ stack[t] # <<>> => Len(stack[t]) \in DOMAIN stack[t] /\ Top(t).task \in Tasks
<1>1. stack[t] \in Seq([task : Tasks, saved : Groups \cup {None}])
  BY DEF TypeOK, Types
<1>2. ASSUME NEW i \in DOMAIN stack[t] PROVE stack[t][i].task \in Tasks
  <2>1. stack[t][i] \in [task : Tasks, saved : Groups \cup {None}]
    BY <1>1, ElementOfSeq
  <2>. QED BY <2>1
<1>3. stack[t] # <<>> => Len(stack[t]) \in DOMAIN stack[t]
  BY <1>1
<1>. QED BY <1>2, <1>3 DEF Frame, Frames, Top

\* A frame belongs to one thread only.
LEMMA FramesApart ==
  ASSUME TypeOK, StackOnce, NEW t \in Threads, NEW u \in Threads, NEW x \in Frames(t),
         x \in Frames(u)
  PROVE  t = u
<1>1. CASE x \in Threads
  BY <1>1, FrameIn, TaskAssumption
<1>2. CASE x \notin Threads
  <2>1. PICK i \in DOMAIN stack[t] : x = stack[t][i].task
    BY <1>2 DEF Frames
  <2>2. PICK j \in DOMAIN stack[u] : x = stack[u][j].task
    BY <1>2 DEF Frames
  <2>. QED BY <2>1, <2>2 DEF StackOnce
<1>. QED BY <1>1, <1>2

\* What is below a frame of t is a frame of t, and not the topmost one.
LEMMA BelowIn ==
  ASSUME TypeOK, StackOnce, NEW t \in Threads, NEW i \in DOMAIN stack[t]
  PROVE  Below(t, i) \in Frames(t) /\ Below(t, i) # Frame(t)
<1>1. stack[t] \in Seq([task : Tasks, saved : Groups \cup {None}]) /\ stack[t] # <<>>
  <2>1. stack[t] \in Seq([task : Tasks, saved : Groups \cup {None}])
    BY DEF TypeOK, Types
  <2>. QED BY <2>1, ElementOfSeq
<1>2. Len(stack[t]) \in DOMAIN stack[t] /\ Frame(t) = stack[t][Len(stack[t])].task
      /\ Frame(t) \in Tasks
  BY <1>1, FrameIn DEF Frame, Top
<1>3. CASE i = 1
  BY <1>2, <1>3, TaskAssumption DEF Below, Frames
<1>4. CASE i # 1
  <2>1. i - 1 \in DOMAIN stack[t] /\ i - 1 # Len(stack[t])
    BY <1>1, <1>4
  <2>2. stack[t][i-1].task # stack[t][Len(stack[t])].task
    BY <2>1, <1>2 DEF StackOnce
  <2>. QED BY <1>2, <1>4, <2>1, <2>2 DEF Below, Frames
<1>. QED BY <1>3, <1>4

\* The frame of a thread in a call has a script; that of a thread in run_worker has none.
LEMMA CallingFacts ==
  ASSUME TypeOK, NEW t \in Threads
  PROVE  /\ \A op : Calls(t, op) => Calling(t) = op /\ Frame(t) \in Callers
                                    /\ at[Frame(t)] \in DOMAIN Script[Frame(t)]
                                    /\ Script[Frame(t)][at[Frame(t)]].op = op
                                    /\ Call(t) = Script[Frame(t)][at[Frame(t)]]
         /\ \A op : Calling(t) = op /\ op \notin {"loop", "idle"} => Calls(t, op)
         /\ Calling(t) = "loop" <=> InLoop(t)
         /\ InLoop(t) => Frame(t) \notin Callers
         /\ ~InLoop(t) => Frame(t) \in Callers
<1>1. Frame(t) \in {t} \cup Tasks
  BY FrameIn
<1>2. InLoop(t) => Frame(t) \notin Callers
  BY ThreadAssumption, TaskAssumption DEF InLoop, Frame, Callers, Threads
<1>3. ~InLoop(t) => Frame(t) \in Callers
  BY <1>1, FrameIn DEF InLoop, Frame, Callers, Threads, Workers
<1>4. ASSUME HasCall(t)
      PROVE  at[Frame(t)] \in DOMAIN Script[Frame(t)] /\ Call(t) \in Op
  <2>1. Frame(t) \in Callers
    BY <1>3, <1>4 DEF HasCall
  <2>2. Script[Frame(t)] \in Seq(Op) /\ at[Frame(t)] \in Nat \ {0}
    BY <2>1, TaskAssumption DEF Callers, TypeOK, Types
  <2>. QED BY <2>1, <2>2, <1>4 DEF HasCall, Call
<1>5. \A o \in Op : o.op \notin {"loop", "idle"}
  BY DEF Op
<1>. QED BY <1>2, <1>3, <1>4, <1>5 DEF Calls, Calling, Call, HasCall

-----------------------------------------------------------------------------
(* Steps that move no task: the thread walks on inside its call.           *)

\* Every other thread stays where it is, or is woken.
Others(t) == \A u \in Threads \ {t} :
               /\ ret'[u] = ret[u]
               /\ pc'[u] = pc[u] \/ (pc[u] = "asleep" /\ pc'[u] = "park_lock")
\* No task changes place, counter or history.
Still == /\ UNCHANGED <<deque, mailbox, stack, pending, submitted, done, dropped>>
         /\ \A u \in Threads : reg'[u].item = reg[u].item
\* t goes on inside its call: the call neither begins to push nor ends.
Passes(t) ==
  /\ Others(t) /\ UNCHANGED <<stack, at, up>>
  /\ PlaceOK(t, Heading(t)')
  /\ Calling(t) = "submit" => (Heading(t) = "user" <=> Heading(t)' = "user")
  /\ pc[t] # "exited"
  /\ pc[t] = "user" => HasCall(t)
  /\ t = Main => (pc[t] = "latch" <=> pc'[t] = "latch")
  /\ Heading(t)' \in {"set_stop", "join"} => Heading(t) \in {"set_stop", "join"} \/ pending = 0
  /\ Calling(t) = "end" /\ Heading(t) = "user" /\ Heading(t)' # "user" =>
       \A f \in Foreign : pc[f] = "user" /\ ~HasCall(f)
Walks(t) == /\ Passes(t) /\ Still
            /\ pc[t] = "advertise" <=> pc'[t] = "advertise"
            /\ Heading(t) \in Holding <=> Heading(t)' \in Holding

\* Nothing is live when pending_ is zero.
LEMMA NoneLive == ASSUME Pending, pending = 0 PROVE Live = {}
BY FS_EmptySet DEF Pending

\* A thread that is woken is still parking.
LEMMA OthersHead ==
  ASSUME NEW t \in Threads, Others(t), NEW u \in Threads \ {t}
  PROVE  \/ Heading(u)' = Heading(u)
         \/ Heading(u) = "asleep" /\ Heading(u)' = "park_lock"
BY DEF Others, Heading

\* Control depends on what the other threads are doing only through their calls.
LEMMA WalkControl ==
  ASSUME TypeOK, Control, NEW t \in Threads, Others(t), UNCHANGED <<stack, at>>,
         PlaceOK(t, Heading(t)')
  PROVE  Control'
<1>1. \A u \in Threads : Calling(u)' = Calling(u)
  BY DEF Calling, InLoop, HasCall, Call, Frame, Top
<1>2. \A u \in Threads : BelowOK(u)'
  BY DEF Control, BelowOK, Below
<1>3. ASSUME NEW u \in Threads PROVE PlaceOK(u, Heading(u))'
  <2>1. PlaceOK(u, Heading(u)')
    <3>1. CASE u = t
      BY <3>1
    <3>2. CASE u # t
      <4>1. Heading(u)' = Heading(u) \/ (Heading(u) = "asleep" /\ Heading(u)' = "park_lock")
        BY <3>2, OthersHead
      <4>2. PlaceOK(u, Heading(u))
        BY DEF Control
      <4>3. CASE Heading(u) = "asleep" /\ Heading(u)' = "park_lock"
        BY <4>2, <4>3 DEF PlaceOK, Pushes, Clearing, Parking, Helping
      <4>. QED BY <4>1, <4>2, <4>3
    <3>. QED BY <3>1, <3>2
  <2>. QED BY <2>1, <1>1 DEF PlaceOK
<1>. QED BY <1>2, <1>3 DEF Control

\* Items depends on where threads are heading.
LEMMA WalkItems ==
  ASSUME TypeOK, Items, NEW t \in Threads, Others(t), Still,
         Heading(t) \in Holding <=> Heading(t)' \in Holding
  PROVE  Items'
BY OthersHead DEF Items, Still, Holding

\* A submit call does not begin or end.
LEMMA WalkSubmit ==
  ASSUME TypeOK, PlaceInv, NEW t \in Threads, Others(t), UNCHANGED <<stack, at, submitted>>,
         Calling(t) = "submit" => (Heading(t) = "user" <=> Heading(t)' = "user")
  PROVE  SubmitInv'
<1>1. \A u \in Threads : Frame(u)' = Frame(u) /\ Frames(u)' = Frames(u)
  BY DEF Frame, Frames, Top
<1>2. ASSUME NEW x \in Callers, at[x] \in DOMAIN Script[x], Script[x][at[x]].op = "submit"
      PROVE  Busy(x)' <=> Busy(x)
  <2>1. ASSUME NEW u \in Threads, x = Frame(u)
        PROVE  Heading(u) = "user" <=> Heading(u)' = "user"
    <3>1. Calling(u) = "submit"
      <4>1. HasCall(u)
        <5>1. ~InLoop(u)
          BY <2>1, CallingFacts
        <5>2. Script[x] \in Seq(Op) /\ at[x] \in DOMAIN Script[x]
          BY <1>2, TaskAssumption DEF Callers
        <5>. QED BY <5>1, <5>2, <2>1, ElementOfSeq DEF HasCall
      <4>. QED BY <4>1, <1>2, <2>1 DEF Calling, Call, HasCall
    <3>2. CASE u = t
      BY <3>1, <3>2
    <3>3. CASE u # t
      BY <3>3, OthersHead
    <3>. QED BY <3>2, <3>3
  <2>. QED BY <1>1, <2>1 DEF Busy
<1>3. at' = at /\ submitted' = submitted
  OBVIOUS
<1>. QED BY <1>2, <1>3 DEF SubmitInv, PlaceInv

\* The tasks being pushed stay the same.
LEMMA PushedSame ==
  ASSUME NEW t \in Threads, Others(t), UNCHANGED <<stack, at, submitted>>,
         pc[t] = "advertise" <=> pc'[t] = "advertise"
  PROVE  Pushed' = Pushed
<1>1. \A u \in Threads : pc[u] = "advertise" <=> pc'[u] = "advertise"
  BY DEF Others
<1>2. \A u \in Threads : Frame(u)' = Frame(u) /\ Frames(u)' = Frames(u)
  BY DEF Frame, Frames, Top
<1>. QED BY <1>1, <1>2 DEF Pushed, Pushing

\* No task is moved.
LEMMA WalkApart ==
  ASSUME TypeOK, PlaceInv, NEW t \in Threads, Others(t), Still, at' = at,
         pc[t] = "advertise" <=> pc'[t] = "advertise"
  PROVE  QueueOnce' /\ HandOnce' /\ StackOnce' /\ Apart' /\ Pending'
<1>1. UNCHANGED <<deque, mailbox, stack, submitted, done, dropped, pending>>
  BY DEF Still
<1>2. StackOnce'
  BY <1>1 DEF StackOnce, PlaceInv
<1>3. QueueOnce'
  BY <1>1 DEF QueueOnce, Queue, PlaceInv
<1>4. HandOnce' /\ InHand' = InHand
  BY DEF HandOnce, InHand, PlaceInv, Still
<1>5. Waiting' = Waiting /\ Running' = Running /\ Live' = Live
  BY <1>1 DEF Waiting, Queue, Running, Live
<1>6. Pushed' = Pushed
  BY <1>1, PushedSame
<1>. QED BY <1>1, <1>2, <1>3, <1>4, <1>5, <1>6 DEF Apart, Pending, PlaceInv

\* The main thread begins to end only when the other threads are done.
LEMMA WalkDown ==
  ASSUME TypeOK, PlaceInv, NEW t \in Threads, Passes(t), Live' \subseteq Live
  PROVE  Down'
<1> USE DEF Passes, PlaceInv
<1>1. Main \in Threads /\ Main \notin Foreign
  BY ThreadAssumption DEF Main, Threads, Workers
<1>2. Live = {} => Live' = {}
  OBVIOUS
<1>3. ~up' /\ pc'[Main] # "latch" => \A w \in Workers \ {Main} : pc'[w] = "exited"
  BY <1>1 DEF Down, Others, Threads
<1>4. ASSUME AtEnd' PROVE \A f \in Foreign : pc[f] = "user" /\ ~HasCall(f)
  <2>1. CASE AtEnd
    BY <2>1 DEF Down
  <2>2. CASE ~AtEnd
    <3>1. PICK u \in Threads : Main \in Frames(u) /\ ~(Main = Frame(u) /\ Heading(u)' = "user")
      BY <1>4 DEF AtEnd, Busy, Frames, Frame, Top
    <3>2. u = Main
      BY <1>1, <3>1, FrameIn, TaskAssumption
    <3>3. Main = Frame(Main) /\ Heading(Main) = "user"
      BY <1>4, <2>2, <3>1, <3>2 DEF AtEnd, Busy
    <3>4. Main = t
      BY <1>1, <3>1, <3>2, <3>3, OthersHead
    <3>5. Calling(Main) = "end"
      <4>1. at[Main] \in DOMAIN Script[Main] /\ Script[Main][at[Main]].op = "end"
        BY <1>4 DEF AtEnd
      <4>2. Script[Main] \in Seq(Op)
        BY TaskAssumption
      <4>3. ~InLoop(Main)
        BY DEF InLoop
      <4>. QED BY <3>3, <4>1, <4>2, <4>3, ElementOfSeq DEF Calling, HasCall, Call
    <3>6. Heading(t)' # "user"
      BY <3>1, <3>2, <3>3, <3>4
    <3>. QED BY <3>3, <3>4, <3>5, <3>6
  <2>. QED BY <2>1, <2>2
<1>5. ASSUME AtEnd', NEW f \in Foreign PROVE pc'[f] = "user" /\ ~HasCall(f)'
  <2>1. f # t
    BY <1>4, <1>5
  <2>2. ~HasCall(f)'
    BY <1>4, <1>5 DEF HasCall, InLoop, Frame, Top
  <2>. QED BY <1>4, <1>5, <2>1, <2>2 DEF Others, Threads
<1>6. ~up' \/ Heading(Main)' \in {"set_stop", "join"} => Live' = {}
  <2>1. CASE Main = t
    BY <1>2, <2>1, NoneLive DEF Down
  <2>2. CASE Main # t
    BY <1>1, <1>2, <2>2, OthersHead DEF Down
  <2>. QED BY <2>1, <2>2
<1>. QED BY <1>3, <1>5, <1>6 DEF Down

\* A step that only walks keeps the invariant.
LEMMA WalkKeeps ==
  ASSUME TypeOK, PlaceInv, NEW t \in Threads, Walks(t)
  PROVE  PlaceInv'
<1>1. Control'
  BY WalkControl DEF PlaceInv, Walks, Passes
<1>2. Items' /\ SubmitInv'
  BY WalkItems, WalkSubmit DEF PlaceInv, Walks, Passes, Still
<1>3. QueueOnce' /\ HandOnce' /\ StackOnce' /\ Apart' /\ Pending'
  BY WalkApart DEF Walks, Passes
<1>4. Down'
  BY WalkDown DEF Walks, Live, Still
<1>. QED BY <1>1, <1>2, <1>3, <1>4 DEF PlaceInv

\* Going on from h to l inside a call is a walk.
Leads(t, h, l) ==
  /\ PlaceOK(t, l)
  /\ h \notin {"exited", "advertise", "latch"} /\ l \notin {"advertise", "latch"}
  /\ h \in Holding <=> l \in Holding
  /\ Calling(t) = "submit" => (h = "user" <=> l = "user")
  /\ h = "user" => HasCall(t)
  /\ l \in {"set_stop", "join"} => h \in {"set_stop", "join"} \/ pending = 0
  /\ Calling(t) = "end" /\ h = "user" /\ l # "user" =>
       \A f \in Foreign : pc[f] = "user" /\ ~HasCall(f)

LEMMA GoWalks ==
  ASSUME TypeOK, PlaceInv, NEW t \in Threads, NEW h, pc[t] = h,
         h \notin {"notify_lock", "notify_all"}, NEW l \in PCs \ {"notify_lock", "notify_all"},
         Goto(t, l), ret' = ret, Still, UNCHANGED <<at, up>>, Leads(t, h, l)
  PROVE  PlaceInv'
<1>1. Heading(t) = h /\ Heading(t)' = l /\ pc'[t] = l
  BY GoHeading, GotoKeeps DEF Heading, TypeOK
<1>2. Others(t)
  BY GotoKeeps DEF Others, TypeOK
<1>3. Walks(t)
  BY <1>1, <1>2 DEF Walks, Passes, Leads, Still
<1>. QED BY <1>3, WalkKeeps

\* The same when notify_workers is called on the way.
LEMMA NotifyWalks ==
  ASSUME TypeOK, PlaceInv, NEW t \in Threads, NEW h, pc[t] = h,
         h \notin {"notify_lock", "notify_all"}, NEW l \in Returns,
         NotifyThen(t, l), Still, UNCHANGED <<at, up>>, Leads(t, h, l)
  PROVE  PlaceInv'
<1>1. Heading(t) = h /\ Heading(t)' = l /\ pc'[t] = "notify_lock"
  BY NotifyHeading, NotifyKeeps DEF Heading, TypeOK
<1>2. Others(t)
  BY NotifyKeeps DEF Others, TypeOK
<1>3. Walks(t)
  BY <1>1, <1>2 DEF Walks, Passes, Leads, Still
<1>. QED BY <1>3, WalkKeeps

\* Where t is, and what it is in.
LEMMA AtPlace ==
  ASSUME TypeOK, PlaceInv, NEW t \in Threads, pc[t] \notin {"notify_lock", "notify_all"}
  PROVE  /\ PlaceOK(t, pc[t])
         /\ pc[t] \notin Holding => reg[t].item = None
BY DEF PlaceInv, Control, Items, Heading

\* Locals change, but not the item.
LEMMA ItemKept ==
  ASSUME TypeOK, PlaceInv, NEW t \in Threads,
         \/ \E n : Retry(t, n)
         \/ Forget(t) /\ pc[t] \notin Holding \cup {"notify_lock", "notify_all"}
         \/ \E g : reg' = [reg EXCEPT ![t].cand = @ \ {g}]
         \/ \E g : reg' = [reg EXCEPT ![t].cand = @ \ {g}, ![t].grp = g]
         \/ \E V : reg' = [reg EXCEPT ![t].victims = V]
         \/ reg' = [reg EXCEPT ![t].grp = None]
         \/ reg' = reg
  PROVE  \A u \in Threads : reg'[u].item = reg[u].item
<1>1. reg \in [Threads -> Regs]
  BY DEF TypeOK, Types, Regs
<1>2. pc[t] \notin Holding \cup {"notify_lock", "notify_all"} => reg[t].item = None
  BY AtPlace
<1>3. CASE \E n : Retry(t, n)
  <2>1. reg'[t].item = reg[t].item /\ \A u \in Threads \ {t} : reg'[u] = reg[u]
    BY <1>1, <1>3 DEF Retry, Regs
  <2>. QED BY <2>1
<1>4. CASE Forget(t) /\ pc[t] \notin Holding \cup {"notify_lock", "notify_all"}
  <2>1. reg[t].item = None
    BY <1>2, <1>4
  <2>2. reg'[t].item = None /\ \A u \in Threads \ {t} : reg'[u] = reg[u]
    BY <1>1, <1>4 DEF Forget, NoRegs, Regs
  <2>. QED BY <2>1, <2>2
<1>5. CASE \E g : reg' = [reg EXCEPT ![t].cand = @ \ {g}]
  <2>1. PICK g : reg' = [reg EXCEPT ![t].cand = @ \ {g}]
    BY <1>5
  <2>2. reg'[t].item = reg[t].item /\ \A u \in Threads \ {t} : reg'[u] = reg[u]
    BY <1>1, <2>1 DEF Regs
  <2>. QED BY <2>2
<1>6. CASE \E g : reg' = [reg EXCEPT ![t].cand = @ \ {g}, ![t].grp = g]
  <2>1. PICK g : reg' = [reg EXCEPT ![t].cand = @ \ {g}, ![t].grp = g]
    BY <1>6
  <2>2. reg'[t].item = reg[t].item /\ \A u \in Threads \ {t} : reg'[u] = reg[u]
    BY <1>1, <2>1 DEF Regs
  <2>. QED BY <2>2
<1>7. CASE \E V : reg' = [reg EXCEPT ![t].victims = V]
  <2>1. PICK V : reg' = [reg EXCEPT ![t].victims = V]
    BY <1>7
  <2>2. reg'[t].item = reg[t].item /\ \A u \in Threads \ {t} : reg'[u] = reg[u]
    BY <1>1, <2>1 DEF Regs
  <2>. QED BY <2>2
<1>8. CASE reg' = [reg EXCEPT ![t].grp = None]
  <2>1. reg'[t].item = reg[t].item /\ \A u \in Threads \ {t} : reg'[u] = reg[u]
    BY <1>1, <1>8 DEF Regs
  <2>. QED BY <2>1
<1>. QED BY <1>3, <1>4, <1>5, <1>6, <1>7, <1>8

\* Entry keeps PlaceInv.
LEMMA PlaceEntry ==
  ASSUME TypeOK, PlaceInv, NEW t \in Threads, Entry(t) PROVE PlaceInv'
<1>1. pc[t] = "entry" /\ Goto(t, "loop") /\ ret' = ret /\ Still /\ UNCHANGED <<at, up>>
  BY DEF Entry, Still, queueVars, flowVars, histVars
<1>2. PlaceOK(t, "entry")
  BY <1>1, AtPlace
<1>3. Leads(t, "entry", "loop")
  BY <1>2 DEF Leads, PlaceOK, Pushes, Clearing, Parking, Helping, Holding
<1>. QED BY <1>1, <1>3, GoWalks DEF PCs

\* LoopHead keeps PlaceInv.
LEMMA PlaceLoopHead ==
  ASSUME TypeOK, PlaceInv, NEW t \in Threads, LoopHead(t) PROVE PlaceInv'
<1>1. pc[t] = "loop" /\ ret' = ret /\ UNCHANGED <<at, up>>
  BY DEF LoopHead, flowVars
<1>2. Still
  BY ItemKept DEF LoopHead, Still, queueVars, flowVars, histVars
<1>3. PlaceOK(t, "loop")
  BY <1>1, AtPlace
<1>4. t \in Workers
  BY <1>3, CallingFacts DEF PlaceOK, InLoop
<1>5. Leads(t, "loop", "exited") /\ Leads(t, "loop", "try")
  BY <1>3, <1>4 DEF Leads, PlaceOK, Pushes, Clearing, Parking, Helping, Holding
<1>. QED BY <1>1, <1>2, <1>5, GoWalks DEF LoopHead, PCs

-----------------------------------------------------------------------------
(* Steps that end a call.                                                  *)

\* A thread whose call moves on does not move the calls of other frames.
LEMMA AdvanceAt ==
  ASSUME TypeOK, StackOnce, NEW t \in Threads, Frame(t) \in Callers, Advance(t)
  PROVE  /\ at'[Frame(t)] = at[Frame(t)] + 1 /\ at[Frame(t)] \in Nat \ {0}
         /\ \A x : x # Frame(t) => at'[x] = at[x]
         /\ \A u \in Threads \ {t} : \A x \in Frames(u) : x # Frame(t)
<1>1. at \in [Callers -> Nat \ {0}]
  BY DEF TypeOK, Types, Callers
<1>2. \A u \in Threads \ {t} : \A x \in Frames(u) : x # Frame(t)
  BY FrameIn, FramesApart
<1>. QED BY <1>1, <1>2 DEF Advance

\* What the end of a call of t, other than a push, leaves true of the calls.
LEMMA AdvanceControl ==
  ASSUME TypeOK, PlaceInv, NEW t \in Threads, ~InLoop(t), Advance(t), Others(t),
         stack' = stack, Heading(t)' = "user"
  PROVE  Control'
<1>1. Frame(t) \in Callers
  BY CallingFacts
<1>2. /\ \A x : x # Frame(t) => at'[x] = at[x]
      /\ \A u \in Threads \ {t} : \A x \in Frames(u) : x # Frame(t)
  BY <1>1, AdvanceAt DEF PlaceInv
<1>3. \A u \in Threads \ {t} : Calling(u)' = Calling(u)
  BY <1>2, FrameIn DEF Calling, InLoop, HasCall, Call, Frame, Top
<1>4. ASSUME NEW u \in Threads PROVE BelowOK(u)'
  <2>1. \A i \in DOMAIN stack[u] : Below(u, i) # Frame(t)
    BY <1>2, BelowIn DEF PlaceInv
  <2>2. BelowOK(u)
    BY DEF PlaceInv, Control
  <2>. QED BY <1>2, <2>1, <2>2 DEF BelowOK, Below
<1>5. ASSUME NEW u \in Threads \ {t} PROVE PlaceOK(u, Heading(u))'
  <2>1. PlaceOK(u, Heading(u))
    BY DEF PlaceInv, Control
  <2>2. PlaceOK(u, Heading(u)')
    BY <2>1, OthersHead DEF PlaceOK, Pushes, Clearing, Parking, Helping
  <2>. QED BY <1>3, <2>2 DEF PlaceOK
<1>6. PlaceOK(t, Heading(t))'
  <2>1. ~InLoop(t)'
    BY DEF InLoop
  <2>2. Calling(t)' # "loop"
    <3>1. HasCall(t)' => Call(t)'.op # "loop"
      <4>1. Frame(t)' = Frame(t) /\ at'[Frame(t)] \in Nat \ {0}
        BY <1>1, AdvanceAt DEF Frame, Top, PlaceInv
      <4>2. Script[Frame(t)] \in Seq(Op)
        BY <1>1, TaskAssumption DEF Callers
      <4>3. HasCall(t)' => at'[Frame(t)] \in DOMAIN Script[Frame(t)]
        BY <4>1, <4>2, ElementOfSeq DEF HasCall
      <4>4. HasCall(t)' => Call(t)' \in Op
        BY <4>1, <4>2, <4>3, ElementOfSeq DEF Call
      <4>. QED BY <4>4 DEF Op
    <3>. QED BY <2>1, <3>1 DEF Calling
  <2>. QED BY <2>2 DEF PlaceOK, Pushes, Clearing, Parking, Helping
<1>. QED BY <1>4, <1>5, <1>6 DEF Control

\* The next submit call of t has not begun, and those of other frames are where they were.
LEMMA AdvanceSubmit ==
  ASSUME TypeOK, PlaceInv, NEW t \in Threads, ~InLoop(t), Advance(t), Others(t),
         UNCHANGED <<stack, submitted>>, Heading(t)' = "user"
  PROVE  SubmitInv'
<1>1. Frame(t) \in Callers
  BY CallingFacts
<1>2. /\ at'[Frame(t)] = at[Frame(t)] + 1 /\ at[Frame(t)] \in Nat \ {0}
      /\ \A x : x # Frame(t) => at'[x] = at[x]
      /\ \A u \in Threads \ {t} : \A x \in Frames(u) : x # Frame(t)
  BY <1>1, AdvanceAt DEF PlaceInv
<1>3. \A u \in Threads : Frame(u)' = Frame(u) /\ Frames(u)' = Frames(u)
  BY DEF Frame, Frames, Top
<1>4. \A x : x # Frame(t) => (Busy(x)' <=> Busy(x))
  BY <1>3, OthersHead DEF Busy
<1>5. \A x : x = Frame(t) => ~Busy(x)'
  BY <1>2, <1>3 DEF Busy
<1>6. ASSUME NEW x \in Callers, NEW i \in DOMAIN Script[x], Script[x][i].op = "submit"
      PROVE  /\ i > at'[x] => Script[x][i].arg \notin submitted
             /\ i = at'[x] => (Script[x][i].arg \in submitted <=> Busy(x)')
  <2>1. /\ i > at[x] => Script[x][i].arg \notin submitted
        /\ i = at[x] => (Script[x][i].arg \in submitted <=> Busy(x))
    BY <1>6 DEF PlaceInv, SubmitInv
  <2>2. CASE x # Frame(t)
    BY <1>2, <1>4, <2>1, <2>2
  <2>3. CASE x = Frame(t)
    <3>1. i \in Nat
      BY TaskAssumption, ElementOfSeq DEF Callers
    <3>. QED BY <1>2, <1>5, <2>1, <2>3, <3>1
  <2>. QED BY <2>2, <2>3
<1>. QED BY <1>6 DEF SubmitInv

\* A call that ends was not pushing any more, and the next one is not pushing yet.
LEMMA AdvanceApart ==
  ASSUME TypeOK, PlaceInv, NEW t \in Threads, ~InLoop(t), Advance(t), Others(t), Still,
         Calling(t) # "submit" \/ pc[t] = "advertise", pc'[t] # "advertise"
  PROVE  QueueOnce' /\ HandOnce' /\ StackOnce' /\ Apart' /\ Pending'
<1>1. UNCHANGED <<deque, mailbox, stack, submitted, done, dropped, pending>>
  BY DEF Still
<1>2. StackOnce'
  BY <1>1 DEF StackOnce, PlaceInv
<1>3. QueueOnce'
  BY <1>1 DEF QueueOnce, Queue, PlaceInv
<1>4. HandOnce' /\ InHand' = InHand
  BY DEF HandOnce, InHand, PlaceInv, Still
<1>5. Waiting' = Waiting /\ Running' = Running /\ Live' = Live
  BY <1>1 DEF Waiting, Queue, Running, Live
<1>6. Frame(t) \in Callers
  BY CallingFacts
<1>7. /\ at'[Frame(t)] = at[Frame(t)] + 1 /\ at[Frame(t)] \in Nat \ {0}
      /\ \A x : x # Frame(t) => at'[x] = at[x]
      /\ \A u \in Threads \ {t} : \A x \in Frames(u) : x # Frame(t)
  BY <1>6, AdvanceAt DEF PlaceInv
<1>8. \A u \in Threads : Frame(u)' = Frame(u) /\ Frames(u)' = Frames(u)
  BY <1>1 DEF Frame, Frames, Top
<1>9. ASSUME NEW k \in Tasks, NEW u \in Threads, NEW x \in Frames(u)
      PROVE  Pushing(u, x, k)' <=> Pushing(u, x, k)
  <2>1. CASE x # Frame(t)
    BY <1>1, <1>7, <1>8, <2>1 DEF Pushing, Others
  <2>2. CASE x = Frame(t)
    <3>1. u = t
      BY <1>7, <2>2
    <3>2. Script[x] \in Seq(Op) /\ at[x] \in Nat \ {0}
      BY <1>6, <1>7, <2>2, TaskAssumption DEF Callers
    <3>3. ~Pushing(t, x, k)
      <4>1. CASE pc[t] = "advertise"
        BY <2>2, <4>1 DEF Pushing
      <4>2. CASE Calling(t) # "submit"
        BY <2>2, <3>2, <4>2 DEF Pushing, Calling, HasCall, Call
      <4>. QED BY <4>1, <4>2
    <3>4. ASSUME Pushing(t, x, k)' PROVE FALSE
      <4>1. k \in submitted /\ at'[x] <= Len(Script[x])
            /\ Script[x][at'[x]] = [op |-> "submit", arg |-> k]
        BY <1>1, <3>4 DEF Pushing
      <4>2. at'[x] \in DOMAIN Script[x] /\ at'[x] > at[x]
        BY <1>7, <2>2, <3>2, <4>1, ElementOfSeq
      <4>. QED BY <1>6, <2>2, <4>1, <4>2 DEF PlaceInv, SubmitInv
    <3>. QED BY <3>1, <3>3, <3>4
  <2>. QED BY <2>1, <2>2
<1>10. Pushed' = Pushed
  BY <1>8, <1>9 DEF Pushed
<1>. QED BY <1>1, <1>2, <1>3, <1>4, <1>5, <1>10 DEF Apart, Pending, PlaceInv

\* The end of a call does not begin end_execution.
LEMMA AdvanceAtEnd ==
  ASSUME TypeOK, PlaceInv, NEW t \in Threads, HasCall(t), Advance(t), Others(t),
         stack' = stack, Heading(t)' = "user"
  PROVE  AtEnd' => \A f \in Foreign : pc'[f] = "user" /\ ~HasCall(f)'
<1>1. Frame(t) \in Callers
  BY CallingFacts DEF HasCall
<1>2. /\ \A x : x # Frame(t) => at'[x] = at[x]
      /\ \A u \in Threads \ {t} : \A x \in Frames(u) : x # Frame(t)
  BY <1>1, AdvanceAt DEF PlaceInv
<1>3. \A u \in Threads : Frame(u)' = Frame(u) /\ Frames(u)' = Frames(u)
  BY DEF Frame, Frames, Top
<1>4. ASSUME AtEnd' PROVE AtEnd
  <2>1. Main # Frame(t)
    BY <1>2, <1>3, <1>4 DEF AtEnd, Busy
  <2>2. Busy(Main)
    BY <1>3, <1>4, <2>1, OthersHead DEF AtEnd, Busy
  <2>. QED BY <1>2, <1>4, <2>1, <2>2 DEF AtEnd
<1>5. ASSUME AtEnd, NEW f \in Foreign PROVE pc'[f] = "user" /\ ~HasCall(f)'
  <2>1. pc[f] = "user" /\ ~HasCall(f)
    BY <1>5 DEF PlaceInv, Down
  <2>2. f # t /\ f \in Threads
    BY <2>1 DEF Threads
  <2>3. HasCall(f)' <=> HasCall(f)
    BY <1>2, <2>2, FrameIn DEF HasCall, InLoop, Frame, Top
  <2>. QED BY <2>1, <2>2, <2>3 DEF Others
<1>. QED BY <1>4, <1>5

\* The end of a call that moves no task keeps the invariant.
LEMMA AdvanceKeepsPlace ==
  ASSUME TypeOK, PlaceInv, NEW t \in Threads, HasCall(t), Advance(t), Others(t), Still,
         Calling(t) # "submit" \/ pc[t] = "advertise", pc'[t] # "advertise",
         Heading(t)' = "user", Heading(t) \notin Holding,
         ~up' /\ pc'[Main] # "latch" => \A w \in Workers \ {Main} : pc'[w] = "exited",
         ~up' => Live = {} \/ ~up
  PROVE  PlaceInv'
<1>1. ~InLoop(t) /\ Main \in Threads
  BY ThreadAssumption DEF HasCall, Main, Threads, Workers
<1>2. Control' /\ SubmitInv'
  BY <1>1, AdvanceControl, AdvanceSubmit DEF Still
<1>3. Items'
  BY WalkItems DEF PlaceInv, Holding
<1>4. QueueOnce' /\ HandOnce' /\ StackOnce' /\ Apart' /\ Pending'
  BY <1>1, AdvanceApart
<1>5. Live' = Live
  BY DEF Live, Still
<1>6. ~up' \/ Heading(Main)' \in {"set_stop", "join"} => Live' = {}
  <2>1. CASE ~up'
    BY <1>5, <2>1 DEF PlaceInv, Down
  <2>2. CASE Heading(Main)' \in {"set_stop", "join"}
    <3>1. Heading(Main) \in {"set_stop", "join"}
      BY <1>1, <2>2, OthersHead
    <3>. QED BY <1>5, <3>1 DEF PlaceInv, Down
  <2>. QED BY <2>1, <2>2
<1>7. AtEnd' => \A f \in Foreign : pc'[f] = "user" /\ ~HasCall(f)'
  BY AdvanceAtEnd DEF Still
<1>8. Down'
  BY <1>6, <1>7 DEF Down
<1>. QED BY <1>2, <1>3, <1>4, <1>8 DEF PlaceInv

-----------------------------------------------------------------------------
(* The actions that move no task.                                          *)

\* NotifyLock keeps PlaceInv.
LEMMA PlaceNotifyLock ==
  ASSUME TypeOK, PlaceInv, NEW t \in Threads, NotifyLock(t) PROVE PlaceInv'
<1>1. /\ pc[t] = "notify_lock" /\ pc'[t] = "notify_all" /\ ret' = ret
      /\ \A u \in Threads \ {t} : pc'[u] = pc[u]
  BY GotoKeeps DEF NotifyLock, TypeOK, PCs
<1>2. Still /\ Others(t) /\ UNCHANGED <<at, up>>
  BY <1>1 DEF NotifyLock, Still, Others, queueVars, flowVars, histVars
<1>3. Heading(t)' = Heading(t) /\ Heading(t) \in Returns
  BY <1>1 DEF Heading, TypeOK, Types
<1>4. PlaceOK(t, Heading(t)')
  BY <1>3 DEF PlaceInv, Control
<1>. QED BY <1>1, <1>2, <1>3, <1>4, WalkKeeps DEF Walks, Passes, Still, Returns

\* NotifyAll keeps PlaceInv.
LEMMA PlaceNotifyAll ==
  ASSUME TypeOK, PlaceInv, NEW t \in Threads, NotifyAll(t) PROVE PlaceInv'
<1>1. /\ pc[t] = "notify_all" /\ pc'[t] = ret[t] /\ ret[t] \in Returns
      /\ \A u \in Threads \ {t} : pc'[u] = IF pc[u] = "asleep" THEN "park_lock" ELSE pc[u]
      /\ \A u \in Threads \ {t} : ret'[u] = ret[u]
  BY DEF NotifyAll, TypeOK, Types
<1>2. Still /\ Others(t) /\ UNCHANGED <<at, up>>
  BY <1>1 DEF NotifyAll, Still, Others, queueVars, flowVars, histVars
<1>3. Heading(t)' = Heading(t) /\ Heading(t) \in Returns
  BY <1>1 DEF Heading, Returns
<1>4. PlaceOK(t, Heading(t)')
  BY <1>3 DEF PlaceInv, Control
<1>. QED BY <1>1, <1>2, <1>3, <1>4, WalkKeeps DEF Walks, Passes, Still, Returns

\* TryGroup keeps PlaceInv: a search that found nothing goes on with the call it is part of.
LEMMA PlaceTryGroup ==
  ASSUME TypeOK, PlaceInv, NEW t \in Threads, TryGroup(t) PROVE PlaceInv'
<1>1. pc[t] = "try" /\ ret' = ret /\ UNCHANGED <<at, up>>
  BY DEF TryGroup, flowVars
<1>2. Still
  <2>1. \A u \in Threads : reg'[u].item = reg[u].item
    BY <1>1, ItemKept DEF TryGroup, Holding
  <2>. QED BY <2>1 DEF TryGroup, Still, queueVars, flowVars, histVars
<1>3. PlaceOK(t, "try")
  BY <1>1, AtPlace
<1>4. t \in Workers /\ Calling(t) \in {"loop"} \cup Helpful
  BY <1>3 DEF PlaceOK, Helping
<1>5. Leads(t, "try", "try") /\ Leads(t, "try", "take_own")
  BY <1>4 DEF Leads, PlaceOK, Pushes, Clearing, Parking, Helping, Holding, Helpful
<1>6. Leads(t, "try", Caller(t)) /\ Caller(t) \in {"park_lock", "push_mail", "user", "wait_snapshot"}
  <2>1. CASE Calling(t) = "loop"
    <3>1. Caller(t) = "park_lock"
      BY <2>1, CallingFacts DEF Caller
    <3>. QED BY <2>1, <3>1 DEF Leads, PlaceOK, Pushes, Clearing, Parking, Helping, Holding
  <2>2. CASE Calling(t) = "submit"
    <3>1. ~InLoop(t) /\ Calls(t, "submit") /\ ~Calls(t, "cwait")
      BY <2>2, CallingFacts
    <3>2. Caller(t) = "push_mail"
      BY <3>1 DEF Caller
    <3>. QED BY <2>2, <3>2 DEF Leads, PlaceOK, Pushes, Clearing, Parking, Helping, Holding
  <2>3. CASE Calling(t) = "cwait"
    <3>1. ~InLoop(t) /\ Calls(t, "cwait") /\ ~Calls(t, "submit")
      BY <2>3, CallingFacts
    <3>2. Caller(t) = "user"
      BY <3>1 DEF Caller
    <3>. QED BY <2>3, <3>2 DEF Leads, PlaceOK, Pushes, Clearing, Parking, Helping, Holding
  <2>4. CASE Calling(t) \in {"waitall", "end"}
    <3>1. ~InLoop(t) /\ ~Calls(t, "cwait") /\ ~Calls(t, "submit")
      BY <2>4, CallingFacts
    <3>2. Caller(t) = "wait_snapshot"
      BY <3>1 DEF Caller
    <3>. QED BY <2>4, <3>2 DEF Leads, PlaceOK, Pushes, Clearing, Parking, Helping, Holding
  <2>. QED BY <1>4, <2>1, <2>2, <2>3, <2>4 DEF Helpful
<1>7. CASE pc' = pc
  <2>1. Goto(t, "try")
    BY <1>1, <1>7 DEF Goto, TypeOK, Types
  <2>. QED BY <1>1, <1>2, <1>5, <2>1, GoWalks DEF PCs
<1>8. CASE Goto(t, "try") \/ Goto(t, "take_own") \/ Goto(t, Caller(t))
  BY <1>1, <1>2, <1>5, <1>6, <1>8, GoWalks DEF PCs
<1>. QED BY <1>7, <1>8 DEF TryGroup

\* Sink keeps PlaceInv.
LEMMA PlaceSink ==
  ASSUME TypeOK, PlaceInv, NEW t \in Threads, Sink(t) PROVE PlaceInv'
<1>1. pc[t] = "sink" /\ Goto(t, "chain") /\ ret' = ret /\ Still /\ UNCHANGED <<at, up>>
  BY DEF Sink, Still, queueVars, flowVars, histVars
<1>2. PlaceOK(t, "sink")
  BY <1>1, AtPlace
<1>3. Leads(t, "sink", "chain")
  BY <1>2 DEF Leads, PlaceOK, Pushes, Clearing, Parking, Helping, Holding
<1>. QED BY <1>1, <1>3, GoWalks DEF PCs

\* Chain keeps PlaceInv.
LEMMA PlaceChain ==
  ASSUME TypeOK, PlaceInv, NEW t \in Threads, Chain(t) PROVE PlaceInv'
<1>1. pc[t] = "chain" /\ Still /\ UNCHANGED <<at, up>>
  BY DEF Chain, Still, queueVars, flowVars, histVars
<1>2. PlaceOK(t, "chain")
  BY <1>1, AtPlace
<1>3. Leads(t, "chain", "exec")
  BY <1>2 DEF Leads, PlaceOK, Pushes, Clearing, Parking, Helping, Holding
<1>. QED BY <1>1, <1>3, GoWalks, NotifyWalks DEF Chain, PCs, Returns

\* ClearBegin keeps PlaceInv.
LEMMA PlaceClearBegin ==
  ASSUME TypeOK, PlaceInv, NEW t \in Threads, ClearBegin(t) PROVE PlaceInv'
<1>1. /\ pc[t] = "user" /\ Goto(t, "clear_mail") /\ ret' = ret /\ Still /\ UNCHANGED <<at, up>>
      /\ Calls(t, "clear")
  BY DEF ClearBegin, In, Still, queueVars, flowVars, histVars
<1>2. Calling(t) = "clear" /\ HasCall(t)
  BY <1>1, CallingFacts DEF Calls
<1>3. Leads(t, "user", "clear_mail")
  BY <1>2 DEF Leads, PlaceOK, Pushes, Clearing, Parking, Helping, Holding
<1>. QED BY <1>1, <1>3, GoWalks DEF PCs

\* ClearSink keeps PlaceInv.
LEMMA PlaceClearSink ==
  ASSUME TypeOK, PlaceInv, NEW t \in Threads, ClearSink(t) PROVE PlaceInv'
<1>1. /\ pc[t] = "clear_sink" /\ Goto(t, "clear_finish") /\ ret' = ret /\ Still
      /\ UNCHANGED <<at, up>>
  BY DEF ClearSink, In, Still, queueVars, flowVars, histVars
<1>2. PlaceOK(t, "clear_sink")
  BY <1>1, AtPlace
<1>3. Leads(t, "clear_sink", "clear_finish")
  BY <1>2 DEF Leads, PlaceOK, Pushes, Clearing, Parking, Helping, Holding
<1>. QED BY <1>1, <1>3, GoWalks DEF PCs

\* SetStop keeps PlaceInv.
LEMMA PlaceSetStop ==
  ASSUME TypeOK, PlaceInv, NEW t \in Threads, SetStop(t) PROVE PlaceInv'
<1>1. pc[t] = "set_stop" /\ NotifyThen(t, "join") /\ Still /\ UNCHANGED <<at, up>>
  BY DEF SetStop, Still, queueVars, flowVars, histVars
<1>2. PlaceOK(t, "set_stop")
  BY <1>1, AtPlace
<1>3. Leads(t, "set_stop", "join")
  BY <1>2 DEF Leads, PlaceOK, Pushes, Clearing, Parking, Helping, Holding
<1>. QED BY <1>1, <1>3, NotifyWalks DEF Returns

\* ParkLock keeps PlaceInv.
LEMMA PlaceParkLock ==
  ASSUME TypeOK, PlaceInv, NEW t \in Threads, ParkLock(t) PROVE PlaceInv'
<1>1. pc[t] = "park_lock" /\ Goto(t, "park_check") /\ ret' = ret /\ Still /\ UNCHANGED <<at, up>>
  BY DEF ParkLock, Still, queueVars, flowVars, histVars
<1>2. PlaceOK(t, "park_lock")
  BY <1>1, AtPlace
<1>3. Leads(t, "park_lock", "park_check")
  BY <1>2 DEF Leads, PlaceOK, Pushes, Clearing, Parking, Helping, Holding
<1>. QED BY <1>1, <1>3, GoWalks DEF PCs

\* SpuriousWake keeps PlaceInv.
LEMMA PlaceSpuriousWake ==
  ASSUME TypeOK, PlaceInv, NEW t \in Threads, SpuriousWake(t) PROVE PlaceInv'
<1>1. pc[t] = "asleep" /\ Goto(t, "park_lock") /\ ret' = ret /\ Still /\ UNCHANGED <<at, up>>
  BY DEF SpuriousWake, Still, queueVars, flowVars, histVars
<1>2. PlaceOK(t, "asleep")
  BY <1>1, AtPlace
<1>3. Leads(t, "asleep", "park_lock")
  BY <1>2 DEF Leads, PlaceOK, Pushes, Clearing, Parking, Helping, Holding
<1>. QED BY <1>1, <1>3, GoWalks DEF PCs

\* Where a parked thread goes on: the loop of run_worker, or its wait.
LEMMA ResumeLeads ==
  ASSUME TypeOK, PlaceInv, NEW t \in Threads, NEW h \in {"park_check", "park_wait"}, pc[t] = h
  PROVE  /\ Leads(t, h, IF InLoop(t) THEN "loop" ELSE "user")
         /\ Leads(t, h, "park_wait") /\ Leads(t, h, "asleep")
<1>1. PlaceOK(t, h)
  BY AtPlace
<1>2. Calling(t) \in {"loop", "waitall", "end"} /\ (Calling(t) = "loop" <=> InLoop(t))
  BY <1>1, CallingFacts DEF PlaceOK, Parking
<1>. QED BY <1>2 DEF Leads, PlaceOK, Pushes, Clearing, Parking, Helping, Holding

\* ParkCheck keeps PlaceInv.
LEMMA PlaceParkCheck ==
  ASSUME TypeOK, PlaceInv, NEW t \in Threads, ParkCheck(t) PROVE PlaceInv'
<1>1. pc[t] = "park_check" /\ ret' = ret /\ UNCHANGED <<at, up>>
  BY DEF ParkCheck, flowVars
<1>2. Still
  BY ItemKept DEF ParkCheck, Still, queueVars, flowVars, histVars
<1>. QED BY <1>1, <1>2, ResumeLeads, GoWalks DEF ParkCheck, Resume, PCs

\* ParkWait keeps PlaceInv.
LEMMA PlaceParkWait ==
  ASSUME TypeOK, PlaceInv, NEW t \in Threads, ParkWait(t) PROVE PlaceInv'
<1>1. pc[t] = "park_wait" /\ ret' = ret /\ UNCHANGED <<at, up>>
  BY DEF ParkWait, flowVars
<1>2. Still
  <2>1. \A u \in Threads : reg'[u].item = reg[u].item
    BY <1>1, ItemKept DEF ParkWait, Holding
  <2>. QED BY <2>1 DEF ParkWait, Still, queueVars, flowVars, histVars
<1>3. CASE pc' = pc
  <2>1. Goto(t, "park_wait")
    BY <1>1, <1>3 DEF Goto, TypeOK, Types
  <2>. QED BY <1>1, <1>2, <2>1, ResumeLeads, GoWalks DEF PCs
<1>4. CASE Goto(t, "asleep") \/ Resume(t)
  BY <1>1, <1>2, <1>4, ResumeLeads, GoWalks DEF Resume, PCs
<1>. QED BY <1>3, <1>4 DEF ParkWait

\* begin, wait_for_tasks and end are calls of the main thread, waits on events of workers.
LEMMA CallersOf ==
  ASSUME TypeOK, StackOnce, NEW t \in Threads
  PROVE  /\ \A op \in {"begin", "waitall", "end"} : Calls(t, op) => t = Main /\ Frame(t) = Main
         /\ Calls(t, "cwait") => t \in Workers
         /\ Main \in Workers /\ Main \in Threads /\ Main \notin Foreign
<1>1. Main \in Workers /\ Main \in Threads /\ Main \notin Foreign
  BY ThreadAssumption DEF Main, Threads, Workers
<1>2. ASSUME NEW op, Calls(t, op)
      PROVE  /\ op \in {"begin", "waitall", "end"} => Frame(t) = Main
             /\ op = "cwait" => Frame(t) \notin Foreign
  <2>1. /\ Frame(t) \in Callers /\ at[Frame(t)] \in DOMAIN Script[Frame(t)]
        /\ Script[Frame(t)][at[Frame(t)]].op = op
    BY <1>2, CallingFacts
  <2>2. Frame(t) \in DOMAIN Script
    BY <2>1, TaskAssumption DEF Callers
  <2>. QED BY <2>1, <2>2, ScriptAssumption
<1>3. Frame(t) = Main => t = Main
  BY <1>1, FrameIn, TaskAssumption
<1>4. t \in Foreign => Frame(t) = t
  BY DEF StackOnce, Frame
<1>. QED BY <1>1, <1>2, <1>3, <1>4 DEF Threads

\* The end of a call while the scheduler stays up or down.
LEMMA AdvanceSame ==
  ASSUME TypeOK, PlaceInv, NEW t \in Threads, HasCall(t), Advance(t), Others(t), Still,
         up' = up, Calling(t) # "submit" \/ pc[t] = "advertise",
         pc'[t] \notin {"advertise", "latch"},
         pc[t] # "latch", Heading(t)' = "user", Heading(t) \notin Holding
  PROVE  PlaceInv'
<1>1. Main \in Threads /\ Workers \subseteq Threads
  BY ThreadAssumption DEF Main, Threads, Workers
<1>2. pc[t] # "exited"
  BY AtPlace, CallingFacts DEF HasCall, PlaceOK
<1>3. ~up' /\ pc'[Main] # "latch" => \A w \in Workers \ {Main} : pc'[w] = "exited"
  BY <1>1, <1>2 DEF PlaceInv, Down, Others
<1>. QED BY <1>3, AdvanceKeepsPlace

\* Signal keeps PlaceInv.
LEMMA PlaceSignal ==
  ASSUME TypeOK, PlaceInv, NEW t \in Threads, Signal(t) PROVE PlaceInv'
<1>1. /\ pc[t] = "user" /\ Calls(t, "signal") /\ Advance(t) /\ pc' = pc /\ ret' = ret /\ up' = up
      /\ Still
  BY DEF Signal, In, Still, queueVars, flowVars, histVars
<1>2. HasCall(t) /\ Calling(t) = "signal"
  BY <1>1, CallingFacts DEF Calls
<1>3. Heading(t) = "user" /\ Heading(t)' = "user" /\ Others(t)
  BY <1>1 DEF Heading, Others
<1>. QED BY <1>1, <1>2, <1>3, AdvanceSame DEF Holding

\* CoopWait keeps PlaceInv.
LEMMA PlaceCoopWait ==
  ASSUME TypeOK, PlaceInv, NEW t \in Threads, CoopWait(t) PROVE PlaceInv'
<1>1. pc[t] = "user" /\ Calls(t, "cwait") /\ ret' = ret /\ up' = up
  BY DEF CoopWait, In
<1>2. HasCall(t) /\ Calling(t) = "cwait" /\ t \in Workers
  BY <1>1, CallingFacts, CallersOf DEF Calls, PlaceInv
<1>3. CASE Advance(t) /\ UNCHANGED <<pc, reg>>
  <2>1. Still /\ Heading(t) = "user" /\ Heading(t)' = "user" /\ Others(t)
    BY <1>1, <1>3 DEF CoopWait, Still, Heading, Others, queueVars, flowVars, histVars
  <2>. QED BY <1>1, <1>2, <1>3, <2>1, AdvanceSame DEF Holding
<1>4. CASE TryOne(t) /\ at' = at
  <2>1. Still
    BY <1>4, ItemKept DEF CoopWait, TryOne, Still, queueVars, flowVars, histVars
  <2>2. Leads(t, "user", "try")
    BY <1>2 DEF Leads, PlaceOK, Pushes, Clearing, Parking, Helping, Holding, Helpful
  <2>. QED BY <1>1, <1>4, <2>1, <2>2, GoWalks DEF TryOne, PCs
<1>. QED BY <1>3, <1>4 DEF CoopWait

\* The end of a wait of the main thread, at h, when nothing is pending.
LEMMA WaitOverKeeps ==
  ASSUME TypeOK, PlaceInv, NEW t \in Threads, NEW h \in {"user", "wait_snapshot"}, pc[t] = h,
         Waits(t), WaitOver(t), pending = 0, ret' = ret, up' = up, Still,
         h = "user" => (Calls(t, "end") => \A f \in Foreign : pc[f] = "user" /\ ~HasCall(f))
  PROVE  PlaceInv'
<1>1. HasCall(t) /\ Calling(t) \in {"waitall", "end"}
      /\ (Calls(t, "end") <=> Calling(t) = "end")
  BY CallingFacts DEF Waits, Calls
<1>2. CASE Calls(t, "end")
  <2>1. Goto(t, "set_stop") /\ at' = at
    BY <1>2 DEF WaitOver
  <2>2. Leads(t, h, "set_stop")
    BY <1>1, <1>2 DEF Leads, PlaceOK, Pushes, Clearing, Parking, Helping, Holding
  <2>. QED BY <2>1, <2>2, GoWalks DEF PCs
<1>3. CASE ~Calls(t, "end")
  <2>1. Goto(t, "user") /\ Advance(t)
    BY <1>3 DEF WaitOver
  <2>2. Heading(t) = h /\ Heading(t)' = "user" /\ pc'[t] = "user" /\ Others(t)
    BY <2>1, GoHeading, GotoKeeps DEF Heading, Others, TypeOK, PCs
  <2>. QED BY <1>1, <2>1, <2>2, AdvanceSame DEF Holding
<1>. QED BY <1>2, <1>3

\* WaitLoad keeps PlaceInv.
LEMMA PlaceWaitLoad ==
  ASSUME TypeOK, PlaceInv, NEW t \in Threads, WaitLoad(t) PROVE PlaceInv'
<1>1. pc[t] = "user" /\ Waits(t) /\ ret' = ret /\ up' = up
      /\ (Calls(t, "end") => \A f \in Foreign : pc[f] = "user" /\ ~HasCall(f))
  BY DEF WaitLoad
<1>2. Still
  BY ItemKept DEF WaitLoad, TryOne, Still, queueVars, flowVars, histVars
<1>3. HasCall(t) /\ Calling(t) \in {"waitall", "end"} /\ t \in Workers
      /\ (Calls(t, "end") <=> Calling(t) = "end")
  BY <1>1, CallingFacts, CallersOf DEF Waits, Calls, PlaceInv
<1>4. CASE pending = 0 /\ WaitOver(t)
  BY <1>1, <1>2, <1>4, WaitOverKeeps
<1>5. CASE TryOne(t) /\ at' = at
  <2>1. Leads(t, "user", "try")
    BY <1>1, <1>3 DEF Leads, PlaceOK, Pushes, Clearing, Parking, Helping, Holding, Helpful
  <2>. QED BY <1>1, <1>2, <1>5, <2>1, GoWalks DEF TryOne, PCs
<1>. QED BY <1>4, <1>5 DEF WaitLoad

\* WaitSnapshot keeps PlaceInv.
LEMMA PlaceWaitSnapshot ==
  ASSUME TypeOK, PlaceInv, NEW t \in Threads, WaitSnapshot(t) PROVE PlaceInv'
<1>1. pc[t] = "wait_snapshot" /\ ret' = ret /\ up' = up /\ Still
  BY DEF WaitSnapshot, Still, queueVars, flowVars, histVars
<1>2. Calling(t) \in {"waitall", "end"}
  BY <1>1, AtPlace DEF PlaceOK
<1>3. Waits(t)
  BY <1>2, CallingFacts DEF Waits
<1>4. CASE pending = 0 /\ WaitOver(t)
  BY <1>1, <1>3, <1>4, WaitOverKeeps
<1>5. CASE Goto(t, "park_lock") /\ at' = at
  <2>1. Leads(t, "wait_snapshot", "park_lock")
    BY <1>2 DEF Leads, PlaceOK, Pushes, Clearing, Parking, Helping, Holding
  <2>. QED BY <1>1, <1>5, <2>1, GoWalks DEF PCs
<1>. QED BY <1>4, <1>5 DEF WaitSnapshot

\* Latch keeps PlaceInv.
LEMMA PlaceLatch ==
  ASSUME TypeOK, PlaceInv, Latch PROVE PlaceInv'
<1>1. Main \in Threads
  BY CallersOf, ThreadAssumption DEF Main, Threads, Workers
<1>2. /\ pc[Main] = "latch" /\ Goto(Main, "user") /\ Advance(Main) /\ ret' = ret /\ up' = TRUE
      /\ Still
  BY DEF Latch, Still, queueVars, flowVars, histVars
<1>3. Calling(Main) = "begin"
  BY <1>1, <1>2, AtPlace DEF PlaceOK
<1>4. HasCall(Main)
  BY <1>3 DEF Calling
<1>5. Heading(Main) = "latch" /\ Heading(Main)' = "user" /\ pc'[Main] = "user" /\ Others(Main)
  BY <1>1, <1>2, GoHeading, GotoKeeps DEF Heading, Others, TypeOK, PCs
<1>. QED BY <1>1, <1>2, <1>3, <1>4, <1>5, AdvanceKeepsPlace DEF Holding

\* Join keeps PlaceInv: every worker has left.
LEMMA PlaceJoin ==
  ASSUME TypeOK, PlaceInv, NEW t \in Threads, Join(t) PROVE PlaceInv'
<1>1. /\ pc[t] = "join" /\ Goto(t, "user") /\ Advance(t) /\ ret' = ret /\ up' = FALSE
      /\ Still /\ \A w \in Workers \ {Main} : pc[w] = "exited"
  BY DEF Join, Still, queueVars, flowVars, histVars
<1>2. Calling(t) = "end"
  BY <1>1, AtPlace DEF PlaceOK
<1>3. HasCall(t) /\ t = Main
  BY <1>2, CallingFacts, CallersOf DEF PlaceInv, Calls
<1>4. Heading(t) = "join" /\ Heading(t)' = "user" /\ pc'[t] = "user" /\ Others(t)
  BY <1>1, GoHeading, GotoKeeps DEF Heading, Others, TypeOK, PCs
<1>5. Live = {}
  BY <1>3, <1>4 DEF PlaceInv, Down
<1>6. \A w \in Workers \ {Main} : pc'[w] = "exited"
  BY <1>1, <1>3, <1>4 DEF Others, Threads
<1>. QED BY <1>1, <1>2, <1>3, <1>4, <1>5, <1>6, AdvanceKeepsPlace DEF Holding

\* Advertise keeps PlaceInv: the task was out of its submitter's hands already.
LEMMA PlaceAdvertise ==
  ASSUME TypeOK, PlaceInv, NEW t \in Threads, Advertise(t) PROVE PlaceInv'
<1>1. /\ pc[t] = "advertise" /\ NotifyThen(t, "user") /\ Advance(t) /\ up' = up /\ Still
      /\ Calls(t, "submit")
  BY DEF Advertise, In, Still, queueVars, flowVars, histVars
<1>2. HasCall(t)
  BY <1>1 DEF Calls
<1>3. /\ Heading(t) = "advertise" /\ Heading(t)' = "user" /\ pc'[t] = "notify_lock"
      /\ Others(t)
  BY <1>1, NotifyHeading, NotifyKeeps DEF Heading, Others, TypeOK, Returns
<1>. QED BY <1>1, <1>2, <1>3, AdvanceSame DEF Holding

-----------------------------------------------------------------------------
(* Queue operations.                                                       *)

\* The elements of a sequence after Append, Tail and the removal of its last element.
LEMMA SeqSteps ==
  ASSUME NEW S, NEW s \in Seq(S), NEW k \in S
  PROVE  /\ DOMAIN Append(s, k) = 1 .. Len(s) + 1 /\ Append(s, k)[Len(s) + 1] = k
         /\ \A i \in DOMAIN s : Append(s, k)[i] = s[i]
         /\ s # <<>> =>
              /\ Len(s) \in DOMAIN s /\ 1 \in DOMAIN s /\ Head(s) = s[1]
              /\ DOMAIN Tail(s) = 1 .. Len(s) - 1 /\ \A i \in DOMAIN Tail(s) : Tail(s)[i] = s[i+1]
              /\ DOMAIN SubSeq(s, 1, Len(s) - 1) = 1 .. Len(s) - 1
              /\ \A i \in 1 .. Len(s) - 1 : SubSeq(s, 1, Len(s) - 1)[i] = s[i]
OBVIOUS

\* The queues are sequences of tasks.
LEMMA QueueTyped ==
  ASSUME TypeOK, NEW g \in Groups, NEW w \in Owners
  PROVE  Queue(g, w) \in Seq(Tasks)
BY DEF TypeOK, Types, Queue, Owners

\* Only the queue of w in group g changes.
OnlyQueue(g, w) == \A h \in Groups, v \in Owners : h # g \/ v # w => Queue(h, v)' = Queue(h, v)

\* Pushing a task that is in no queue.
LEMMA QueueGrows ==
  ASSUME TypeOK, QueueOnce, NEW g \in Groups, NEW w \in Owners, NEW k \in Tasks \ Waiting,
         OnlyQueue(g, w), Queue(g, w)' = Append(Queue(g, w), k)
  PROVE  QueueOnce' /\ Waiting' = Waiting \cup {k}
<1> DEFINE s == Queue(g, w)
<1>1. /\ s \in Seq(Tasks) /\ DOMAIN s = 1 .. Len(s) /\ Len(s) \in Nat
      /\ DOMAIN Queue(g, w)' = 1 .. Len(s) + 1 /\ Queue(g, w)'[Len(s) + 1] = k
      /\ \A i \in DOMAIN s : Queue(g, w)'[i] = s[i]
  BY QueueTyped, SeqSteps, ElementOfSeq
<1>2. \A h \in Groups, v \in Owners : \A i \in DOMAIN Queue(h, v) : Queue(h, v)[i] # k
  BY DEF Waiting
<1>3. ASSUME NEW h \in Groups, NEW v \in Owners, NEW i \in DOMAIN Queue(h, v)'
      PROVE  \/ h = g /\ v = w /\ i = Len(s) + 1 /\ Queue(h, v)'[i] = k
             \/ i \in DOMAIN Queue(h, v) /\ Queue(h, v)'[i] = Queue(h, v)[i]
  <2>1. CASE h # g \/ v # w
    BY <1>3, <2>1 DEF OnlyQueue
  <2>2. CASE h = g /\ v = w
    BY <1>1, <1>3, <2>2
  <2>. QED BY <2>1, <2>2
<1>4. ASSUME NEW h \in Groups, NEW v \in Owners, NEW i \in DOMAIN Queue(h, v)
      PROVE  i \in DOMAIN Queue(h, v)' /\ Queue(h, v)'[i] = Queue(h, v)[i]
  <2>1. CASE h # g \/ v # w
    BY <1>4, <2>1 DEF OnlyQueue
  <2>2. CASE h = g /\ v = w
    BY <1>1, <1>4, <2>2
  <2>. QED BY <2>1, <2>2
<1>5. QueueOnce'
  <2> SUFFICES ASSUME NEW h \in Groups, NEW u \in Groups, NEW v \in Owners, NEW x \in Owners,
                      NEW i \in DOMAIN Queue(h, v)', NEW j \in DOMAIN Queue(u, x)',
                      Queue(h, v)'[i] = Queue(u, x)'[j]
               PROVE  h = u /\ v = x /\ i = j
    BY DEF QueueOnce
  <2>. QED BY <1>2, <1>3 DEF QueueOnce
<1>6. Waiting' = Waiting \cup {k}
  <2>1. k \in Waiting'
    BY <1>1 DEF Waiting
  <2>2. Waiting \subseteq Waiting'
    BY <1>4 DEF Waiting
  <2>3. Waiting' \subseteq Waiting \cup {k}
    BY <1>3 DEF Waiting
  <2>. QED BY <2>1, <2>2, <2>3
<1>. QED BY <1>5, <1>6

\* Taking a task from either end of a queue.
LEMMA QueueShrinks ==
  ASSUME TypeOK, QueueOnce, NEW g \in Groups, NEW w \in Owners, OnlyQueue(g, w), NEW k,
         Queue(g, w) # <<>>,
         \/ k = Head(Queue(g, w)) /\ Queue(g, w)' = Tail(Queue(g, w))
         \/ /\ k = Queue(g, w)[Len(Queue(g, w))]
            /\ Queue(g, w)' = SubSeq(Queue(g, w), 1, Len(Queue(g, w)) - 1)
  PROVE  QueueOnce' /\ k \in Waiting /\ Waiting' = Waiting \ {k}
<1> DEFINE s == Queue(g, w)
<1>1. s \in Seq(Tasks) /\ s # <<>>
  BY QueueTyped
<1>2. PICK z \in Tasks : TRUE
  BY <1>1, LastOfSeq
<1>3. PICK d \in {0, 1}, n \in DOMAIN s :
        /\ s[n] = k /\ DOMAIN Queue(g, w)' = 1 .. Len(s) - 1
        /\ \A i \in 1 .. Len(s) - 1 : Queue(g, w)'[i] = s[i + d] /\ i + d # n
        /\ \A j \in DOMAIN s : j # n => j - d \in 1 .. Len(s) - 1
  <2>1. /\ DOMAIN s = 1 .. Len(s) /\ Len(s) \in DOMAIN s /\ 1 \in DOMAIN s /\ Len(s) \in Nat
        /\ Head(s) = s[1]
        /\ DOMAIN Tail(s) = 1 .. Len(s) - 1 /\ \A i \in DOMAIN Tail(s) : Tail(s)[i] = s[i+1]
        /\ DOMAIN SubSeq(s, 1, Len(s) - 1) = 1 .. Len(s) - 1
        /\ \A i \in 1 .. Len(s) - 1 : SubSeq(s, 1, Len(s) - 1)[i] = s[i]
    BY <1>1, <1>2, SeqSteps, ElementOfSeq
  <2>2. CASE k = Head(s) /\ Queue(g, w)' = Tail(s)
    <3>. QED BY <2>1, <2>2
  <2>3. CASE k = s[Len(s)] /\ Queue(g, w)' = SubSeq(s, 1, Len(s) - 1)
    <3>1. \A i \in 1 .. Len(s) - 1 : Queue(g, w)'[i] = s[i + 0] /\ i + 0 # Len(s)
      <4>. HIDE DEF s
      <4>1. Len(s) \in Nat
        BY <2>1
      <4>2. \A i \in 1 .. Len(s) - 1 : i + 0 = i /\ i # Len(s)
        BY <4>1
      <4>. QED BY <2>1, <2>3, <4>2
    <3>2. \A j \in DOMAIN s : j # Len(s) => j - 0 \in 1 .. Len(s) - 1
      BY <2>1
    <3>. QED BY <2>1, <2>3, <3>1, <3>2
  <2>. QED BY <2>2, <2>3
<1>4. DOMAIN s = 1 .. Len(s) /\ Len(s) \in Nat
  BY <1>1, ElementOfSeq
<1> DEFINE D(h, v) == IF h = g /\ v = w THEN d ELSE 0
<1>5. ASSUME NEW h \in Groups, NEW v \in Owners, NEW i \in DOMAIN Queue(h, v)'
      PROVE  /\ i \in Nat /\ i + D(h, v) \in DOMAIN Queue(h, v)
             /\ Queue(h, v)'[i] = Queue(h, v)[i + D(h, v)]
             /\ h # g \/ v # w \/ i + D(h, v) # n
  <2>1. CASE h # g \/ v # w
    BY <1>5, <2>1, QueueTyped, ElementOfSeq DEF OnlyQueue
  <2>2. CASE h = g /\ v = w
    BY <1>3, <1>4, <1>5, <2>2
  <2>. QED BY <2>1, <2>2
<1>6. ASSUME NEW h \in Groups, NEW v \in Owners, NEW j \in DOMAIN Queue(h, v), Queue(h, v)[j] # k
      PROVE  \E i \in DOMAIN Queue(h, v)' : Queue(h, v)'[i] = Queue(h, v)[j]
  <2>1. CASE h # g \/ v # w
    BY <1>6, <2>1 DEF OnlyQueue
  <2>2. CASE h = g /\ v = w
    <3>1. j # n /\ j \in Nat
      BY <1>3, <1>4, <1>6, <2>2
    <3>2. j - d \in DOMAIN Queue(g, w)' /\ (j - d) + d = j
      BY <1>3, <1>6, <2>2, <3>1
    <3>3. Queue(g, w)'[j - d] = s[(j - d) + d]
      BY <1>3, <3>2
    <3>. QED BY <2>2, <3>2, <3>3
  <2>. QED BY <2>1, <2>2
<1>7. QueueOnce'
  <2> SUFFICES ASSUME NEW h \in Groups, NEW u \in Groups, NEW v \in Owners, NEW x \in Owners,
                      NEW i \in DOMAIN Queue(h, v)', NEW j \in DOMAIN Queue(u, x)',
                      Queue(h, v)'[i] = Queue(u, x)'[j]
               PROVE  h = u /\ v = x /\ i = j
    BY DEF QueueOnce
  <2>1. h = u /\ v = x /\ i + D(h, v) = j + D(u, x)
    BY <1>5 DEF QueueOnce
  <2>2. i \in Nat /\ j \in Nat /\ D(h, v) \in {0, 1}
    BY <1>5
  <2>. QED BY <2>1, <2>2
<1>8. k \in Waiting
  BY <1>1, <1>3, ElementOfSeq DEF Waiting
<1>9. Waiting' = Waiting \ {k}
  <2>1. k \notin Waiting'
    <3> SUFFICES ASSUME NEW h \in Groups, NEW v \in Owners, NEW i \in DOMAIN Queue(h, v)',
                        Queue(h, v)'[i] = k
                 PROVE  FALSE
      BY DEF Waiting
    <3>1. h = g /\ v = w /\ i + D(h, v) = n
      BY <1>3, <1>5 DEF QueueOnce
    <3>. QED BY <1>5, <3>1
  <2>2. Waiting \ {k} \subseteq Waiting'
    BY <1>6 DEF Waiting
  <2>3. Waiting' \subseteq Waiting
    BY <1>5 DEF Waiting
  <2>. QED BY <2>1, <2>2, <2>3
<1>. QED BY <1>7, <1>8, <1>9

\* A step on one deque, or on one mailbox, changes no other queue.
LEMMA DequeChange ==
  ASSUME TypeOK, NEW g \in Groups, NEW w \in Workers, NEW s,
         deque' = [deque EXCEPT ![g] = [deque[g] EXCEPT ![w] = s]], mailbox' = mailbox
  PROVE  /\ w \in Owners /\ Queue(g, w) = deque[g][w] /\ Queue(g, w)' = s /\ OnlyQueue(g, w)
<1>1. w \in Owners /\ None \notin Workers
  BY ThreadAssumption DEF Owners, Threads
<1>2. deque \in [Groups -> [Workers -> Seq(Tasks)]]
  BY DEF TypeOK, Types
<1>3. /\ deque'[g][w] = s
      /\ \A h \in Groups, v \in Workers : h # g \/ v # w => deque'[h][v] = deque[h][v]
  BY <1>2
<1>. QED BY <1>1, <1>3 DEF OnlyQueue, Queue, Owners

LEMMA MailChange ==
  ASSUME TypeOK, NEW g \in Groups, NEW s,
         mailbox' = [mailbox EXCEPT ![g] = s], deque' = deque
  PROVE  /\ None \in Owners /\ Queue(g, None) = mailbox[g] /\ Queue(g, None)' = s
         /\ OnlyQueue(g, None)
<1>1. mailbox \in [Groups -> Seq(Tasks)]
  BY DEF TypeOK, Types
<1>. QED BY <1>1 DEF OnlyQueue, Queue, Owners

-----------------------------------------------------------------------------
(* Steps that move a task.                                                 *)

\* The task of a submit call in progress is being pushed, by that call alone.
LEMMA PushedOnce ==
  ASSUME TypeOK, PlaceInv, NEW t \in Threads, Calls(t, "submit"), NEW u \in Threads,
         NEW x \in Frames(u), Pushing(u, x, Call(t).arg)
  PROVE  x = Frame(t) /\ u = t
<1>1. /\ Frame(t) \in Callers /\ at[Frame(t)] \in DOMAIN Script[Frame(t)]
      /\ Call(t) = Script[Frame(t)][at[Frame(t)]] /\ Call(t).op = "submit"
  BY CallingFacts
<1>2. x \in Callers
  BY FrameIn DEF Pushing, Callers, Threads
<1>3. /\ at[x] \in DOMAIN Script[x]
      /\ Script[x][at[x]] = [op |-> "submit", arg |-> Call(t).arg]
  <2>1. Script[x] \in Seq(Op) /\ at[x] \in Nat \ {0}
    BY <1>2, TaskAssumption DEF Callers, TypeOK, Types
  <2>. QED BY <2>1, ElementOfSeq DEF Pushing
<1>4. Script[x][at[x]] = Call(t)
  <2>1. Script[Frame(t)] \in Seq(Op)
    BY <1>1, TaskAssumption DEF Callers
  <2>2. Call(t) \in Op
    BY <1>1, <2>1, ElementOfSeq
  <2>. QED BY <1>1, <1>3, <2>2 DEF Op
<1>5. x = Frame(t)
  <2>1. x \in DOMAIN Script /\ Frame(t) \in DOMAIN Script
    BY <1>1, <1>2, TaskAssumption DEF Callers
  <2>. QED BY <1>1, <1>3, <1>4, <2>1, OnceAssumption
<1>6. u = t
  BY <1>5, FrameIn, FramesApart DEF PlaceInv
<1>. QED BY <1>5, <1>6

\* A call of submit in progress, at h, pushes its task.
LEMMA SubmitPushes ==
  ASSUME TypeOK, PlaceInv, NEW t \in Threads, Calls(t, "submit"), Heading(t) # "user"
  PROVE  /\ Call(t).arg \in submitted /\ Call(t).arg \in Tasks
         /\ pc[t] # "advertise" => Pushing(t, Frame(t), Call(t).arg)
         /\ pc[t] # "advertise" => Call(t).arg \in Pushed
<1>1. /\ Frame(t) \in Callers /\ at[Frame(t)] \in DOMAIN Script[Frame(t)]
      /\ Call(t) = Script[Frame(t)][at[Frame(t)]] /\ Call(t).op = "submit"
  BY CallingFacts
<1>2. Busy(Frame(t))
  <2>1. Frame(t) \in Frames(t)
    BY FrameIn
  <2>. QED BY <2>1 DEF Busy
<1>3. Call(t).arg \in submitted
  BY <1>1, <1>2 DEF PlaceInv, SubmitInv
<1>4. Call(t).arg \in Tasks
  BY CallTyped
<1>5. pc[t] # "advertise" => Pushing(t, Frame(t), Call(t).arg)
  <2>1. Script[Frame(t)] \in Seq(Op)
    BY <1>1, TaskAssumption DEF Callers
  <2>2. Call(t) \in Op /\ at[Frame(t)] <= Len(Script[Frame(t)])
    BY <1>1, <2>1, ElementOfSeq
  <2>3. Call(t) = [op |-> "submit", arg |-> Call(t).arg]
    BY <1>1, <2>2 DEF Op
  <2>4. Frame(t) \notin Workers \ {Main}
    BY <1>1, ThreadAssumption, TaskAssumption DEF Callers, Threads
  <2>. QED BY <1>1, <1>3, <2>2, <2>3, <2>4 DEF Pushing
<1>6. pc[t] # "advertise" => Call(t).arg \in Pushed
  BY <1>4, <1>5, FrameIn DEF Pushed
<1>. QED BY <1>3, <1>4, <1>5, <1>6

\* Putting the task of a submit call into a queue.
LEMMA PushKeepsPlace ==
  ASSUME TypeOK, PlaceInv, NEW t \in Threads, Calls(t, "submit"),
         pc[t] \in {"push_local", "push_mail"}, Goto(t, "advertise"), ret' = ret, reg' = reg,
         UNCHANGED <<pending, up, stack, at, submitted, done, dropped>>,
         NEW g \in Groups, NEW w \in Owners, OnlyQueue(g, w),
         Queue(g, w)' = Append(Queue(g, w), Call(t).arg)
  PROVE  PlaceInv'
<1> DEFINE k == Call(t).arg
<1>1. /\ Heading(t) = pc[t] /\ Heading(t)' = "advertise" /\ pc'[t] = "advertise" /\ Others(t)
      /\ \A u \in Threads \ {t} : pc'[u] = pc[u]
  BY GoHeading, GotoKeeps DEF Heading, Others, TypeOK, PCs
<1>2. Calling(t) = "submit" /\ HasCall(t)
  BY CallingFacts DEF Calls
<1>3. PlaceOK(t, "advertise")
  BY <1>2 DEF PlaceOK, Pushes, Clearing, Parking, Helping
<1>4. Passes(t)
  BY <1>1, <1>2, <1>3 DEF Passes
<1>5. Live' = Live
  BY DEF Live
<1>6. Control' /\ SubmitInv' /\ Down'
  BY <1>1, <1>2, <1>3, <1>4, <1>5, WalkControl, WalkSubmit, WalkDown DEF PlaceInv
<1>7. Items'
  BY <1>1, OthersHead DEF PlaceInv, Items, Holding
<1>8. k \in Pushed /\ k \in Tasks
  BY <1>1, SubmitPushes
<1>9. k \notin Waiting /\ k \notin InHand /\ k \notin Running
  BY <1>8 DEF PlaceInv, Apart
<1>10. QueueOnce' /\ Waiting' = Waiting \cup {k}
  BY <1>8, <1>9, QueueGrows DEF PlaceInv
<1>11. StackOnce' /\ HandOnce' /\ InHand' = InHand /\ Running' = Running /\ Pending'
  BY <1>5 DEF PlaceInv, StackOnce, HandOnce, InHand, Running, Pending
<1>12. Pushed' = Pushed \ {k}
  <2>1. \A u \in Threads : Frame(u)' = Frame(u) /\ Frames(u)' = Frames(u)
    BY DEF Frame, Frames, Top
  <2>2. ASSUME NEW j \in Tasks, NEW u \in Threads, NEW x \in Frames(u), x # Frame(t) \/ u # t
        PROVE  Pushing(u, x, j)' <=> Pushing(u, x, j)
    BY <1>1, <2>1, <2>2 DEF Pushing
  <2>3. ASSUME NEW j \in Tasks, NEW u, NEW x, x = Frame(t), u = t PROVE ~Pushing(u, x, j)'
    BY <1>1, <2>1, <2>3 DEF Pushing
  <2>4. \A j \in Tasks : Pushing(t, Frame(t), j) => j = k
    <3>1. Call(t) = Script[Frame(t)][at[Frame(t)]]
      BY DEF Call
    <3>. QED BY <3>1 DEF Pushing
  <2>5. Pushed' \subseteq Pushed \ {k}
    <3> SUFFICES ASSUME NEW j \in Pushed' PROVE j \in Pushed \ {k}
      OBVIOUS
    <3>1. PICK u \in Threads : \E x \in Frames(u) : Pushing(u, x, j)'
      BY <2>1 DEF Pushed
    <3>2. PICK x \in Frames(u) : Pushing(u, x, j)'
      BY <3>1
    <3>3. j \in Tasks
      BY DEF Pushed
    <3>4. x # Frame(t) \/ u # t
      BY <2>3, <3>2, <3>3
    <3>5. Pushing(u, x, j)
      BY <2>2, <3>2, <3>3, <3>4
    <3>6. j # k
      BY <3>4, <3>5, PushedOnce
    <3>. QED BY <3>3, <3>5, <3>6 DEF Pushed
  <2>6. Pushed \ {k} \subseteq Pushed'
    <3> SUFFICES ASSUME NEW j \in Pushed, j # k PROVE j \in Pushed'
      OBVIOUS
    <3>1. PICK u \in Threads : \E x \in Frames(u) : Pushing(u, x, j)
      BY DEF Pushed
    <3>2. PICK x \in Frames(u) : Pushing(u, x, j)
      BY <3>1
    <3>3. x # Frame(t) \/ u # t
      BY <2>4, <3>2 DEF Pushed
    <3>. QED BY <2>1, <2>2, <3>2, <3>3 DEF Pushed
  <2>. QED BY <2>5, <2>6
<1>13. Apart'
  BY <1>5, <1>8, <1>9, <1>10, <1>11, <1>12 DEF PlaceInv, Apart
<1>. QED BY <1>6, <1>7, <1>10, <1>11, <1>13 DEF PlaceInv

\* Taking a task from a queue into the hands of t.
LEMMA TakeKeepsPlace ==
  ASSUME TypeOK, PlaceInv, NEW t \in Threads,
         pc[t] \in {"take_own", "take_mail", "take_steal", "clear_mail", "clear_steal"},
         NEW l \in {"sink", "clear_sink"}, PlaceOK(t, l), Goto(t, l), ret' = ret,
         UNCHANGED <<pending, up, stack, at, submitted, done, dropped>>,
         NEW g \in Groups, NEW w \in Owners, NEW k, OnlyQueue(g, w), Queue(g, w) # <<>>,
         Found(t, g, k),
         \/ k = Head(Queue(g, w)) /\ Queue(g, w)' = Tail(Queue(g, w))
         \/ /\ k = Queue(g, w)[Len(Queue(g, w))]
            /\ Queue(g, w)' = SubSeq(Queue(g, w), 1, Len(Queue(g, w)) - 1)
  PROVE  PlaceInv'
<1>1. /\ Heading(t) = pc[t] /\ Heading(t)' = l /\ pc'[t] = l /\ Others(t)
      /\ \A u \in Threads \ {t} : pc'[u] = pc[u]
  BY GoHeading, GotoKeeps DEF Heading, Others, TypeOK, PCs
<1>2. QueueOnce' /\ k \in Waiting /\ Waiting' = Waiting \ {k}
  BY QueueShrinks DEF PlaceInv
<1>3. k \in Tasks /\ k \notin InHand /\ k \notin Pushed /\ k \notin Running
  BY <1>2 DEF Waiting, PlaceInv, Apart
<1>4. reg'[t].item = k /\ reg[t].item = None /\ \A u \in Threads \ {t} : reg'[u] = reg[u]
  <2>1. reg'[t].item = k /\ \A u \in Threads \ {t} : reg'[u] = reg[u]
    BY <1>3, FoundKeeps DEF TypeOK
  <2>2. reg[t].item = None
    BY <1>1 DEF PlaceInv, Items, Holding
  <2>. QED BY <2>1, <2>2
<1>5. Live' = Live
  BY DEF Live
<1>6. Passes(t)
  BY <1>1 DEF Passes
<1>7. Control' /\ SubmitInv' /\ Down'
  BY <1>1, <1>5, <1>6, WalkControl, WalkSubmit, WalkDown DEF PlaceInv
<1>8. Items'
  BY <1>1, <1>4, OthersHead DEF PlaceInv, Items, Holding
<1>9. HandOnce' /\ InHand' = InHand \cup {k}
  <2>1. \A u \in Threads : reg[u].item # k
    BY <1>3 DEF InHand
  <2>2. HandOnce'
    BY <1>4, <2>1 DEF PlaceInv, HandOnce
  <2>3. None \notin Tasks
    BY ThreadAssumption
  <2>. QED BY <1>3, <1>4, <2>2, <2>3 DEF InHand
<1>10. Pushed' = Pushed
  BY <1>1, PushedSame
<1>11. StackOnce' /\ Running' = Running /\ Pending'
  BY <1>5 DEF PlaceInv, StackOnce, Running, Pending
<1>12. Apart'
  BY <1>2, <1>3, <1>5, <1>9, <1>10, <1>11 DEF PlaceInv, Apart
<1>. QED BY <1>2, <1>7, <1>8, <1>9, <1>11, <1>12 DEF PlaceInv

\* PushLocal keeps PlaceInv: the task goes to the deque, or the deque is full.
LEMMA PlacePushLocal ==
  ASSUME TypeOK, PlaceInv, NEW t \in Threads, PushLocal(t) PROVE PlaceInv'
<1>1. /\ pc[t] = "push_local" /\ Calls(t, "submit") /\ ret' = ret /\ reg' = reg
      /\ mailbox' = mailbox /\ UNCHANGED <<pending, up, stack, at, submitted, done, dropped>>
  BY DEF PushLocal, In, flowVars, histVars
<1>0. PICK k \in Tasks : k = Call(t).arg
  BY <1>1, CallTyped
<1>2. PICK g \in Groups : g = Dest[k]
  BY <1>0, <1>1, CallTyped
<1>3. CASE Len(deque[g][t]) < DequeCap /\ deque' = [deque EXCEPT ![g][t] = Append(@, k)]
           /\ Goto(t, "advertise")
  <2>1. t \in Workers
    BY <1>1, AtPlace DEF PlaceOK
  <2>2. /\ t \in Owners /\ Queue(g, t)' = Append(Queue(g, t), k) /\ OnlyQueue(g, t)
    <3>1. deque' = [deque EXCEPT ![g] = [deque[g] EXCEPT ![t] = Append(deque[g][t], k)]]
      BY <1>3
    <3>2. t \in Owners /\ Queue(g, t) = deque[g][t] /\ Queue(g, t)' = Append(deque[g][t], k)
          /\ OnlyQueue(g, t)
      BY <1>1, <1>2, <2>1, <3>1, DequeChange
    <3>. QED BY <3>2
  <2>. QED BY <1>0, <1>1, <1>3, <2>2, PushKeepsPlace
<1>4. CASE Goto(t, "push_mail") /\ deque' = deque
  <2>1. Still
    BY <1>1, <1>4 DEF Still
  <2>2. Calling(t) = "submit"
    BY <1>1, CallingFacts
  <2>3. Leads(t, "push_local", "push_mail")
    BY <2>2 DEF Leads, PlaceOK, Pushes, Clearing, Parking, Helping, Holding
  <2>. QED BY <1>1, <1>4, <2>1, <2>3, GoWalks DEF PCs
<1>. QED BY <1>0, <1>2, <1>3, <1>4 DEF PushLocal

\* PushMail keeps PlaceInv: the task goes to the mailbox, or the submitter helps or yields.
LEMMA PlacePushMail ==
  ASSUME TypeOK, PlaceInv, NEW t \in Threads, PushMail(t) PROVE PlaceInv'
<1> DEFINE k == Call(t).arg
           g == Dest[k]
<1>1. /\ pc[t] = "push_mail" /\ Calls(t, "submit") /\ deque' = deque
      /\ UNCHANGED <<pending, up, stack, at, submitted, done, dropped>>
  BY DEF PushMail, In, flowVars, histVars
<1>2. k \in Tasks /\ g \in Groups /\ Calling(t) = "submit"
  BY <1>1, CallTyped, CallingFacts
<1>3. CASE mailbox' = [mailbox EXCEPT ![g] = Append(@, k)] /\ Goto(t, "advertise")
           /\ UNCHANGED <<ret, reg>>
  BY <1>1, <1>2, <1>3, MailChange, PushKeepsPlace
<1>4. CASE /\ NotifyThen(t, IF t \in Workers THEN "try" ELSE "push_mail")
           /\ Retry(t, 1) /\ mailbox' = mailbox
  <2>1. Still
    BY <1>1, <1>4, ItemKept DEF Still
  <2>2. /\ Leads(t, "push_mail", "push_mail")
        /\ t \in Workers => Leads(t, "push_mail", "try")
    BY <1>2 DEF Leads, PlaceOK, Pushes, Clearing, Parking, Helping, Holding, Helpful
  <2>. QED BY <1>1, <1>4, <2>1, <2>2, NotifyWalks DEF Returns
<1>. QED BY <1>3, <1>4 DEF PushMail

\* TakeOwn keeps PlaceInv: the newest item of the worker's deque, or none.
LEMMA PlaceTakeOwn ==
  ASSUME TypeOK, PlaceInv, NEW t \in Threads, TakeOwn(t) PROVE PlaceInv'
<1>1. /\ pc[t] = "take_own" /\ ret' = ret /\ mailbox' = mailbox
      /\ UNCHANGED <<pending, up, stack, at, submitted, done, dropped>>
  BY DEF TakeOwn, flowVars, histVars
<1>2. PICK g \in Groups : g = reg[t].grp
  BY <1>1 DEF TypeOK, LocalsOK, Heading, Taking, GroupsOf
<1>3. PlaceOK(t, "take_own")
  BY <1>1, AtPlace
<1>4. t \in Workers /\ PlaceOK(t, "sink")
  BY <1>3 DEF PlaceOK, Pushes, Clearing, Parking, Helping
<1>5. ASSUME NEW d, d = deque[g][t], d # <<>>,
             deque' = [deque EXCEPT ![g][t] = SubSeq(d, 1, Len(d) - 1)],
             Found(t, g, d[Len(d)]), Goto(t, "sink")
      PROVE  PlaceInv'
  <2>1. t \in Owners /\ Queue(g, t) = d /\ Queue(g, t)' = SubSeq(d, 1, Len(d) - 1)
        /\ OnlyQueue(g, t)
    <3>1. deque' = [deque EXCEPT ![g] = [deque[g] EXCEPT ![t] = SubSeq(d, 1, Len(d) - 1)]]
      BY <1>5
    <3>. QED BY <1>1, <1>4, <1>5, <3>1, DequeChange
  <2>2. /\ Queue(g, t) # <<>> /\ Found(t, g, Queue(g, t)[Len(Queue(g, t))])
        /\ Queue(g, t)' = SubSeq(Queue(g, t), 1, Len(Queue(g, t)) - 1)
    BY <1>5, <2>1
  <2>. QED BY <1>1, <1>2, <1>4, <1>5, <2>1, <2>2, TakeKeepsPlace
<1>6. CASE Goto(t, "take_mail") /\ UNCHANGED <<deque, reg>>
  <2>1. Still
    BY <1>1, <1>6 DEF Still
  <2>2. Leads(t, "take_own", "take_mail")
    BY <1>3 DEF Leads, PlaceOK, Pushes, Clearing, Parking, Helping, Holding
  <2>. QED BY <1>1, <1>6, <2>1, <2>2, GoWalks DEF PCs
<1>. QED BY <1>2, <1>5, <1>6 DEF TakeOwn

\* TakeMail keeps PlaceInv: the oldest item of the mailbox, or none.
LEMMA PlaceTakeMail ==
  ASSUME TypeOK, PlaceInv, NEW t \in Threads, TakeMail(t) PROVE PlaceInv'
<1> DEFINE g == reg[t].grp
<1>1. /\ pc[t] = "take_mail" /\ ret' = ret /\ deque' = deque
      /\ UNCHANGED <<pending, up, stack, at, submitted, done, dropped>>
  BY DEF TakeMail, flowVars, histVars
<1>2. g \in Groups
  BY <1>1 DEF TypeOK, LocalsOK, Heading, Taking, GroupsOf
<1>3. PlaceOK(t, "take_mail")
  BY <1>1, AtPlace
<1>4. PlaceOK(t, "sink")
  BY <1>3 DEF PlaceOK, Pushes, Clearing, Parking, Helping
<1>5. CASE /\ mailbox[g] # <<>> /\ mailbox' = [mailbox EXCEPT ![g] = Tail(@)]
           /\ Found(t, g, Head(mailbox[g])) /\ Goto(t, "sink")
  BY <1>1, <1>2, <1>4, <1>5, MailChange, TakeKeepsPlace
<1>6. CASE /\ reg' = [reg EXCEPT ![t].victims = Members(g) \ {t}]
           /\ Goto(t, "take_steal") /\ mailbox' = mailbox
  <2>1. Still
    BY <1>1, <1>6, ItemKept DEF Still
  <2>2. Leads(t, "take_mail", "take_steal")
    BY <1>3 DEF Leads, PlaceOK, Pushes, Clearing, Parking, Helping, Holding
  <2>. QED BY <1>1, <1>6, <2>1, <2>2, GoWalks DEF PCs
<1>. QED BY <1>5, <1>6 DEF TakeMail

\* TakeSteal keeps PlaceInv: the oldest item of a sibling's deque, or none.
LEMMA PlaceTakeSteal ==
  ASSUME TypeOK, PlaceInv, NEW t \in Threads, TakeSteal(t) PROVE PlaceInv'
<1>1. /\ pc[t] = "take_steal" /\ ret' = ret /\ mailbox' = mailbox
      /\ UNCHANGED <<pending, up, stack, at, submitted, done, dropped>>
  BY DEF TakeSteal, flowVars, histVars
<1>2. PICK g \in Groups : g = reg[t].grp
  BY <1>1 DEF TypeOK, LocalsOK, Heading, Taking, GroupsOf
<1>8. reg[t].victims \subseteq Workers
  BY DEF TypeOK, Types
<1>3. PlaceOK(t, "take_steal")
  BY <1>1, AtPlace
<1>4. PlaceOK(t, "sink")
  BY <1>3 DEF PlaceOK, Pushes, Clearing, Parking, Helping
<1>5. ASSUME NEW v \in reg[t].victims, deque[g][v] # <<>>,
             deque' = [deque EXCEPT ![g][v] = Tail(@)],
             Found(t, g, Head(deque[g][v])), Goto(t, "sink")
      PROVE  PlaceInv'
  <2>1. deque' = [deque EXCEPT ![g] = [deque[g] EXCEPT ![v] = Tail(deque[g][v])]]
    BY <1>5
  <2>2. v \in Owners /\ Queue(g, v) = deque[g][v] /\ Queue(g, v)' = Tail(deque[g][v])
        /\ OnlyQueue(g, v)
    BY <1>1, <1>8, <2>1, DequeChange
  <2>3. /\ Queue(g, v) # <<>> /\ Found(t, g, Head(Queue(g, v)))
        /\ Queue(g, v)' = Tail(Queue(g, v))
    BY <1>5, <2>2
  <2>. QED BY <1>1, <1>2, <1>4, <1>5, <2>2, <2>3, TakeKeepsPlace
<1>6. ASSUME NEW v \in reg[t].victims, reg' = [reg EXCEPT ![t].victims = @ \ {v}],
             UNCHANGED <<deque, pc>>
      PROVE  PlaceInv'
  <2>1. Still
    BY <1>1, <1>6, ItemKept DEF Still
  <2>2. Leads(t, "take_steal", "take_steal")
    BY <1>3 DEF Leads, PlaceOK, Pushes, Clearing, Parking, Helping, Holding
  <2>3. Goto(t, "take_steal")
    BY <1>1, <1>6 DEF Goto, TypeOK, Types
  <2>. QED BY <1>1, <2>1, <2>2, <2>3, GoWalks DEF PCs
<1>7. CASE Goto(t, "try") /\ reg' = [reg EXCEPT ![t].grp = None] /\ deque' = deque
  <2>1. Still
    BY <1>1, <1>7, ItemKept DEF Still
  <2>2. Leads(t, "take_steal", "try")
    BY <1>3 DEF Leads, PlaceOK, Pushes, Clearing, Parking, Helping, Holding
  <2>. QED BY <1>1, <1>7, <2>1, <2>2, GoWalks DEF PCs
<1>. QED BY <1>2, <1>5, <1>6, <1>7 DEF TakeSteal

\* ClearMail keeps PlaceInv.
LEMMA PlaceClearMail ==
  ASSUME TypeOK, PlaceInv, NEW t \in Threads, ClearMail(t) PROVE PlaceInv'
<1> DEFINE g == Call(t).arg
<1>1. /\ pc[t] = "clear_mail" /\ Calls(t, "clear") /\ ret' = ret /\ deque' = deque
      /\ UNCHANGED <<pending, up, stack, at, submitted, done, dropped>>
  BY DEF ClearMail, In, flowVars, histVars
<1>2. g \in Groups /\ Calling(t) = "clear"
  BY <1>1, CallTyped, CallingFacts
<1>3. PlaceOK(t, "clear_sink") /\ Leads(t, "clear_mail", "clear_steal")
  BY <1>2 DEF Leads, PlaceOK, Pushes, Clearing, Parking, Helping, Holding
<1>4. CASE /\ mailbox[g] # <<>> /\ mailbox' = [mailbox EXCEPT ![g] = Tail(@)]
           /\ Found(t, g, Head(mailbox[g])) /\ Goto(t, "clear_sink")
  BY <1>1, <1>2, <1>3, <1>4, MailChange, TakeKeepsPlace
<1>5. CASE /\ reg' = [reg EXCEPT ![t].victims = Members(g)]
           /\ Goto(t, "clear_steal") /\ mailbox' = mailbox
  <2>1. Still
    BY <1>1, <1>5, ItemKept DEF Still
  <2>. QED BY <1>1, <1>3, <1>5, <2>1, GoWalks DEF PCs
<1>. QED BY <1>4, <1>5 DEF ClearMail

\* ClearSteal keeps PlaceInv: the oldest item of a member's deque, none, or the end.
LEMMA PlaceClearSteal ==
  ASSUME TypeOK, PlaceInv, NEW t \in Threads, ClearSteal(t) PROVE PlaceInv'
<1>1. /\ pc[t] = "clear_steal" /\ Calls(t, "clear") /\ ret' = ret /\ mailbox' = mailbox
      /\ UNCHANGED <<pending, up, stack, submitted, done, dropped>>
  BY DEF ClearSteal, In, histVars
<1>7. PICK g \in Groups : g = Call(t).arg
  BY <1>1, CallTyped
<1>2. Calling(t) = "clear" /\ HasCall(t) /\ reg[t].victims \subseteq Workers
  BY <1>1, CallingFacts DEF Calls, TypeOK, Types
<1>3. PlaceOK(t, "clear_sink") /\ Leads(t, "clear_steal", "clear_steal")
  BY <1>2 DEF Leads, PlaceOK, Pushes, Clearing, Parking, Helping, Holding
<1>4. ASSUME NEW v \in reg[t].victims, deque[g][v] # <<>>, at' = at,
             deque' = [deque EXCEPT ![g][v] = Tail(@)],
             Found(t, g, Head(deque[g][v])), Goto(t, "clear_sink")
      PROVE  PlaceInv'
  <2>1. deque' = [deque EXCEPT ![g] = [deque[g] EXCEPT ![v] = Tail(deque[g][v])]]
    BY <1>4
  <2>2. v \in Owners /\ Queue(g, v) = deque[g][v] /\ Queue(g, v)' = Tail(deque[g][v])
        /\ OnlyQueue(g, v)
    BY <1>1, <1>2, <2>1, DequeChange
  <2>3. /\ Queue(g, v) # <<>> /\ Found(t, g, Head(Queue(g, v)))
        /\ Queue(g, v)' = Tail(Queue(g, v))
    BY <1>4, <2>2
  <2>. QED BY <1>1, <1>2, <1>3, <1>4, <2>2, <2>3, TakeKeepsPlace
<1>5. ASSUME NEW v \in reg[t].victims, reg' = [reg EXCEPT ![t].victims = @ \ {v}],
             UNCHANGED <<deque, pc, at>>
      PROVE  PlaceInv'
  <2>1. Still
    BY <1>1, <1>5, ItemKept DEF Still
  <2>2. Goto(t, "clear_steal")
    BY <1>1, <1>5 DEF Goto, TypeOK, Types
  <2>. QED BY <1>1, <1>3, <1>5, <2>1, <2>2, GoWalks DEF PCs
<1>6. CASE Advance(t) /\ Goto(t, "user") /\ Forget(t) /\ deque' = deque
  <2>1. Still
    BY <1>1, <1>6, ItemKept DEF Still, Holding
  <2>2. /\ Heading(t) = "clear_steal" /\ Heading(t)' = "user" /\ pc'[t] = "user" /\ Others(t)
    BY <1>1, <1>6, GoHeading, GotoKeeps DEF Heading, Others, TypeOK, PCs
  <2>. QED BY <1>1, <1>2, <1>6, <2>1, <2>2, AdvanceSame DEF Holding
<1>. QED BY <1>4, <1>5, <1>6, <1>7 DEF ClearSteal

\* Changes that only matter to t: the other frames are as busy as they were.
LEMMA BusySame ==
  ASSUME TypeOK, NEW t \in Threads, Others(t), stack' = stack, NEW x, x # Frame(t)
  PROVE  Busy(x)' <=> Busy(x)
<1>1. \A u \in Threads : Frame(u)' = Frame(u) /\ Frames(u)' = Frames(u)
  BY DEF Frame, Frames, Top
<1>. QED BY <1>1, OthersHead DEF Busy

\* The frame of a thread that has not begun its call is not busy.
LEMMA IdleFrame ==
  ASSUME TypeOK, PlaceInv, NEW t \in Threads, Heading(t) = "user"
  PROVE  \A x : x = Frame(t) => ~Busy(x)
<1> SUFFICES ASSUME NEW x, x = Frame(t), Busy(x) PROVE FALSE
  OBVIOUS
<1>1. PICK u \in Threads : x \in Frames(u) /\ ~(x = Frame(u) /\ Heading(u) = "user")
  BY DEF Busy
<1>2. u = t
  BY <1>1, FrameIn, FramesApart DEF PlaceInv
<1>. QED BY <1>1, <1>2

\* Once the main thread is about to stop the workers, nobody else is in a call.
LEMMA NoCallsAtEnd ==
  ASSUME TypeOK, PlaceInv, Heading(Main) \in {"set_stop", "join"}, NEW t \in Threads,
         t # Main
  PROVE  ~HasCall(t)
<1>1. Main \in Threads /\ Main \in Workers
  BY CallersOf DEF PlaceInv
<1>2. Calling(Main) = "end"
  BY <1>1 DEF PlaceInv, Control, PlaceOK
<1>3. Calls(Main, "end")
  BY <1>1, <1>2, CallingFacts
<1>4. /\ Frame(Main) = Main /\ at[Main] \in DOMAIN Script[Main]
      /\ Script[Main][at[Main]].op = "end"
  BY <1>1, <1>3, CallersOf, CallingFacts DEF PlaceInv
<1>5. Busy(Main)
  BY <1>1, FrameIn DEF Busy
<1>6. CASE t \in Foreign
  BY <1>4, <1>5, <1>6 DEF PlaceInv, Down, AtEnd
<1>7. CASE t \in Workers
  <2>1. Running = {}
    BY DEF PlaceInv, Down, Apart
  <2>2. stack[t] = <<>>
    <3>1. stack[t] # <<>> => Top(t).task \in Running
      BY FrameIn DEF Running, Top
    <3>. QED BY <2>1, <3>1
  <2>. QED BY <1>7, <2>2 DEF HasCall, InLoop
<1>. QED BY <1>6, <1>7 DEF Threads

\* Submit keeps PlaceInv: a new live task, in the hands of its submitter.
LEMMA PlaceSubmit ==
  ASSUME TypeOK, PlaceInv, NEW t \in Threads, Submit(t) PROVE PlaceInv'
<1>1. /\ pc[t] = "user" /\ Calls(t, "submit") /\ up /\ ret' = ret /\ reg' = reg
      /\ UNCHANGED <<deque, mailbox, up, stack, at, done, dropped>>
  BY DEF Submit, In, queueVars, flowVars
<1>2. PICK k \in Tasks : k = Call(t).arg
  BY <1>1, CallTyped
<1>3. submitted' = submitted \cup {k} /\ pending' = pending + 1
  BY <1>2 DEF Submit
<1>4. /\ Calling(t) = "submit" /\ HasCall(t) /\ ~InLoop(t)
      /\ Frame(t) \in Callers /\ at[Frame(t)] \in DOMAIN Script[Frame(t)]
      /\ Call(t) = Script[Frame(t)][at[Frame(t)]] /\ Call(t).op = "submit"
  BY <1>1, CallingFacts DEF Calls, HasCall
<1>5. PICK l \in {"push_local", "push_mail"} :
        Goto(t, l) /\ (l = "push_local" => t \in Workers)
  BY DEF Submit, Members
<1>6. /\ Heading(t) = "user" /\ Heading(t)' = l /\ pc'[t] = l /\ Others(t)
      /\ \A u \in Threads \ {t} : pc'[u] = pc[u] /\ Heading(u)' = Heading(u)
  BY <1>1, <1>5, GoHeading, GotoKeeps DEF Heading, Others, TypeOK, PCs
<1>7. k \notin submitted
  <2>1. \A x : x = Frame(t) => ~Busy(x)
    BY <1>6, IdleFrame
  <2>. QED BY <1>2, <1>4, <2>1 DEF PlaceInv, SubmitInv
<1>8. Call(t) \in Op /\ Call(t) = [op |-> "submit", arg |-> k]
      /\ Script[Frame(t)] \in Seq(Op)
  <2>1. Script[Frame(t)] \in Seq(Op)
    BY <1>4, TaskAssumption DEF Callers
  <2>2. Call(t) \in Op
    BY <1>4, <2>1, ElementOfSeq
  <2>. QED BY <1>2, <1>4, <2>1, <2>2 DEF Op
<1>9. ASSUME NEW x \in Callers, NEW i \in DOMAIN Script[x], Script[x][i].op = "submit",
             Script[x][i].arg = k
      PROVE  x = Frame(t) /\ i = at[Frame(t)]
  <2>1. Script[x] \in Seq(Op)
    BY TaskAssumption DEF Callers
  <2>2. Script[x][i] \in Op
    BY <2>1, ElementOfSeq
  <2>3. Script[x][i] = Call(t)
    BY <1>8, <1>9, <2>2 DEF Op
  <2>4. x \in DOMAIN Script /\ Frame(t) \in DOMAIN Script
    BY <1>4, TaskAssumption DEF Callers
  <2>. QED BY <1>4, <1>9, <2>3, <2>4, OnceAssumption
<1>10. Control'
  <2>1. PlaceOK(t, l)
    BY <1>4, <1>5 DEF PlaceOK, Pushes, Clearing, Parking, Helping
  <2>. QED BY <1>1, <1>6, <2>1, WalkControl DEF PlaceInv
<1>11. Items'
  BY <1>1, <1>6 DEF PlaceInv, Items, Holding
<1>12. SubmitInv'
  <2> SUFFICES ASSUME NEW x \in Callers, NEW i \in DOMAIN Script[x], Script[x][i].op = "submit"
               PROVE  /\ i > at[x] => Script[x][i].arg \notin submitted'
                      /\ i = at[x] => (Script[x][i].arg \in submitted' <=> Busy(x)')
    BY <1>1 DEF SubmitInv
  <2>1. /\ i > at[x] => Script[x][i].arg \notin submitted
        /\ i = at[x] => (Script[x][i].arg \in submitted <=> Busy(x))
    BY DEF PlaceInv, SubmitInv
  <2>2. i \in Nat /\ at[x] \in Nat
    BY TaskAssumption, ElementOfSeq DEF Callers, TypeOK, Types
  <2>3. CASE x = Frame(t)
    <3>1. i = at[x] => Script[x][i].arg \in submitted'
      BY <1>2, <1>3, <1>4, <2>3
    <3>2. Busy(x)'
      <4>1. x \in Frames(t)' /\ Heading(t)' # "user"
        BY <1>1, <1>6, <2>3, FrameIn DEF Frames
      <4>. QED BY <4>1 DEF Busy
    <3>3. i > at[x] => Script[x][i].arg # k
      BY <1>9, <2>2, <2>3
    <3>. QED BY <1>3, <2>1, <3>1, <3>2, <3>3
  <2>4. CASE x # Frame(t)
    <3>1. Script[x][i].arg # k
      BY <1>9, <2>4
    <3>2. Busy(x)' <=> Busy(x)
      BY <1>1, <1>6, <2>4, BusySame
    <3>. QED BY <1>3, <2>1, <3>1, <3>2
  <2>. QED BY <2>3, <2>4
<1>13. StackOnce' /\ QueueOnce' /\ HandOnce'
       /\ Waiting' = Waiting /\ InHand' = InHand /\ Running' = Running
  BY <1>1 DEF PlaceInv, StackOnce, QueueOnce, HandOnce, Queue, Waiting, InHand, Running
<1>14. Live' = Live \cup {k} /\ k \notin Live /\ done \cup dropped \subseteq submitted
  BY <1>1, <1>3, <1>7 DEF Live, PlaceInv, Apart
<1>15. Pushed' = Pushed \cup {k}
  <2>1. \A u \in Threads : Frame(u)' = Frame(u) /\ Frames(u)' = Frames(u)
    BY <1>1 DEF Frame, Frames, Top
  <2>2. ASSUME NEW j \in Tasks, j # k, NEW u \in Threads, NEW x
        PROVE  Pushing(u, x, j)' <=> Pushing(u, x, j)
    BY <1>1, <1>3, <1>6, <2>1, <2>2 DEF Pushing
  <2>3. \A x : \A u \in Threads : ~Pushing(u, x, k)
    BY <1>7 DEF Pushing
  <2>4. \A x : x = Frame(t) => Pushing(t, x, k)'
    <3>1. Frame(t) \notin Workers \ {Main}
      BY <1>4, ThreadAssumption, TaskAssumption DEF Callers, Threads
    <3>2. at[Frame(t)] <= Len(Script[Frame(t)])
      BY <1>4, <1>8, ElementOfSeq
    <3>. QED BY <1>1, <1>3, <1>4, <1>6, <1>8, <3>1, <3>2 DEF Pushing
  <2>5. k \in Pushed'
    BY <2>1, <2>4, FrameIn DEF Pushed
  <2>6. \A j \in Tasks : j # k => (j \in Pushed' <=> j \in Pushed)
    BY <2>1, <2>2 DEF Pushed
  <2>7. Pushed \subseteq Tasks /\ Pushed' \subseteq Tasks
    BY DEF Pushed
  <2>. QED BY <2>5, <2>6, <2>7
<1>16. Apart'
  BY <1>1, <1>3, <1>13, <1>14, <1>15 DEF PlaceInv, Apart
<1>17. Pending'
  BY <1>3, <1>14, FS_AddElement DEF PlaceInv, Pending
<1>18. Down'
  <2>1. Main \in Threads /\ Main \in Workers
    BY CallersOf DEF PlaceInv
  <2>2. ASSUME AtEnd', NEW f \in Foreign PROVE pc'[f] = "user" /\ ~HasCall(f)'
    <3>1. Main # Frame(t)
      BY <1>1, <1>4, <2>2 DEF AtEnd
    <3>2. AtEnd
      BY <1>1, <1>6, <2>2, <3>1, BusySame DEF AtEnd
    <3>3. pc[f] = "user" /\ ~HasCall(f)
      BY <3>2 DEF PlaceInv, Down
    <3>4. f # t /\ f \in Threads
      BY <1>4, <3>3 DEF Threads
    <3>. QED BY <1>1, <1>6, <3>3, <3>4 DEF HasCall, InLoop, Frame, Top
  <2>3. Heading(Main)' \notin {"set_stop", "join"}
    BY <1>4, <1>6, <2>1, NoCallsAtEnd
  <2>. QED BY <1>1, <2>2, <2>3 DEF Down
<1>. QED BY <1>10, <1>11, <1>12, <1>13, <1>16, <1>17, <1>18 DEF PlaceInv

\* ClearFinish keeps PlaceInv: the task in hand is dropped.
LEMMA PlaceClearFinish ==
  ASSUME TypeOK, PlaceInv, NEW t \in Threads, ClearFinish(t) PROVE PlaceInv'
<1>1. /\ pc[t] = "clear_finish" /\ Calls(t, "clear") /\ Forget(t)
      /\ pending' = pending - 1 /\ dropped' = dropped \cup {reg[t].item}
      /\ UNCHANGED <<deque, mailbox, up, stack, at, submitted, done>>
  BY DEF ClearFinish, FinishTask, In, queueVars, flowVars
<1>2. Heading(t) = "clear_finish"
  BY <1>1 DEF Heading
<1>3. PICK k \in Tasks : k = reg[t].item
  BY <1>2 DEF TypeOK, LocalsOK, Holding
<1>4. Heading(t)' = "clear_mail" /\ pc'[t] \in {"notify_lock", "clear_mail"} /\ Others(t)
  <2>1. CASE Goto(t, "clear_mail") /\ ret' = ret
    BY <1>1, <2>1, GoHeading, GotoKeeps DEF Heading, Others, TypeOK, PCs
  <2>2. CASE NotifyThen(t, "clear_mail")
    BY <1>1, <2>2, NotifyHeading, NotifyKeeps DEF Heading, Others, TypeOK, Returns
  <2>. QED BY <2>1, <2>2 DEF ClearFinish, FinishTask
<1>5. reg'[t].item = None /\ \A u \in Threads \ {t} : reg'[u] = reg[u]
  BY <1>1, ForgetKeeps DEF TypeOK, Types, Forget, NoRegs
<1>6. Calling(t) = "clear" /\ HasCall(t)
  BY <1>1, CallingFacts DEF Calls
<1>7. k \in InHand /\ None \notin Tasks
  BY <1>3, ThreadAssumption DEF InHand
<1>8. k \in Live /\ k \notin Pushed /\ k \notin Waiting /\ k \notin Running
  BY <1>7 DEF PlaceInv, Apart
<1>9. Live' = Live \ {k} /\ k \in submitted
  BY <1>1, <1>3, <1>8 DEF Live
<1>10. Passes(t)
  BY <1>1, <1>2, <1>4, <1>6 DEF Passes, PlaceOK, Pushes, Clearing, Parking, Helping
<1>11. Control' /\ SubmitInv' /\ Down'
  BY <1>1, <1>4, <1>6, <1>9, <1>10, WalkControl, WalkSubmit, WalkDown DEF PlaceInv, Passes
<1>12. Items'
  BY <1>4, <1>5, OthersHead DEF PlaceInv, Items, Holding
<1>13. HandOnce' /\ InHand' = InHand \ {k}
  <2>1. \A u \in Threads \ {t} : reg[u].item # k
    BY <1>3, <1>7 DEF PlaceInv, HandOnce
  <2>. QED BY <1>3, <1>5, <1>7, <2>1 DEF PlaceInv, HandOnce, InHand
<1>14. Pushed' = Pushed
  BY <1>1, <1>4, PushedSame
<1>15. StackOnce' /\ QueueOnce' /\ Waiting' = Waiting /\ Running' = Running
  BY <1>1 DEF PlaceInv, StackOnce, QueueOnce, Queue, Waiting, Running
<1>16. Pending'
  BY <1>1, <1>8, <1>9, FS_RemoveElement DEF PlaceInv, Pending
<1>17. Apart'
  BY <1>1, <1>3, <1>8, <1>9, <1>13, <1>14, <1>15 DEF PlaceInv, Apart
<1>. QED BY <1>11, <1>12, <1>13, <1>15, <1>16, <1>17 DEF PlaceInv

\* Exec keeps PlaceInv: the task in hand gets a frame above the call that found it.
LEMMA PlaceExec ==
  ASSUME TypeOK, PlaceInv, NEW t \in Threads, Exec(t) PROVE PlaceInv'
<1>1. /\ pc[t] = "exec" /\ Forget(t) /\ Goto(t, "user") /\ ret' = ret
      /\ UNCHANGED <<deque, mailbox, pending, up, at, submitted, done, dropped>>
  BY DEF Exec, queueVars, histVars
<1>2. Heading(t) = "exec"
  BY <1>1 DEF Heading
<1>3. PICK k \in Tasks : k = reg[t].item
  BY <1>2 DEF TypeOK, LocalsOK, Holding
<1>4. /\ Heading(t)' = "user" /\ pc'[t] = "user" /\ Others(t)
      /\ \A u \in Threads \ {t} : pc'[u] = pc[u] /\ Heading(u)' = Heading(u)
  BY <1>1, GoHeading, GotoKeeps DEF Heading, Others, TypeOK, PCs
<1>5. reg'[t].item = None /\ \A u \in Threads \ {t} : reg'[u] = reg[u]
  BY <1>1, ForgetKeeps DEF TypeOK, Types, Forget, NoRegs
<1>6. t \in Workers /\ Calling(t) \in {"loop"} \cup Helpful
  BY <1>1, AtPlace DEF PlaceOK, Helping
<1>7. k \in InHand /\ None \notin Tasks
  BY <1>3, ThreadAssumption DEF InHand
<1>8. k \in Live /\ k \notin Pushed /\ k \notin Waiting /\ k \notin Running
  BY <1>7 DEF PlaceInv, Apart
<1>9. PICK n \in Nat : n = Len(stack[t])
  BY DEF TypeOK, Types
<1>10. /\ DOMAIN stack[t] = 1 .. n /\ DOMAIN stack'[t] = 1 .. n + 1
       /\ stack'[t] # <<>> /\ Len(stack'[t]) = n + 1
       /\ stack'[t][n + 1].task = k
       /\ \A i \in 1 .. n : stack'[t][i] = stack[t][i]
       /\ n = 0 <=> stack[t] = <<>>
       /\ \A u \in Threads \ {t} : stack'[u] = stack[u]
  <2> DEFINE Frm == [task : Tasks, saved : Groups \cup {None}]
             e == [task |-> reg[t].item, saved |-> ctx[t]]
  <2>1. stack \in [Threads -> Seq(Frm)] /\ e \in Frm /\ e.task = k
    BY <1>3, <1>6 DEF TypeOK, Types
  <2>2. stack'[t] = Append(stack[t], e) /\ \A u \in Threads \ {t} : stack'[u] = stack[u]
    BY <2>1 DEF Exec
  <2>. HIDE DEF Frm, e
  <2>3. /\ DOMAIN Append(stack[t], e) = 1 .. n + 1 /\ Append(stack[t], e)[n + 1] = e
        /\ \A i \in DOMAIN stack[t] : Append(stack[t], e)[i] = stack[t][i]
        /\ Append(stack[t], e) # <<>> /\ Len(Append(stack[t], e)) = n + 1
        /\ DOMAIN stack[t] = 1 .. n /\ (n = 0 <=> stack[t] = <<>>)
    BY <1>9, <2>1
  <2>. QED BY <2>1, <2>2, <2>3
<1>11. /\ \A u \in Threads \ {t} : Frame(u)' = Frame(u) /\ Frames(u)' = Frames(u)
       /\ Frame(t)' = k /\ Frames(t)' = Frames(t) \cup {k}
  <2>1. Frame(t)' = k
    BY <1>10 DEF Frame, Top
  <2>2. Frames(t)' = Frames(t) \cup {k}
    <3>1. Frames(t)' \subseteq Frames(t) \cup {k}
      BY <1>10 DEF Frames
    <3>2. Frames(t) \cup {k} \subseteq Frames(t)'
      BY <1>10 DEF Frames
    <3>. QED BY <3>1, <3>2
  <2>. QED BY <1>10, <2>1, <2>2 DEF Frame, Frames, Top
<1>12. \A u \in Threads : k \notin Frames(u)
  BY <1>8, TaskAssumption DEF Frames, Running
<1>13. \A x : x \notin {k} => (Busy(x)' <=> Busy(x))
  <2> SUFFICES ASSUME NEW x, x # k PROVE Busy(x)' <=> Busy(x)
    OBVIOUS
  <2>1. \A u \in Threads \ {t} :
          x \in Frames(u)' /\ ~(x = Frame(u)' /\ Heading(u)' = "user")
            <=> x \in Frames(u) /\ ~(x = Frame(u) /\ Heading(u) = "user")
    BY <1>4, <1>11
  <2>2. x \in Frames(t)' /\ ~(x = Frame(t)' /\ Heading(t)' = "user")
          <=> x \in Frames(t) /\ ~(x = Frame(t) /\ Heading(t) = "user")
    BY <1>2, <1>11
  <2>. QED BY <2>1, <2>2 DEF Busy
<1>14. ~Busy(k) /\ ~Busy(k)'
  BY <1>4, <1>11, <1>12 DEF Busy
<1>15. Control'
  <2>1. ASSUME NEW u \in Threads \ {t} PROVE PlaceOK(u, Heading(u))' /\ BelowOK(u)'
    <3>1. PlaceOK(u, Heading(u)) /\ BelowOK(u)
      BY DEF PlaceInv, Control
    <3>2. Calling(u)' = Calling(u)
      BY <1>1, <1>10, <1>11 DEF Calling, InLoop, HasCall, Call
    <3>3. PlaceOK(u, Heading(u))'
      BY <1>4, <3>1, <3>2 DEF PlaceOK
    <3>4. BelowOK(u)'
      BY <1>1, <1>10, <3>1 DEF BelowOK, Below
    <3>. QED BY <3>3, <3>4
  <2>2. PlaceOK(t, Heading(t))'
    <3>1. ~InLoop(t)'
      BY <1>10 DEF InLoop
    <3>2. HasCall(t)' => Call(t)'.op # "loop"
      <4>1. k \in Callers /\ Script[k] \in Seq(Op) /\ at[k] \in Nat \ {0}
        BY TaskAssumption DEF Callers, TypeOK, Types
      <4>2. at[k] <= Len(Script[k]) => Script[k][at[k]] \in Op
        BY <4>1
      <4>. QED BY <1>1, <1>11, <4>2 DEF HasCall, Call, Op
    <3>3. Calling(t)' # "loop"
      BY <3>1, <3>2 DEF Calling
    <3>. QED BY <1>4, <3>3 DEF PlaceOK, Pushes, Clearing, Parking, Helping
  <2>3. BelowOK(t)'
    <3> SUFFICES ASSUME NEW i \in 1 .. n + 1
                 PROVE  \/ Below(t, i)' \in Workers \ {Main}
                        \/ /\ Below(t, i)' \in Callers
                           /\ at[Below(t, i)'] \in DOMAIN Script[Below(t, i)']
                           /\ Script[Below(t, i)'][at[Below(t, i)']].op \in Helpful
      BY <1>1, <1>10 DEF BelowOK
    <3>1. CASE i \in 1 .. n
      <4>1. Below(t, i)' = Below(t, i)
        BY <1>10, <3>1 DEF Below
      <4>. QED BY <1>10, <3>1, <4>1 DEF PlaceInv, Control, BelowOK
    <3>2. CASE i = n + 1
      <4>1. Below(t, i)' = Frame(t)
        BY <1>9, <1>10, <3>2 DEF Below, Frame, Top
      <4>2. CASE Calling(t) = "loop"
        BY <4>1, <4>2, CallingFacts DEF InLoop, Frame
      <4>3. CASE Calling(t) \in Helpful
        BY <4>1, <4>3, CallingFacts DEF Helpful
      <4>. QED BY <1>6, <4>2, <4>3
    <3>. QED BY <3>1, <3>2
  <2>. QED BY <2>1, <2>2, <2>3 DEF Control
<1>16. StackOnce' /\ Running' = Running \cup {k}
  <2>1. ASSUME NEW u \in Threads, NEW i \in DOMAIN stack'[u]
        PROVE  \/ u = t /\ i = n + 1 /\ stack'[u][i].task = k
               \/ i \in DOMAIN stack[u] /\ stack'[u][i] = stack[u][i]
    BY <1>10
  <2>2. ASSUME NEW u \in Threads, NEW i \in DOMAIN stack[u]
        PROVE  i \in DOMAIN stack'[u] /\ stack'[u][i] = stack[u][i] /\ stack[u][i].task # k
    BY <1>8, <1>10 DEF Running
  <2>3. \A u, v \in Threads : \A i \in DOMAIN stack'[u], j \in DOMAIN stack'[v] :
          stack'[u][i].task = stack'[v][j].task => u = v /\ i = j
    BY <2>1, <2>2 DEF PlaceInv, StackOnce
  <2>4. \A f \in Foreign : stack'[f] = <<>>
    BY <1>6, <1>10, ThreadAssumption DEF PlaceInv, StackOnce, Threads
  <2>5. Running' \subseteq Running \cup {k}
    BY <2>1 DEF Running
  <2>6. Running \subseteq Running'
    BY <2>2 DEF Running
  <2>7. k \in Running'
    BY <1>10 DEF Running
  <2>. QED BY <2>3, <2>4, <2>5, <2>6, <2>7 DEF StackOnce
<1>17. Items'
  BY <1>4, <1>5 DEF PlaceInv, Items, Holding
<1>18. SubmitInv'
  BY <1>1, <1>13, <1>14 DEF PlaceInv, SubmitInv
<1>19. HandOnce' /\ InHand' = InHand \ {k}
  <2>1. \A u \in Threads \ {t} : reg[u].item # k
    BY <1>3, <1>7 DEF PlaceInv, HandOnce
  <2>. QED BY <1>3, <1>5, <1>7, <2>1 DEF PlaceInv, HandOnce, InHand
<1>20. Pushed' = Pushed
  <2>1. \A x : \A u \in Threads, j \in Tasks : x # k => (Pushing(u, x, j)' <=> Pushing(u, x, j))
    BY <1>1, <1>4, <1>11 DEF Pushing
  <2>2. ASSUME NEW j \in Tasks, NEW u \in Threads, Pushing(u, k, j)' PROVE FALSE
    <3>1. j \in submitted /\ at[k] <= Len(Script[k])
          /\ Script[k][at[k]] = [op |-> "submit", arg |-> j]
      BY <1>1, <2>2 DEF Pushing
    <3>2. k \in Callers /\ Script[k] \in Seq(Op) /\ at[k] \in Nat \ {0}
      BY TaskAssumption DEF Callers, TypeOK, Types
    <3>3. at[k] \in DOMAIN Script[k]
      BY <3>1, <3>2
    <3>. QED BY <1>14, <3>1, <3>2, <3>3 DEF PlaceInv, SubmitInv
  <2>3. Pushed' \subseteq Pushed
    BY <1>11, <2>1, <2>2 DEF Pushed
  <2>4. Pushed \subseteq Pushed'
    BY <1>11, <1>12, <2>1 DEF Pushed
  <2>. QED BY <2>3, <2>4
<1>21. QueueOnce' /\ Waiting' = Waiting /\ Live' = Live /\ Pending'
  BY <1>1 DEF PlaceInv, QueueOnce, Queue, Waiting, Live, Pending
<1>22. Apart'
  BY <1>1, <1>8, <1>16, <1>19, <1>20, <1>21 DEF PlaceInv, Apart
<1>23. Down'
  <2>1. Main \in Threads /\ t \notin Foreign
    BY <1>6, CallersOf, ThreadAssumption DEF PlaceInv
  <2>2. up /\ Heading(Main) \notin {"set_stop", "join"}
    BY <1>8 DEF PlaceInv, Down
  <2>3. AtEnd' => AtEnd
    <3>1. Main # k
      BY <2>1, TaskAssumption
    <3>. QED BY <1>1, <1>13, <3>1 DEF AtEnd
  <2>4. ASSUME AtEnd, NEW f \in Foreign PROVE pc'[f] = "user" /\ ~HasCall(f)'
    <3>1. pc[f] = "user" /\ ~HasCall(f)
      BY <2>4 DEF PlaceInv, Down
    <3>2. f \in Threads \ {t}
      BY <2>1 DEF Threads
    <3>. QED BY <1>1, <1>4, <1>10, <1>11, <3>1, <3>2 DEF HasCall, InLoop
  <2>. QED BY <1>1, <1>4, <2>1, <2>2, <2>3, <2>4 DEF Down
<1>. QED BY <1>15, <1>16, <1>17, <1>18, <1>19, <1>21, <1>22, <1>23 DEF PlaceInv

\* EndTask keeps PlaceInv: the task leaves its frame to the call below it.
LEMMA PlaceEndTask ==
  ASSUME TypeOK, PlaceInv, NEW t \in Threads, EndTask(t) PROVE PlaceInv'
<1>1. /\ pc[t] = "user" /\ stack[t] # <<>> /\ ~HasCall(t)
      /\ pending' = pending - 1 /\ done' = done \cup {Top(t).task}
      /\ UNCHANGED <<deque, mailbox, up, at, reg, submitted, dropped>>
  BY DEF EndTask, FinishTask, queueVars
<1>2. Heading(t) = "user" /\ ~InLoop(t)
  BY <1>1 DEF Heading, InLoop
<1>3. PICK k \in Tasks : k = Top(t).task /\ k = Frame(t)
  BY <1>1, FrameIn DEF Frame
<1>4. PICK n \in Nat : n + 1 = Len(stack[t])
  <2>1. stack[t] \in Seq([task : Tasks, saved : Groups \cup {None}])
    BY DEF TypeOK, Types
  <2>2. Len(stack[t]) \in Nat /\ Len(stack[t]) # 0
    BY <1>1, <2>1
  <2>3. Len(stack[t]) - 1 \in Nat /\ (Len(stack[t]) - 1) + 1 = Len(stack[t])
    BY <2>2
  <2>. QED BY <2>3
<1>5. /\ DOMAIN stack[t] = 1 .. n + 1 /\ DOMAIN stack'[t] = 1 .. n
      /\ stack[t][n + 1].task = k /\ Len(stack'[t]) = n
      /\ \A i \in 1 .. n : stack'[t][i] = stack[t][i]
      /\ n = 0 <=> stack'[t] = <<>>
      /\ \A u \in Threads \ {t} : stack'[u] = stack[u]
      /\ SubSeq(stack[t], 1, Len(stack[t]) - 1) = stack'[t]
  <2> DEFINE Frm == [task : Tasks, saved : Groups \cup {None}]
  <2>1. stack \in [Threads -> Seq(Frm)]
    BY DEF TypeOK, Types
  <2>2. /\ stack'[t] = SubSeq(stack[t], 1, Len(stack[t]) - 1)
        /\ \A u \in Threads \ {t} : stack'[u] = stack[u]
    BY <2>1 DEF EndTask
  <2>3. PICK s \in Seq(Frm) : s = stack[t]
    BY <2>1
  <2>. HIDE DEF Frm
  <2>4. Len(s) = n + 1 /\ Len(s) - 1 = n
    BY <1>4, <2>3
  <2>5. /\ DOMAIN SubSeq(s, 1, n) = 1 .. n /\ Len(SubSeq(s, 1, n)) = n
        /\ \A i \in 1 .. n : SubSeq(s, 1, n)[i] = s[i]
        /\ n = 0 <=> SubSeq(s, 1, n) = <<>>
        /\ DOMAIN s = 1 .. n + 1
    BY <2>4
  <2>. QED BY <1>3, <1>4, <2>2, <2>3, <2>4, <2>5 DEF Top
<1>6. k \in Running
  BY <1>5 DEF Running
<1>7. k \in Live /\ k \notin Pushed /\ k \notin Waiting /\ k \notin InHand
  BY <1>6 DEF PlaceInv, Apart
<1>8. t \in Workers /\ t \notin Foreign
  BY <1>1, ThreadAssumption DEF PlaceInv, StackOnce, Threads
<1>9. PICK f : f = Below(t, n + 1)
  OBVIOUS
<1>10. /\ f = IF n = 0 THEN t ELSE stack[t][n].task
       /\ f \in Frames(t) /\ f # k
       /\ \/ f \in Workers \ {Main}
          \/ /\ f \in Callers /\ at[f] \in DOMAIN Script[f]
             /\ Script[f][at[f]].op \in Helpful
  <2>1. n + 1 \in DOMAIN stack[t] /\ (n + 1 = 1 <=> n = 0) /\ (n + 1) - 1 = n
    BY <1>5
  <2>. QED BY <1>3, <1>9, <2>1, BelowIn DEF PlaceInv, Control, BelowOK, Below
<1>11. Frame(t)' = f /\ Frames(t)' = Frames(t) \ {k}
       /\ \A u \in Threads \ {t} : Frame(u)' = Frame(u) /\ Frames(u)' = Frames(u)
  <2>1. Frame(t)' = f
    <3>1. CASE n = 0
      BY <1>5, <1>10, <3>1 DEF Frame
    <3>2. CASE n # 0
      BY <1>5, <1>10, <3>2 DEF Frame, Top
    <3>. QED BY <3>1, <3>2
  <2>2. \A i \in 1 .. n : stack[t][i].task # k
    BY <1>5 DEF PlaceInv, StackOnce
  <2>3. t # k
    BY <1>3, TaskAssumption
  <2>4. Frames(t)' = Frames(t) \ {k}
    <3>1. Frames(t)' \subseteq Frames(t) \ {k}
      BY <1>5, <2>2, <2>3 DEF Frames
    <3>2. Frames(t) \ {k} \subseteq Frames(t)'
      <4>1. \A i \in 1 .. n + 1 : stack[t][i].task # k => i \in 1 .. n
        BY <1>5
      <4>. QED BY <1>5, <4>1 DEF Frames
    <3>. QED BY <3>1, <3>2
  <2>. QED BY <1>5, <2>1, <2>4 DEF Frame, Frames, Top
<1>12. \/ InLoop(t)' /\ f = t
       \/ /\ ~InLoop(t)' /\ f \in Callers /\ at[f] \in DOMAIN Script[f]
          /\ Script[f][at[f]].op \in Helpful
  <2>1. CASE n = 0 /\ t # Main
    BY <1>5, <1>8, <1>10, <2>1 DEF InLoop
  <2>2. CASE n = 0 /\ t = Main
    BY <1>5, <1>10, <2>2 DEF InLoop
  <2>3. CASE n # 0
    <3>1. f \in Tasks
      <4>1. n \in DOMAIN stack[t] /\ stack[t] \in Seq([task : Tasks, saved : Groups \cup {None}])
        <5>1. n \in 1 .. n + 1
          BY <2>3
        <5>. QED BY <1>5, <5>1 DEF TypeOK, Types
      <4>2. stack[t][n] \in [task : Tasks, saved : Groups \cup {None}]
        BY <4>1, ElementOfSeq
      <4>. QED BY <1>10, <2>3, <4>2
    <3>2. f \notin Workers
      BY <3>1, TaskAssumption DEF Threads
    <3>. QED BY <1>5, <1>10, <2>3, <3>2 DEF InLoop
  <2>. QED BY <2>1, <2>2, <2>3
<1>13. PICK l : l = IF InLoop(t)' THEN "loop"
                    ELSE IF Script[f][at[f]].op = "submit" THEN "push_mail" ELSE "user"
  OBVIOUS
<1>14. FinishTask(t, l)
  <2>1. \A s : s = SubSeq(stack[t], 1, Len(stack[t]) - 1) =>
          FinishTask(t, IF s = <<>> /\ t \in Workers \ {Main} THEN "loop"
                        ELSE IF Script[IF s = <<>> THEN t ELSE s[Len(s)].task][at[IF s = <<>> THEN t ELSE s[Len(s)].task]].op
                             = "submit" THEN "push_mail" ELSE "user")
    BY DEF EndTask
  <2>2. (IF stack'[t] = <<>> THEN t ELSE stack'[t][Len(stack'[t])].task) = f
    BY <1>11 DEF Frame, Top
  <2>3. stack'[t] = <<>> /\ t \in Workers \ {Main} <=> InLoop(t)'
    BY DEF InLoop
  <2>. QED BY <1>5, <1>13, <2>1, <2>2, <2>3
<1>15. /\ Heading(t)' = l /\ pc'[t] \in {"notify_lock", l} /\ Others(t)
       /\ l \in {"loop", "push_mail", "user"}
       /\ \A u \in Threads \ {t} : pc'[u] = pc[u] /\ Heading(u)' = Heading(u)
  <2>1. l \in {"loop", "push_mail", "user"}
    BY <1>13
  <2>2. CASE Goto(t, l) /\ ret' = ret
    BY <1>1, <2>1, <2>2, GoHeading, GotoKeeps DEF Heading, Others, TypeOK, PCs
  <2>3. CASE NotifyThen(t, l)
    BY <1>1, <2>1, <2>3, NotifyHeading, NotifyKeeps DEF Heading, Others, TypeOK, Returns
  <2>. QED BY <1>14, <2>1, <2>2, <2>3 DEF FinishTask
<1>16. InLoop(t)' \/ (Calling(t)' = Script[f][at[f]].op /\ Calling(t)' \in Helpful)
  <2>1. CASE InLoop(t)'
    BY <2>1
  <2>2. CASE ~InLoop(t)'
    <3>1. f \in Callers /\ at[f] \in DOMAIN Script[f] /\ Script[f][at[f]].op \in Helpful
      BY <1>12, <2>2
    <3>2. Script[f] \in Seq(Op)
      BY <3>1, TaskAssumption DEF Callers
    <3>3. HasCall(t)'
      BY <1>1, <1>11, <2>2, <3>1, <3>2, ElementOfSeq DEF HasCall
    <3>. QED BY <1>1, <1>11, <2>2, <3>1, <3>3 DEF Calling, Call
  <2>. QED BY <2>1, <2>2
<1>17. Control'
  <2>1. ASSUME NEW u \in Threads \ {t} PROVE PlaceOK(u, Heading(u))' /\ BelowOK(u)'
    <3>1. PlaceOK(u, Heading(u)) /\ BelowOK(u)
      BY DEF PlaceInv, Control
    <3>2. Calling(u)' = Calling(u)
      BY <1>1, <1>5, <1>11 DEF Calling, InLoop, HasCall, Call
    <3>3. PlaceOK(u, Heading(u))'
      BY <1>15, <3>1, <3>2 DEF PlaceOK
    <3>4. BelowOK(u)'
      BY <1>1, <1>5, <3>1 DEF BelowOK, Below
    <3>. QED BY <3>3, <3>4
  <2>2. PlaceOK(t, Heading(t))'
    <3>1. CASE InLoop(t)'
      <4>1. l = "loop" /\ Calling(t)' = "loop"
        BY <1>13, <3>1 DEF Calling
      <4>. QED BY <1>15, <4>1 DEF PlaceOK, Pushes, Clearing, Parking, Helping
    <3>2. CASE ~InLoop(t)'
      <4>1. \/ l = "push_mail" /\ Calling(t)' = "submit"
            \/ l = "user" /\ Calling(t)' # "loop"
        BY <1>13, <1>16, <3>2 DEF Helpful
      <4>. QED BY <1>15, <4>1 DEF PlaceOK, Pushes, Clearing, Parking, Helping
    <3>. QED BY <3>1, <3>2
  <2>3. BelowOK(t)'
    <3>1. \A i \in 1 .. n : Below(t, i)' = Below(t, i) /\ i \in DOMAIN stack[t]
      BY <1>5 DEF Below
    <3>. QED BY <1>1, <1>5, <3>1 DEF PlaceInv, Control, BelowOK
  <2>. QED BY <2>1, <2>2, <2>3 DEF Control
<1>18. StackOnce' /\ Running' = Running \ {k}
  <2>1. ASSUME NEW u \in Threads, NEW i \in DOMAIN stack'[u]
        PROVE  /\ i \in DOMAIN stack[u] /\ stack'[u][i] = stack[u][i]
               /\ u # t \/ i # n + 1
    BY <1>5
  <2>2. ASSUME NEW u \in Threads, NEW i \in DOMAIN stack[u], u # t \/ i # n + 1
        PROVE  i \in DOMAIN stack'[u] /\ stack'[u][i] = stack[u][i]
    BY <1>5, <2>2
  <2>3. \A u, v \in Threads : \A i \in DOMAIN stack'[u], j \in DOMAIN stack'[v] :
          stack'[u][i].task = stack'[v][j].task => u = v /\ i = j
    BY <2>1 DEF PlaceInv, StackOnce
  <2>4. \A g \in Foreign : stack'[g] = <<>>
    BY <1>5, <1>8 DEF PlaceInv, StackOnce, Threads
  <2>5. \A u \in Threads : \A i \in DOMAIN stack[u] :
          stack[u][i].task = k <=> u = t /\ i = n + 1
    BY <1>5 DEF PlaceInv, StackOnce
  <2>6. Running' \subseteq Running \ {k}
    BY <2>1, <2>5 DEF Running
  <2>7. Running \ {k} \subseteq Running'
    BY <2>2, <2>5 DEF Running
  <2>. QED BY <2>3, <2>4, <2>6, <2>7 DEF StackOnce
<1>19. Items'
  BY <1>1, <1>2, <1>15 DEF PlaceInv, Items, Holding
<1>20. at[k] \notin DOMAIN Script[k] /\ ~(at[k] <= Len(Script[k])) /\ k \in Callers
  <2>1. k \in Callers /\ Script[k] \in Seq(Op) /\ at[k] \in Nat \ {0}
    BY TaskAssumption DEF Callers, TypeOK, Types
  <2>. QED BY <1>1, <1>2, <1>3, <2>1, ElementOfSeq DEF HasCall
<1>21. \A x : x \notin {k, f} => (Busy(x)' <=> Busy(x))
  <2> SUFFICES ASSUME NEW x, x # k, x # f PROVE Busy(x)' <=> Busy(x)
    OBVIOUS
  <2>1. \A u \in Threads \ {t} :
          x \in Frames(u)' /\ ~(x = Frame(u)' /\ Heading(u)' = "user")
            <=> x \in Frames(u) /\ ~(x = Frame(u) /\ Heading(u) = "user")
    BY <1>11, <1>15
  <2>2. x \in Frames(t)' /\ ~(x = Frame(t)' /\ Heading(t)' = "user")
          <=> x \in Frames(t) /\ ~(x = Frame(t) /\ Heading(t) = "user")
    BY <1>3, <1>11
  <2>. QED BY <2>1, <2>2 DEF Busy
<1>22. Busy(f)
  BY <1>3, <1>10 DEF Busy
<1>23. SubmitInv'
  <2> SUFFICES ASSUME NEW x \in Callers, NEW i \in DOMAIN Script[x], Script[x][i].op = "submit"
               PROVE  /\ i > at[x] => Script[x][i].arg \notin submitted
                      /\ i = at[x] => (Script[x][i].arg \in submitted <=> Busy(x)')
    BY <1>1 DEF SubmitInv
  <2>1. /\ i > at[x] => Script[x][i].arg \notin submitted
        /\ i = at[x] => (Script[x][i].arg \in submitted <=> Busy(x))
    BY DEF PlaceInv, SubmitInv
  <2>2. CASE x = k
    BY <1>20, <2>1, <2>2
  <2>3. CASE x = f /\ i = at[x]
    <3>1. ~InLoop(t)'
      BY <1>12, <2>3, ThreadAssumption, TaskAssumption DEF Callers, InLoop, Threads
    <3>2. l = "push_mail"
      BY <1>13, <2>3, <3>1
    <3>3. x \in Frames(t)' /\ Heading(t)' # "user"
      BY <1>10, <1>11, <1>15, <2>3, <3>2
    <3>4. Busy(x)'
      BY <3>3 DEF Busy
    <3>. QED BY <1>22, <2>1, <2>3, <3>4
  <2>4. CASE x # k /\ (x # f \/ i # at[x])
    BY <1>21, <2>1, <2>4
  <2>. QED BY <2>2, <2>3, <2>4
<1>24. Pushed' = Pushed
  <2>1. \A x : \A u \in Threads, j \in Tasks : x # k => (Pushing(u, x, j)' <=> Pushing(u, x, j))
    BY <1>1, <1>11, <1>15 DEF Pushing
  <2>2. \A u \in Threads, j \in Tasks : ~Pushing(u, k, j) /\ ~Pushing(u, k, j)'
    BY <1>1, <1>20 DEF Pushing
  <2>3. Pushed' \subseteq Pushed
    BY <1>11, <2>1, <2>2 DEF Pushed
  <2>4. Pushed \subseteq Pushed'
    BY <1>11, <2>1, <2>2 DEF Pushed
  <2>. QED BY <2>3, <2>4
<1>25. QueueOnce' /\ HandOnce' /\ Waiting' = Waiting /\ InHand' = InHand
  BY <1>1 DEF PlaceInv, QueueOnce, HandOnce, Queue, Waiting, InHand
<1>26. Live' = Live \ {k} /\ k \in submitted
  BY <1>1, <1>3, <1>7 DEF Live
<1>27. Pending'
  BY <1>1, <1>7, <1>26, FS_RemoveElement DEF PlaceInv, Pending
<1>28. Apart'
  BY <1>1, <1>3, <1>7, <1>18, <1>24, <1>25, <1>26 DEF PlaceInv, Apart
<1>29. Down'
  <2>1. Main \in Threads
    BY CallersOf DEF PlaceInv
  <2>2. up /\ Heading(Main) \notin {"set_stop", "join"}
    BY <1>7 DEF PlaceInv, Down
  <2>3. AtEnd' => AtEnd
    <3>1. Main # k
      BY <1>3, <2>1, TaskAssumption
    <3>. QED BY <1>1, <1>21, <1>22, <3>1 DEF AtEnd
  <2>4. ASSUME AtEnd, NEW g \in Foreign PROVE pc'[g] = "user" /\ ~HasCall(g)'
    <3>1. pc[g] = "user" /\ ~HasCall(g)
      BY <2>4 DEF PlaceInv, Down
    <3>2. g \in Threads \ {t}
      BY <1>8 DEF Threads
    <3>. QED BY <1>1, <1>5, <1>11, <1>15, <3>1, <3>2 DEF HasCall, InLoop
  <2>. QED BY <1>1, <1>15, <2>1, <2>2, <2>3, <2>4 DEF Down
<1>. QED BY <1>17, <1>18, <1>19, <1>23, <1>25, <1>27, <1>28, <1>29 DEF PlaceInv

-----------------------------------------------------------------------------
(* begin_execution, the initial states, and the theorem.                   *)

\* When nothing is live no task is anywhere.
LEMMA AllEmpty ==
  ASSUME TypeOK, PlaceInv, Live = {}
  PROVE  /\ \A t \in Threads : stack[t] = <<>> /\ Frame(t) = t /\ Frames(t) = {t}
         /\ \A t \in Threads : reg[t].item = None
         /\ Pushed = {} /\ Waiting = {} /\ InHand = {} /\ Running = {}
<1>1. Pushed = {} /\ Waiting = {} /\ InHand = {} /\ Running = {}
  BY DEF PlaceInv, Apart
<1>2. ASSUME NEW t \in Threads PROVE stack[t] = <<>>
  <2>1. stack[t] # <<>> => Top(t).task \in Running
    BY FrameIn DEF Running, Top
  <2>. QED BY <1>1, <2>1
<1>3. ASSUME NEW t \in Threads PROVE Frame(t) = t /\ Frames(t) = {t}
  BY <1>2 DEF Frame, Frames
<1>4. ASSUME NEW t \in Threads PROVE reg[t].item = None
  <2>1. reg[t].item \in Tasks \cup {None}
    BY DEF TypeOK, Types
  <2>. QED BY <1>1, <2>1 DEF InHand
<1>. QED BY <1>1, <1>2, <1>3, <1>4

\* Begin keeps PlaceInv: the scheduler was down, and nothing is live.
LEMMA PlaceBegin ==
  ASSUME TypeOK, PlaceInv, Begin PROVE PlaceInv'
<1>1. /\ pc[Main] = "user" /\ Calls(Main, "begin") /\ ~up /\ pending' = 0
      /\ UNCHANGED <<up, stack, at, reg, ret, submitted, done, dropped>>
  BY DEF Begin, In, histVars
<1>2. Main \in Threads /\ Main \in Workers /\ Main \notin Foreign
  BY ThreadAssumption DEF Main, Threads, Workers
<1>3. Live = {} /\ \A w \in Workers \ {Main} : pc[w] = "exited"
  BY <1>1 DEF PlaceInv, Down
<1>4. /\ \A w \in Workers \ {Main} : pc'[w] = "entry"
      /\ pc'[Main] = "latch" /\ \A f \in Foreign : pc'[f] = pc[f]
  BY <1>2, ThreadAssumption DEF Begin, Threads
<1>5. /\ \A t \in Threads : stack[t] = <<>> /\ Frame(t) = t /\ Frames(t) = {t}
      /\ \A t \in Threads : reg[t].item = None
      /\ Pushed = {} /\ Waiting = {} /\ InHand = {} /\ Running = {}
  BY <1>3, AllEmpty
<1>6. \A t \in Threads : Frame(t)' = t /\ Frames(t)' = {t} /\ stack'[t] = <<>>
  BY <1>1, <1>5 DEF Frame, Frames
<1>7. Calling(Main) = "begin" /\ at[Main] \in DOMAIN Script[Main]
      /\ Script[Main][at[Main]].op = "begin"
  BY <1>1, <1>2, <1>5, CallingFacts
<1>8. \A t \in Threads : Calling(t)' = Calling(t)
  BY <1>1 DEF Calling, InLoop, HasCall, Call, Frame, Top
<1>9. /\ \A w \in Workers \ {Main} : Heading(w)' = "entry"
      /\ Heading(Main)' = "latch" /\ \A f \in Foreign : Heading(f)' = Heading(f)
  BY <1>1, <1>4 DEF Heading
<1>10. Control'
  <2>1. \A t \in Threads : BelowOK(t)'
    BY <1>6 DEF BelowOK
  <2>2. ASSUME NEW w \in Workers \ {Main} PROVE PlaceOK(w, Heading(w))'
    <3>1. Calling(w)' = "loop"
      BY <1>6, <2>2 DEF Calling, InLoop, Threads
    <3>. QED BY <1>9, <3>1 DEF PlaceOK, Pushes, Clearing, Parking, Helping
  <2>3. PlaceOK(Main, Heading(Main))'
    BY <1>2, <1>7, <1>8, <1>9 DEF PlaceOK, Pushes, Clearing, Parking, Helping
  <2>4. ASSUME NEW f \in Foreign PROVE PlaceOK(f, Heading(f))'
    <3>1. PlaceOK(f, Heading(f)) /\ f \in Threads
      BY DEF PlaceInv, Control, Threads
    <3>. QED BY <1>8, <1>9, <3>1 DEF PlaceOK
  <2>. QED BY <2>1, <2>2, <2>3, <2>4 DEF Control, Threads
<1>11. StackOnce' /\ Items'
  BY <1>1, <1>5, <1>6 DEF StackOnce, Items, Threads
<1>12. SubmitInv'
  <2>1. ASSUME NEW x \in Callers, x # Main PROVE Busy(x)' <=> Busy(x)
    <3>1. CASE x \in Tasks
      BY <1>5, <1>6, <3>1, TaskAssumption DEF Busy
    <3>2. CASE x \in Foreign
      <4>1. \A u \in Threads : x \in Frames(u)' => Heading(u)' = Heading(u)
        BY <1>6, <1>9, <3>2
      <4>. QED BY <1>5, <1>6, <4>1 DEF Busy
    <3>. QED BY <2>1, <3>1, <3>2 DEF Callers
  <2> SUFFICES ASSUME NEW x \in Callers, NEW i \in DOMAIN Script[x], Script[x][i].op = "submit"
               PROVE  /\ i > at[x] => Script[x][i].arg \notin submitted
                      /\ i = at[x] => (Script[x][i].arg \in submitted <=> Busy(x)')
    BY <1>1 DEF SubmitInv
  <2>2. /\ i > at[x] => Script[x][i].arg \notin submitted
        /\ i = at[x] => (Script[x][i].arg \in submitted <=> Busy(x))
    BY DEF PlaceInv, SubmitInv
  <2>3. x = Main => i # at[x]
    BY <1>7
  <2>. QED BY <2>1, <2>2, <2>3
<1>13. \A g \in Groups, w \in Owners : Queue(g, w)' = <<>>
  BY DEF Begin, EmptyDeques, Queue, Owners
<1>14. QueueOnce' /\ Waiting' = {}
  BY <1>13 DEF QueueOnce, Waiting
<1>15. HandOnce' /\ InHand' = {} /\ Running' = {} /\ Live' = {}
  BY <1>1, <1>3, <1>5, <1>6 DEF HandOnce, InHand, Running, Live
<1>16. Pushed' = {}
  <2>1. ASSUME NEW u \in Threads PROVE pc'[u] = "advertise" <=> pc[u] = "advertise"
    BY <1>1, <1>2, <1>3, <1>4 DEF Threads
  <2>2. \A x : \A j \in Tasks, u \in Threads : Pushing(u, x, j)' <=> Pushing(u, x, j)
    BY <1>1, <1>5, <1>6, <2>1 DEF Pushing
  <2>. QED BY <1>5, <1>6, <2>2 DEF Pushed
<1>17. Apart'
  BY <1>1, <1>14, <1>15, <1>16 DEF PlaceInv, Apart
<1>18. Pending'
  BY <1>1, <1>15, FS_EmptySet DEF Pending
<1>19. Down'
  BY <1>1, <1>4, <1>7, <1>15 DEF Down, AtEnd
<1>. QED BY <1>10, <1>11, <1>12, <1>14, <1>15, <1>17, <1>18, <1>19 DEF PlaceInv

\* The initial states satisfy PlaceInv.
LEMMA PlaceInit ==
  ASSUME Init PROVE PlaceInv
<1>1. /\ \A t \in Threads : stack[t] = <<>> /\ reg[t].item = None
      /\ \A w \in Workers \ {Main} : pc[w] = "exited"
      /\ \A t \in {Main} \cup Foreign : pc[t] = "user"
      /\ \A t \in Threads : pc[t] \in {"user", "exited"}
      /\ \A x \in Callers : at[x] = 1
      /\ submitted = {} /\ done = {} /\ dropped = {} /\ pending = 0 /\ up = FALSE
      /\ \A g \in Groups, w \in Owners : Queue(g, w) = <<>>
  <2>1. \A t \in Threads : stack[t] = <<>> /\ reg[t].item = None
    BY DEF Init, NoRegs
  <2>2. Main \in Workers /\ Foreign \cap Workers = {}
    BY ThreadAssumption DEF Main, Workers
  <2>3. /\ \A w \in Workers \ {Main} : pc[w] = "exited"
        /\ \A t \in {Main} \cup Foreign : pc[t] = "user"
        /\ \A t \in Threads : pc[t] \in {"user", "exited"}
    BY <2>2 DEF Init, Threads
  <2>4. \A g \in Groups, w \in Owners : Queue(g, w) = <<>>
    BY DEF Init, EmptyDeques, Queue, Owners
  <2>. QED BY <2>1, <2>3, <2>4 DEF Init, Callers
<1>2. \A t \in Threads : Heading(t) = pc[t] /\ Frame(t) = t /\ Frames(t) = {t}
  BY <1>1 DEF Heading, Frame, Frames
<1>3. Main \in Threads /\ Main \in Workers /\ Main \notin Foreign
  BY ThreadAssumption DEF Main, Threads, Workers
<1>4. Control
  <2>1. \A t \in Threads : BelowOK(t)
    BY <1>1 DEF BelowOK
  <2>2. ASSUME NEW w \in Workers \ {Main} PROVE PlaceOK(w, Heading(w))
    <3>1. Calling(w) = "loop"
      BY <1>1 DEF Calling, InLoop, Threads
    <3>. QED BY <1>1, <1>2, <3>1 DEF PlaceOK, Pushes, Clearing, Parking, Helping, Threads
  <2>3. ASSUME NEW t \in {Main} \cup Foreign PROVE PlaceOK(t, Heading(t))
    <3>1. t \in Threads /\ t \in Callers
      BY <1>3 DEF Threads, Callers
    <3>2. ~InLoop(t)
      BY ThreadAssumption DEF InLoop, Threads
    <3>3. Calling(t) # "loop"
      <4>1. Script[t] \in Seq(Op) /\ at[t] = 1
        BY <1>1, <3>1, TaskAssumption DEF Callers
      <4>2. at[t] <= Len(Script[t]) => Script[t][at[t]] \in Op
        BY <4>1
      <4>. QED BY <1>2, <3>1, <3>2, <4>2 DEF Calling, HasCall, Call, Op
    <3>. QED BY <1>1, <1>2, <3>1, <3>3 DEF PlaceOK, Pushes, Clearing, Parking, Helping
  <2>. QED BY <2>1, <2>2, <2>3 DEF Control, Threads
<1>5. StackOnce /\ Items
  BY <1>1 DEF StackOnce, Items, Threads
<1>6. SubmitInv
  <2>1. ASSUME NEW x \in Callers PROVE ~Busy(x)
    <3>1. \A u \in Threads : x = u => Heading(u) = "user"
      BY <1>1, <1>2, <1>3, TaskAssumption, ThreadAssumption DEF Callers
    <3>. QED BY <1>2, <3>1 DEF Busy
  <2>. QED BY <1>1, <2>1 DEF SubmitInv
<1>7. QueueOnce /\ HandOnce
  BY <1>1 DEF QueueOnce, HandOnce
<1>8. Pushed = {} /\ Waiting = {} /\ InHand = {} /\ Running = {} /\ Live = {}
  <2>1. InHand = {}
    BY <1>1, ThreadAssumption DEF InHand
  <2>. QED BY <1>1, <2>1 DEF Pushed, Pushing, Waiting, Running, Live
<1>9. Apart
  BY <1>1, <1>8 DEF Apart
<1>10. Pending
  BY <1>1, <1>8, FS_EmptySet DEF Pending
<1>11. Down
  <2>1. ~Busy(Main) /\ Heading(Main) = "user"
    BY <1>1, <1>2, <1>3 DEF Busy
  <2>. QED BY <1>1, <1>8, <2>1 DEF Down, AtEnd
<1>. QED BY <1>4, <1>5, <1>6, <1>7, <1>9, <1>10, <1>11 DEF PlaceInv

\* Every step keeps PlaceInv.
LEMMA PlaceStep ==
  ASSUME TypeOK, PlaceInv, [Next]_vars PROVE PlaceInv'
<1>1. ASSUME NEW t \in Threads, Step(t) PROVE PlaceInv'
  BY <1>1, PlaceBegin, PlaceLatch, PlaceSubmit, PlacePushLocal, PlacePushMail, PlaceAdvertise,
     PlaceNotifyAll, PlaceTryGroup, PlaceTakeOwn, PlaceTakeMail, PlaceTakeSteal, PlaceSink,
     PlaceChain, PlaceExec, PlaceEndTask, PlaceSignal, PlaceCoopWait, PlaceClearBegin,
     PlaceClearMail, PlaceClearSteal, PlaceClearSink, PlaceClearFinish, PlaceWaitLoad,
     PlaceWaitSnapshot, PlaceSetStop, PlaceJoin, PlaceEntry, PlaceLoopHead, PlaceParkCheck,
     PlaceParkWait DEF Step
<1>2. ASSUME NEW t \in Threads, Lock(t) \/ SpuriousWake(t) PROVE PlaceInv'
  BY <1>2, PlaceNotifyLock, PlaceParkLock, PlaceSpuriousWake DEF Lock
<1>3. CASE UNCHANGED vars
  <2>1. UNCHANGED <<deque, mailbox, pending, up, pc, ret, stack, at, reg, submitted, done, dropped>>
    BY <1>3 DEF vars
  <2>2. Live' = Live /\ Busy(Main)' = Busy(Main)
    BY <2>1 DEF Live, Busy, Frames, Frame, Top, Heading
  <2>3. Control'
    <3>1. \A t \in Threads : Calling(t)' = Calling(t) /\ Heading(t)' = Heading(t)
      BY <2>1 DEF Calling, InLoop, HasCall, Call, Frame, Top, Heading
    <3>2. \A t \in Threads : BelowOK(t)'
      BY <2>1 DEF PlaceInv, Control, BelowOK, Below
    <3>. QED BY <3>1, <3>2 DEF PlaceInv, Control, PlaceOK
  <2>4. StackOnce' /\ Items' /\ QueueOnce' /\ HandOnce'
    BY <2>1 DEF PlaceInv, StackOnce, Items, Heading, QueueOnce, Queue, HandOnce
  <2>5. SubmitInv'
    BY <2>1 DEF PlaceInv, SubmitInv, Busy, Frames, Frame, Top, Heading
  <2>6. Apart' /\ Pending'
    <3>1. \A t \in Threads : Frame(t)' = Frame(t) /\ Frames(t)' = Frames(t)
      BY <2>1 DEF Frame, Frames, Top
    <3>2. Pushed' = Pushed
      BY <2>1, <3>1 DEF Pushed, Pushing
    <3>3. Waiting' = Waiting /\ InHand' = InHand /\ Running' = Running
      BY <2>1 DEF Waiting, Queue, InHand, Running
    <3>. QED BY <2>1, <2>2, <3>2, <3>3 DEF PlaceInv, Apart, Pending
  <2>7. Down'
    BY <2>1, <2>2 DEF PlaceInv, Down, AtEnd, HasCall, InLoop, Frame, Top, Heading
  <2>. QED BY <2>3, <2>4, <2>5, <2>6, <2>7 DEF PlaceInv
<1>. QED BY <1>1, <1>2, <1>3 DEF Next, Finished

\* The queued items of group g are in one of its queues, those of its members or the mailbox.
LEMMA InQueueFacts ==
  ASSUME NEW k, NEW g
  PROVE  \A p : p \in InQueue(k, g) <=>
           \E w \in Owners : \E i \in DOMAIN Queue(g, w) : Queue(g, w)[i] = k /\ p = <<w, i>>
<1>1. None \notin Workers
  BY ThreadAssumption DEF Threads
<1>2. \A q : q \in Queues(g) <=> \E w \in Owners : q = <<Queue(g, w), w>>
  BY <1>1 DEF Queues, Queue, Owners
<1>3. \A p : p \in InQueue(k, g) <=>
        \E q \in Queues(g) : \E i \in DOMAIN q[1] : q[1][i] = k /\ p = <<q[2], i>>
  BY DEF InQueue
<1>4. ASSUME NEW p, p \in InQueue(k, g)
      PROVE  \E w \in Owners : \E i \in DOMAIN Queue(g, w) : Queue(g, w)[i] = k /\ p = <<w, i>>
  <2>1. PICK q \in Queues(g) : \E i \in DOMAIN q[1] : q[1][i] = k /\ p = <<q[2], i>>
    BY <1>3, <1>4
  <2>2. PICK w \in Owners : q = <<Queue(g, w), w>>
    BY <1>2
  <2>3. q[1] = Queue(g, w) /\ q[2] = w
    BY <2>2
  <2>. QED BY <2>1, <2>3
<1>5. ASSUME NEW p, NEW w \in Owners, NEW i \in DOMAIN Queue(g, w), Queue(g, w)[i] = k,
             p = <<w, i>>
      PROVE  p \in InQueue(k, g)
  <2>1. <<Queue(g, w), w>> \in Queues(g)
    BY <1>2
  <2>. QED BY <1>3, <1>5, <2>1
<1>. QED BY <1>4, <1>5

\* The places of a task that is nowhere, and of one that is somewhere.
LEMMA PlacesFacts ==
  ASSUME TypeOK, PlaceInv, NEW k \in Tasks
  PROVE  /\ k \notin Live => Places(k) = {}
         /\ k \in Live => \E p : Places(k) = {p}
<1> DEFINE P == PushPlaces(k)
           Q == QueuePlaces(k)
           H == HandPlaces(k)
           R == StackPlaces(k)
<1>1. Places(k) = P \cup Q \cup H \cup R
  BY DEF Places
<1>2. /\ \A a : a \in P <=> \E t \in Threads : \E x \in Frames(t) : Pushing(t, x, k) /\ a = <<"push", t, x>>
      /\ \A a : a \in Q <=> \E g \in Groups : \E p \in InQueue(k, g) : a = <<"queue", g, p>>
      /\ \A a : a \in H <=> \E t \in Threads : reg[t].item = k /\ a = <<"hand", t>>
      /\ \A a : a \in R <=> \E t \in Threads : \E i \in DOMAIN stack[t] :
                              stack[t][i].task = k /\ a = <<"stack", t, i>>
  BY DEF PushPlaces, QueuePlaces, HandPlaces, StackPlaces
<1>. HIDE DEF P, Q, H, R
<1>3. /\ k \notin Pushed => P = {}
      /\ k \notin InHand => H = {}
      /\ k \notin Running => R = {}
  BY <1>2 DEF Pushed, InHand, Running
<1>4. k \notin Waiting => Q = {}
  <2>1. ASSUME NEW g \in Groups, NEW p \in InQueue(k, g) PROVE k \in Waiting
    BY <2>1, InQueueFacts DEF Waiting
  <2>. QED BY <1>2, <2>1
<1>5. ASSUME k \in Pushed PROVE \E a : P = {a}
  <2>1. PICK t \in Threads : \E x \in Frames(t) : Pushing(t, x, k)
    BY <1>5 DEF Pushed
  <2>2. PICK x \in Frames(t) : Pushing(t, x, k)
    BY <2>1
  <2>3. ASSUME NEW u \in Threads, NEW y \in Frames(u), Pushing(u, y, k) PROVE u = t /\ y = x
    <3>1. ASSUME NEW v \in Threads, NEW z \in Frames(v), Pushing(v, z, k)
          PROVE  /\ z \in DOMAIN Script /\ at[z] \in DOMAIN Script[z]
                 /\ Script[z][at[z]] = [op |-> "submit", arg |-> k]
      <4>1. z \in Callers
        BY <3>1, FrameIn DEF Pushing, Callers, Threads
      <4>2. Script[z] \in Seq(Op) /\ at[z] \in Nat \ {0} /\ z \in DOMAIN Script
        BY <4>1, TaskAssumption DEF Callers, TypeOK, Types
      <4>3. at[z] \in DOMAIN Script[z]
        BY <3>1, <4>2, ElementOfSeq DEF Pushing
      <4>. QED BY <3>1, <4>2, <4>3 DEF Pushing
    <3>2. y = x
      <4>1. Script[x][at[x]].op = "submit" /\ Script[y][at[y]] = Script[x][at[x]]
        BY <2>2, <2>3, <3>1
      <4>. QED BY <2>2, <2>3, <3>1, <4>1, OnceAssumption
    <3>. QED BY <3>2, FramesApart DEF PlaceInv
  <2>4. P = {<<"push", t, x>>}
    BY <1>2, <2>2, <2>3
  <2>. QED BY <2>4
<1>6. ASSUME k \in Waiting PROVE \E a : Q = {a}
  <2>1. PICK g \in Groups, w \in Owners : \E i \in DOMAIN Queue(g, w) : Queue(g, w)[i] = k
    BY <1>6 DEF Waiting
  <2>2. PICK i \in DOMAIN Queue(g, w) : Queue(g, w)[i] = k
    BY <2>1
  <2>3. <<w, i>> \in InQueue(k, g)
    BY <2>2, InQueueFacts
  <2>4. ASSUME NEW h \in Groups, NEW p \in InQueue(k, h) PROVE h = g /\ p = <<w, i>>
    <3>1. PICK v \in Owners : \E j \in DOMAIN Queue(h, v) : Queue(h, v)[j] = k /\ p = <<v, j>>
      BY InQueueFacts
    <3>. QED BY <2>2, <3>1 DEF PlaceInv, QueueOnce
  <2>5. Q = {<<"queue", g, <<w, i>>>>}
    BY <1>2, <2>3, <2>4
  <2>. QED BY <2>5
<1>7. ASSUME k \in InHand PROVE \E a : H = {a}
  <2>1. PICK t \in Threads : reg[t].item = k
    BY <1>7 DEF InHand
  <2>2. k # None
    BY ThreadAssumption
  <2>3. H = {<<"hand", t>>}
    BY <1>2, <2>1, <2>2 DEF PlaceInv, HandOnce
  <2>. QED BY <2>3
<1>8. ASSUME k \in Running PROVE \E a : R = {a}
  <2>1. PICK t \in Threads : \E i \in DOMAIN stack[t] : stack[t][i].task = k
    BY <1>8 DEF Running
  <2>2. PICK i \in DOMAIN stack[t] : stack[t][i].task = k
    BY <2>1
  <2>3. R = {<<"stack", t, i>>}
    BY <1>2, <2>2 DEF PlaceInv, StackOnce
  <2>. QED BY <2>3
<1>9. /\ k \in Live <=> k \in Pushed \/ k \in Waiting \/ k \in InHand \/ k \in Running
      /\ k \in Pushed => k \notin Waiting /\ k \notin InHand /\ k \notin Running
      /\ k \in Waiting => k \notin InHand /\ k \notin Running
      /\ k \in InHand => k \notin Running
  BY DEF PlaceInv, Apart
<1>10. k \notin Live => Places(k) = {}
  BY <1>1, <1>3, <1>4, <1>9
<1>11. ASSUME k \in Live PROVE \E p : Places(k) = {p}
  BY <1>1, <1>3, <1>4, <1>5, <1>6, <1>7, <1>8, <1>9, <1>11
<1>. QED BY <1>10, <1>11

\* The invariant says where each task is.
LEMMA PlacesConserved ==
  ASSUME TypeOK, PlaceInv PROVE Conserved
BY PlacesFacts, FS_EmptySet, FS_Singleton DEF Conserved

\* A submitted task is in exactly one place until it has finished or was dropped, and then
\* nowhere: no interleaving of submit_internal, take, busy_work, clear_group and the nested
\* execution of helpers loses a task or runs it twice, whatever programs submit.
THEOREM ConservedTheorem == Spec => []Conserved
<1>1. Init => PlaceInv
  BY PlaceInit
<1>2. TypeOK /\ PlaceInv /\ [Next]_vars => PlaceInv'
  BY PlaceStep
<1>3. TypeOK /\ PlaceInv => Conserved
  BY PlacesConserved
<1>. QED BY <1>1, <1>2, <1>3, TypeCorrect, PTL DEF Spec

\* The inductive invariant itself holds, for the proofs that build on it.
THEOREM PlaceCorrect == Spec => []PlaceInv
<1>1. Init => PlaceInv
  BY PlaceInit
<1>2. TypeOK /\ PlaceInv /\ [Next]_vars => PlaceInv'
  BY PlaceStep
<1>. QED BY <1>1, <1>2, TypeCorrect, PTL DEF Spec

-----------------------------------------------------------------------------
(***************************************************************************)
(* The counters and the context.                                           *)
(*                                                                         *)
(* queued_ of a group counts its queued items but for the pushes and takes *)
(* in progress, the end of the last task wakes the thread in               *)
(* wait_for_tasks, wait_for_tasks and end_execution return with nothing    *)
(* left, and a running task sees the context of its own group.             *)
(***************************************************************************)
\* A step of t leaves the locals, the frames and the call of every other thread alone, and
\* moves another thread only by waking it.
Steady(t) ==
  /\ Others(t)
  /\ \A u \in Threads \ {t} : reg'[u] = reg[u] /\ stack'[u] = stack[u]
  /\ at' = at \/ (HasCall(t) /\ Advance(t))

\* What moves the locals of t leaves those of the other threads.
LEMMA LocalsSteady ==
  ASSUME TypeOK, NEW t \in Threads,
         \/ \E n : Retry(t, n)
         \/ \E g, k : Found(t, g, k)
         \/ Forget(t)
         \/ \E g : reg' = [reg EXCEPT ![t].cand = @ \ {g}]
         \/ \E g : reg' = [reg EXCEPT ![t].cand = @ \ {g}, ![t].grp = g]
         \/ \E V : reg' = [reg EXCEPT ![t].victims = V]
         \/ reg' = [reg EXCEPT ![t].grp = None]
         \/ reg' = reg
  PROVE  \A u \in Threads \ {t} : reg'[u] = reg[u]
BY DEF Retry, Found, Forget, TypeOK, Types

\* The same for its place.
LEMMA PlaceSteady ==
  ASSUME TypeOK, NEW t \in Threads,
         \/ \E l : Goto(t, l) /\ ret' = ret
         \/ \E l : NotifyThen(t, l)
         \/ pc' = pc /\ ret' = ret
  PROVE  Others(t)
BY DEF Goto, NotifyThen, Others, TypeOK, Types

\* Every step but begin_execution is steady.
LEMMA StepSteady ==
  ASSUME TypeOK, PlaceInv, NEW t \in Threads, Step(t) \/ Lock(t) \/ SpuriousWake(t), ~Begin
  PROVE  Steady(t)
<1>1. CASE t = Main /\ Latch
  <2>1. HasCall(Main)
    BY <1>1, AtPlace, CallingFacts DEF Latch, PlaceOK, Calls
  <2>. QED BY <1>1, <2>1, PlaceSteady DEF Latch, Steady
<1>2. CASE Submit(t)
  BY <1>2, PlaceSteady DEF Submit, Steady, flowVars
<1>3. CASE PushLocal(t)
  BY <1>3, PlaceSteady DEF PushLocal, Steady, flowVars
<1>4. CASE PushMail(t)
  BY <1>4, PlaceSteady, LocalsSteady DEF PushMail, Steady, flowVars
<1>5. CASE Advertise(t)
  BY <1>5, PlaceSteady DEF Advertise, Steady, In, Calls
<1>6. CASE NotifyAll(t)
  BY <1>6 DEF NotifyAll, Steady, Others, flowVars, TypeOK, Types
<1>7. CASE TryGroup(t)
  BY <1>7, PlaceSteady, LocalsSteady DEF TryGroup, Steady, flowVars
<1>8. CASE TakeOwn(t)
  BY <1>8, PlaceSteady, LocalsSteady DEF TakeOwn, Steady, flowVars
<1>9. CASE TakeMail(t)
  BY <1>9, PlaceSteady, LocalsSteady DEF TakeMail, Steady, flowVars
<1>10. CASE TakeSteal(t)
  BY <1>10, PlaceSteady, LocalsSteady DEF TakeSteal, Steady, flowVars
<1>11. CASE Sink(t)
  BY <1>11, PlaceSteady DEF Sink, Steady, flowVars
<1>12. CASE Chain(t)
  BY <1>12, PlaceSteady DEF Chain, Steady, flowVars
<1>13. CASE Exec(t)
  <2>1. \A u \in Threads \ {t} : stack'[u] = stack[u]
    BY <1>13 DEF Exec, TypeOK, Types
  <2>. QED BY <1>13, <2>1, PlaceSteady, LocalsSteady DEF Exec, Steady
<1>14. CASE EndTask(t)
  <2>1. \A u \in Threads \ {t} : stack'[u] = stack[u]
    BY <1>14 DEF EndTask, TypeOK, Types
  <2>. QED BY <1>14, <2>1, PlaceSteady DEF EndTask, FinishTask, Steady
<1>15. CASE Signal(t)
  BY <1>15, PlaceSteady DEF Signal, Steady, In, Calls
<1>16. CASE CoopWait(t)
  BY <1>16, PlaceSteady, LocalsSteady DEF CoopWait, TryOne, Steady, In, Calls
<1>17. CASE ClearBegin(t)
  BY <1>17, PlaceSteady DEF ClearBegin, Steady, flowVars
<1>18. CASE ClearMail(t)
  BY <1>18, PlaceSteady, LocalsSteady DEF ClearMail, Steady, flowVars
<1>19. CASE ClearSteal(t)
  BY <1>19, PlaceSteady, LocalsSteady DEF ClearSteal, Steady, In, Calls
<1>20. CASE ClearSink(t)
  BY <1>20, PlaceSteady DEF ClearSink, Steady, flowVars
<1>21. CASE ClearFinish(t)
  BY <1>21, PlaceSteady, LocalsSteady DEF ClearFinish, FinishTask, Steady, flowVars
<1>22. CASE WaitLoad(t)
  BY <1>22, PlaceSteady, LocalsSteady DEF WaitLoad, WaitOver, TryOne, Steady, Waits, Calls
<1>23. CASE WaitSnapshot(t)
  <2>1. HasCall(t)
    BY <1>23, AtPlace, CallingFacts DEF WaitSnapshot, PlaceOK, Calls
  <2>. QED BY <1>23, <2>1, PlaceSteady DEF WaitSnapshot, WaitOver, Steady
<1>24. CASE SetStop(t)
  BY <1>24, PlaceSteady DEF SetStop, Steady, flowVars
<1>25. CASE Join(t)
  <2>1. HasCall(t)
    BY <1>25, AtPlace, CallingFacts DEF Join, PlaceOK, Calls
  <2>. QED BY <1>25, <2>1, PlaceSteady DEF Join, Steady
<1>26. CASE Entry(t)
  BY <1>26, PlaceSteady DEF Entry, Steady, flowVars
<1>27. CASE LoopHead(t)
  BY <1>27, PlaceSteady, LocalsSteady DEF LoopHead, Steady, flowVars
<1>28. CASE ParkCheck(t)
  BY <1>28, PlaceSteady, LocalsSteady DEF ParkCheck, Resume, Steady, flowVars
<1>29. CASE ParkWait(t)
  BY <1>29, PlaceSteady, LocalsSteady DEF ParkWait, Resume, Steady, flowVars
<1>30. CASE Lock(t) \/ SpuriousWake(t)
  BY <1>30, PlaceSteady DEF Lock, NotifyLock, ParkLock, SpuriousWake, Steady, flowVars
<1>. QED BY <1>1, <1>2, <1>3, <1>4, <1>5, <1>6, <1>7, <1>8, <1>9, <1>10, <1>11, <1>12, <1>13,
            <1>14, <1>15, <1>16, <1>17, <1>18, <1>19, <1>20, <1>21, <1>22, <1>23, <1>24, <1>25,
            <1>26, <1>27, <1>28, <1>29, <1>30 DEF Step

\* What a steady step leaves of the other threads: their frame, their call, where they head
\* for.
LEMMA SteadyKeeps ==
  ASSUME TypeOK, PlaceInv, NEW t \in Threads, Steady(t), NEW u \in Threads \ {t}
  PROVE  /\ reg'[u] = reg[u] /\ stack'[u] = stack[u]
         /\ Frame(u)' = Frame(u) /\ Top(u)' = Top(u)
         /\ InLoop(u)' = InLoop(u) /\ HasCall(u)' = HasCall(u)
         /\ Call(u)' = Call(u) /\ Calling(u)' = Calling(u)
         /\ pc'[u] = pc[u] \/ (pc[u] = "asleep" /\ pc'[u] = "park_lock")
         /\ Heading(u)' = Heading(u) \/ (Heading(u) = "asleep" /\ Heading(u)' = "park_lock")
<1>1. at'[Frame(u)] = at[Frame(u)]
  <2>1. CASE at' = at
    BY <2>1
  <2>2. CASE HasCall(t) /\ Advance(t)
    <3>1. Frame(t) \in Callers
      BY <2>2, CallingFacts DEF HasCall
    <3>2. Frame(u) # Frame(t)
      BY <2>2, <3>1, AdvanceAt, FrameIn DEF PlaceInv
    <3>. QED BY <2>2, <3>1, <3>2, AdvanceAt DEF PlaceInv
  <2>. QED BY <2>1, <2>2 DEF Steady
<1>2. /\ reg'[u] = reg[u] /\ stack'[u] = stack[u]
      /\ Frame(u)' = Frame(u) /\ Top(u)' = Top(u)
  BY DEF Steady, Frame, Top
<1>3. /\ InLoop(u)' = InLoop(u) /\ HasCall(u)' = HasCall(u) /\ Call(u)' = Call(u)
  BY <1>1, <1>2 DEF InLoop, HasCall, Call
<1>4. Calling(u)' = Calling(u)
  BY <1>3 DEF Calling
<1>. QED BY <1>2, <1>3, <1>4, OthersHead DEF Steady, Others

-----------------------------------------------------------------------------
(* wait_for_tasks and end_execution return with nothing left.              *)

\* A step that ends a wait finds nothing pending, or every worker gone.
LEMMA WaitEnds ==
  ASSUME TypeOK, PlaceInv, NEW t \in Threads, Step(t) \/ Lock(t) \/ SpuriousWake(t),
         Waits(Main), at'[Main] # at[Main]
  PROVE  submitted' = done' \cup dropped'
<1>1. Main \in Threads /\ Main \in Workers /\ Main \notin Foreign
  BY ThreadAssumption DEF Main, Threads, Workers
<1>2. Calling(Main) \in {"waitall", "end"} /\ Frame(Main) = Main
  BY <1>1, CallingFacts, CallersOf DEF PlaceInv, Waits
<1>3. ~Begin
  BY <1>2, <1>1, CallingFacts DEF Begin, In
<1>4. HasCall(t) /\ Advance(t)
  BY <1>3, StepSteady DEF Steady
<1>5. t = Main
  <2>1. Frame(t) \in Callers
    BY <1>4, CallingFacts DEF HasCall
  <2>2. Main = Frame(t)
    BY <1>4, <2>1, AdvanceAt DEF PlaceInv
  <2>. QED BY <1>1, <2>2, FrameIn, TaskAssumption
<1>6. \/ pending = 0 /\ UNCHANGED <<submitted, done, dropped>>
      \/ pc[t] = "join" /\ Join(t)
  <2>1. at' # at
    OBVIOUS
  <2>2. \A op : Calls(t, op) => op \in {"waitall", "end"}
    BY <1>2, <1>5, CallingFacts
  <2>3. ~Latch
    BY <1>1, <1>2, <1>5, AtPlace DEF Latch, PlaceOK
  <2>4. ~(\/ Submit(t) \/ PushLocal(t) \/ PushMail(t) \/ NotifyAll(t) \/ TryGroup(t)
          \/ TakeOwn(t) \/ TakeMail(t) \/ TakeSteal(t) \/ Sink(t) \/ Chain(t) \/ Exec(t)
          \/ EndTask(t))
    BY <2>1 DEF Submit, PushLocal, PushMail, NotifyAll, TryGroup, TakeOwn, TakeMail, TakeSteal,
       Sink, Chain, Exec, EndTask, flowVars
  <2>7. ~(Advertise(t) \/ Signal(t) \/ CoopWait(t))
    BY <2>2 DEF Advertise, Signal, CoopWait, In
  <2>5. ~(\/ ClearBegin(t) \/ ClearMail(t) \/ ClearSteal(t) \/ ClearSink(t) \/ ClearFinish(t)
          \/ SetStop(t) \/ Entry(t) \/ LoopHead(t) \/ ParkCheck(t) \/ ParkWait(t)
          \/ Lock(t) \/ SpuriousWake(t))
    BY <2>1, <2>2 DEF ClearBegin, ClearMail, ClearSteal, ClearSink, ClearFinish, SetStop, Entry,
       LoopHead, ParkCheck, ParkWait, Lock, NotifyLock, ParkLock, SpuriousWake, In, flowVars
  <2>6. WaitLoad(t) \/ WaitSnapshot(t) \/ Join(t)
    BY <1>3, <2>3, <2>4, <2>5, <2>7 DEF Step
  <2>. QED BY <2>1, <2>6 DEF WaitLoad, WaitSnapshot, Join, TryOne, histVars
<1>7. Live = {} /\ UNCHANGED <<submitted, done, dropped>>
  <2>1. CASE pending = 0 /\ UNCHANGED <<submitted, done, dropped>>
    BY <2>1, NoneLive DEF PlaceInv
  <2>2. CASE pc[t] = "join" /\ Join(t)
    <3>1. Heading(Main) = "join"
      BY <1>5, <2>2 DEF Heading
    <3>. QED BY <2>2, <3>1 DEF PlaceInv, Down, Join, histVars
  <2>. QED BY <1>6, <2>1, <2>2
<1>8. done \cup dropped \subseteq submitted
  BY DEF PlaceInv, Apart
<1>. QED BY <1>7, <1>8 DEF Live

\* wait_for_tasks and end_execution return only when every task that was submitted has
\* finished or was dropped: pending_ is exact, and foreign threads are done before the end.
THEOREM WaitTheorem == Spec => WaitComplete
<1>1. TypeOK /\ PlaceInv /\ [Next]_vars =>
        [Waits(Main) /\ at'[Main] # at[Main] => submitted' = done' \cup dropped']_vars
  BY WaitEnds DEF Next, Finished, vars
<1>. QED BY <1>1, TypeCorrect, PlaceCorrect, PTL DEF Spec, WaitComplete

-----------------------------------------------------------------------------
(* The end of the last task wakes the thread in wait_for_tasks.            *)

\* Nothing pending is noticed: the main thread that has read pending_ and is about to sleep,
\* or sleeps, has somebody before notify_all who has not yet taken the mutex, or has.
FinishInv ==
  /\ pc[Main] = "park_wait" /\ pending = 0 => \E u \in Threads : pc[u] = "notify_lock"
  /\ NoLostFinish

\* A step that neither parks, nor notifies, nor makes pending_ zero.
LEMMA FinishQuiet ==
  ASSUME TypeOK, PlaceInv, FinishInv, NEW t \in Threads, Steady(t),
         pending' = pending \/ pending' # 0,
         pc[t] \notin {"notify_lock", "notify_all"}, pc'[t] \notin {"park_wait", "asleep"}
  PROVE  FinishInv'
<1>1. Main \in Threads
  BY ThreadAssumption DEF Main, Threads, Workers
<1>2. \A u \in Threads : pc[u] \in {"notify_lock", "notify_all"} => pc'[u] = pc[u]
  BY DEF Steady, Others
<1>3. pc'[Main] \in {"park_wait", "asleep"} => pc'[Main] = pc[Main]
  BY <1>1 DEF Steady, Others
<1>. QED BY <1>2, <1>3 DEF FinishInv, NoLostFinish, Notifying

\* The steps of that kind.
LEMMA Awake ==
  ASSUME TypeOK, PlaceInv, NEW t \in Threads, Step(t) \/ Lock(t) \/ SpuriousWake(t), ~Begin
  PROVE  \/ /\ pending' = pending \/ pending' # 0
            /\ pc[t] \notin {"notify_lock", "notify_all"}
            /\ pc'[t] \notin {"park_wait", "asleep"}
         \/ EndTask(t) \/ ClearFinish(t) \/ NotifyLock(t) \/ NotifyAll(t) \/ ParkCheck(t) \/ ParkWait(t)
<1> DEFINE Fine == /\ pending' = pending \/ pending' # 0
                   /\ pc[t] \notin {"notify_lock", "notify_all"}
                   /\ pc'[t] \notin {"park_wait", "asleep"}
<1>1. pc \in [Threads -> PCs] /\ pending \in Nat
  BY FS_CardinalityType DEF TypeOK, Types, PlaceInv, Pending
<1>2. CASE t = Main /\ Latch
  BY <1>1, <1>2 DEF Latch, Goto
<1>3. CASE Submit(t)
  BY <1>1, <1>3 DEF Submit, In, Goto
<1>4. CASE PushLocal(t) \/ PushMail(t) \/ Advertise(t)
  BY <1>1, <1>4 DEF PushLocal, PushMail, Advertise, In, Goto, NotifyThen
<1>5. CASE TryGroup(t)
  BY <1>1, <1>5 DEF TryGroup, Goto, Caller
<1>6. CASE TakeOwn(t) \/ TakeMail(t) \/ TakeSteal(t)
  BY <1>1, <1>6 DEF TakeOwn, TakeMail, TakeSteal, Goto
<1>7. CASE Sink(t) \/ Chain(t) \/ Exec(t)
  BY <1>1, <1>7 DEF Sink, Chain, Exec, Goto, NotifyThen, queueVars
<1>8. CASE Signal(t) \/ CoopWait(t) \/ ClearBegin(t)
  BY <1>1, <1>8 DEF Signal, CoopWait, ClearBegin, TryOne, In, Goto
<1>9. CASE ClearMail(t) \/ ClearSteal(t) \/ ClearSink(t)
  BY <1>1, <1>9 DEF ClearMail, ClearSteal, ClearSink, In, Goto
<1>10. CASE WaitLoad(t) \/ WaitSnapshot(t)
  BY <1>1, <1>10 DEF WaitLoad, WaitSnapshot, WaitOver, TryOne, Goto
<1>11. CASE SetStop(t) \/ Join(t) \/ Entry(t) \/ LoopHead(t)
  BY <1>1, <1>11 DEF SetStop, Join, Entry, LoopHead, Goto, NotifyThen
<1>12. CASE ParkLock(t) \/ SpuriousWake(t)
  BY <1>1, <1>12 DEF ParkLock, SpuriousWake, Goto
<1>. QED BY <1>2, <1>3, <1>4, <1>5, <1>6, <1>7, <1>8, <1>9, <1>10, <1>11, <1>12 DEF Step, Lock

\* finish_task of the last task goes on to notify.
LEMMA FinishNotifies ==
  ASSUME TypeOK, PlaceInv, FinishInv, NEW t \in Threads, Steady(t), NEW l, FinishTask(t, l),
         pc[t] \notin {"notify_lock", "notify_all"}, l \notin {"park_wait", "asleep"}
  PROVE  FinishInv'
<1>1. pc \in [Threads -> PCs] /\ pending \in Nat
  BY FS_CardinalityType DEF TypeOK, Types, PlaceInv, Pending
<1>2. CASE pending = 1
  <2>1. pc'[t] = "notify_lock"
    BY <1>1, <1>2 DEF FinishTask, NotifyThen
  <2>. QED BY <2>1 DEF FinishInv, NoLostFinish, Notifying
<1>3. CASE pending # 1
  <2>1. pending' # 0 /\ pc'[t] = l
    BY <1>1, <1>3 DEF FinishTask, Goto
  <2>. QED BY <2>1, FinishQuiet
<1>. QED BY <1>2, <1>3

\* Every step keeps FinishInv.
LEMMA FinishStep ==
  ASSUME TypeOK, PlaceInv, FinishInv, [Next]_vars PROVE FinishInv'
<1>1. Main \in Threads
  BY ThreadAssumption DEF Main, Threads, Workers
<1>2. pc \in [Threads -> PCs]
  BY DEF TypeOK, Types
<1>3. CASE Begin
  <2>1. pc'[Main] = "latch"
    BY <1>1, <1>3, ThreadAssumption DEF Begin, Threads
  <2>. QED BY <2>1 DEF FinishInv, NoLostFinish
<1>4. ASSUME NEW t \in Threads, Step(t) \/ Lock(t) \/ SpuriousWake(t), ~Begin PROVE FinishInv'
  <2>1. Steady(t)
    BY <1>4, StepSteady
  <2>2. CASE EndTask(t)
    <3>1. PICK l \in {"loop", "push_mail", "user"} : FinishTask(t, l)
      BY <2>2 DEF EndTask
    <3>. QED BY <2>1, <2>2, <3>1, FinishNotifies DEF EndTask
  <2>3. CASE ClearFinish(t)
    BY <2>1, <2>3, FinishNotifies DEF ClearFinish, In
  <2>4. CASE NotifyLock(t)
    <3>1. /\ pc[t] = "notify_lock" /\ pc'[t] = "notify_all" /\ pc[Main] # "park_wait"
          /\ pc'[Main] \in {"park_wait", "asleep"} => pc'[Main] = pc[Main]
      BY <1>1, <1>2, <2>4 DEF NotifyLock, Goto, MutexFree
    <3>. QED BY <3>1 DEF FinishInv, NoLostFinish, Notifying
  <2>5. CASE NotifyAll(t)
    <3>1. /\ pc'[Main] # "asleep"
          /\ \A u \in Threads : pc[u] = "notify_lock" => pc'[u] = "notify_lock"
          /\ pc'[Main] = "park_wait" => pc[Main] = "park_wait"
          /\ pending' = pending
      BY <1>1, <1>2, <2>5 DEF NotifyAll, TypeOK, Types, Returns
    <3>. QED BY <3>1 DEF FinishInv, NoLostFinish
  <2>6. CASE ParkCheck(t)
    <3>1. /\ pc[t] = "park_check" /\ pending' = pending
          /\ \A u \in Threads \ {t} : pc'[u] = pc[u]
          /\ pc'[t] \in {"loop", "user"} \/ (pc'[t] = "park_wait" /\ (InLoop(t) \/ pending # 0))
      BY <1>2, <2>6 DEF ParkCheck, Resume, Goto, Called
    <3>2. ~InLoop(Main)
      BY DEF InLoop
    <3>3. pc'[Main] = "park_wait" /\ pending = 0 => Main # t
      BY <3>1, <3>2
    <3>. QED BY <1>1, <3>1, <3>3 DEF FinishInv, NoLostFinish, Notifying
  <2>7. CASE ParkWait(t)
    <3>1. /\ pc[t] = "park_wait" /\ pending' = pending
          /\ \A u \in Threads \ {t} : pc'[u] = pc[u]
          /\ pc'[t] \in {"loop", "user", "park_wait", "asleep"}
      BY <1>2, <2>7 DEF ParkWait, Resume, Goto
    <3>. QED BY <1>1, <3>1 DEF FinishInv, NoLostFinish, Notifying
  <2>. QED BY <1>4, <2>1, <2>2, <2>3, <2>4, <2>5, <2>6, <2>7, Awake, FinishQuiet
<1>5. CASE UNCHANGED vars
  BY <1>5 DEF vars, FinishInv, NoLostFinish, Notifying
<1>. QED BY <1>1, <1>3, <1>4, <1>5 DEF Next, Finished

\* The main thread does not sleep in wait_for_tasks or end_execution over an empty scheduler:
\* whoever finishes or drops the last task takes the mutex before it notifies.
THEOREM FinishTheorem == Spec => []NoLostFinish
<1>1. Init => FinishInv
  <2>1. Init => pc[Main] = "user"
    BY ThreadAssumption DEF Init, Threads, Main, Workers
  <2>. QED BY <2>1 DEF FinishInv, NoLostFinish
<1>2. TypeOK /\ PlaceInv /\ FinishInv /\ [Next]_vars => FinishInv'
  BY FinishStep
<1>3. FinishInv => NoLostFinish
  BY DEF FinishInv
<1>. QED BY <1>1, <1>2, <1>3, TypeCorrect, PlaceCorrect, PTL DEF Spec

-----------------------------------------------------------------------------
(* What a step does to the queues.                                         *)

\* t has pushed the task of its submit call, and is to count it.
Puts(t) ==
  /\ Calls(t, "submit") /\ Goto(t, "advertise")
  /\ pc[t] \in {"push_local", "push_mail"}
  /\ \E k \in Tasks, g \in Groups, w \in Owners :
       /\ k = Call(t).arg /\ g = Dest[k]
       /\ Queue(g, w)' = Append(Queue(g, w), k) /\ OnlyQueue(g, w)
  /\ UNCHANGED <<queued, ret, stack, at, ctx, reg>>

\* t has taken the oldest or the newest task of a queue, and is to discount it.
Takes(t) ==
  /\ \E g \in Groups, w \in Owners, k \in Tasks :
       /\ Queue(g, w) # <<>> /\ OnlyQueue(g, w) /\ Found(t, g, k)
       /\ \/ k = Head(Queue(g, w)) /\ Queue(g, w)' = Tail(Queue(g, w))
          \/ /\ k = Queue(g, w)[Len(Queue(g, w))]
             /\ Queue(g, w)' = SubSeq(Queue(g, w), 1, Len(Queue(g, w)) - 1)
       /\ \/ Goto(t, "sink")
          \/ Goto(t, "clear_sink") /\ Calls(t, "clear") /\ g = Call(t).arg
  /\ pc[t] \in {"take_own", "take_mail", "take_steal", "clear_mail", "clear_steal"}
  /\ UNCHANGED <<queued, ret, stack, at, ctx>>

\* A step that touches no queue, no count and no frame, and takes hold of no task.
Rests(t) ==
  /\ UNCHANGED <<deque, mailbox, queued, stack, ctx>>
  /\ pc[t] \notin {"sink", "clear_sink", "advertise"}
  /\ pc'[t] \notin {"sink", "clear_sink", "advertise"}
  /\ Heading(t)' \in Holding => Heading(t) \in Holding /\ reg' = reg

\* The ends of a queue hold tasks.
LEMMA QueueEnds ==
  ASSUME TypeOK, NEW g \in Groups, NEW w \in Owners, Queue(g, w) # <<>>
  PROVE  Head(Queue(g, w)) \in Tasks /\ Queue(g, w)[Len(Queue(g, w))] \in Tasks
BY QueueTyped

\* The steps that push.
LEMMA PushSteps ==
  ASSUME TypeOK, PlaceInv, NEW t \in Threads, PushLocal(t) \/ PushMail(t)
  PROVE  Puts(t) \/ Rests(t)
<1>1. /\ pc[t] \in {"push_local", "push_mail"} /\ Calls(t, "submit")
      /\ UNCHANGED <<queued, stack, at, ctx>>
  BY DEF PushLocal, PushMail, In, flowVars
<1>2. PICK k \in Tasks : k = Call(t).arg
  BY <1>1, CallTyped
<1>3. PICK g \in Groups : g = Dest[k]
  BY <1>2, <1>1, CallTyped
<1>4. pc \in [Threads -> PCs] /\ ret \in [Threads -> Returns]
  BY DEF TypeOK, Types
<1>5. CASE PushLocal(t)
  <2>1. mailbox' = mailbox /\ reg' = reg /\ ret' = ret /\ pc[t] = "push_local"
    BY <1>5 DEF PushLocal, In
  <2>2. CASE deque' = [deque EXCEPT ![g][t] = Append(@, k)] /\ Goto(t, "advertise")
    <3>1. t \in Workers
      BY <2>1, AtPlace DEF PlaceOK
    <3>2. deque' = [deque EXCEPT ![g] = [deque[g] EXCEPT ![t] = Append(deque[g][t], k)]]
      BY <2>2
    <3>3. t \in Owners /\ Queue(g, t)' = Append(Queue(g, t), k) /\ OnlyQueue(g, t)
      BY <2>1, <3>1, <3>2, DequeChange
    <3>. QED BY <1>1, <1>2, <1>3, <2>1, <2>2, <3>3 DEF Puts
  <2>3. CASE Goto(t, "push_mail") /\ deque' = deque
    BY <1>1, <1>4, <2>1, <2>3 DEF Rests, Goto, Heading, Holding
  <2>. QED BY <1>2, <1>3, <1>5, <2>2, <2>3 DEF PushLocal
<1>6. CASE PushMail(t)
  <2>1. deque' = deque /\ pc[t] = "push_mail"
    BY <1>6 DEF PushMail, In
  <2>2. CASE mailbox' = [mailbox EXCEPT ![g] = Append(@, k)] /\ Goto(t, "advertise")
             /\ UNCHANGED <<ret, reg>>
    <3>1. None \in Owners /\ Queue(g, None)' = Append(Queue(g, None), k) /\ OnlyQueue(g, None)
      BY <2>1, <2>2, MailChange
    <3>. QED BY <1>1, <1>2, <1>3, <2>1, <2>2, <3>1 DEF Puts
  <2>3. CASE NotifyThen(t, IF t \in Workers THEN "try" ELSE "push_mail") /\ mailbox' = mailbox
    <3>1. pc'[t] = "notify_lock" /\ ret'[t] \in {"try", "push_mail"}
      BY <1>4, <2>3 DEF NotifyThen
    <3>. QED BY <1>1, <2>1, <2>3, <3>1 DEF Rests, Heading, Holding
  <2>. QED BY <1>2, <1>3, <1>6, <2>2, <2>3 DEF PushMail
<1>. QED BY <1>5, <1>6

\* The steps that take a task to execute it.
LEMMA TakeSteps ==
  ASSUME TypeOK, PlaceInv, NEW t \in Threads, TakeOwn(t) \/ TakeMail(t) \/ TakeSteal(t)
  PROVE  Takes(t) \/ Rests(t)
<1>1. /\ pc[t] \in {"take_own", "take_mail", "take_steal"}
      /\ UNCHANGED <<queued, ret, stack, at, ctx>>
  BY DEF TakeOwn, TakeMail, TakeSteal, flowVars
<1>2. PICK g \in Groups : g = reg[t].grp
  BY <1>1 DEF TypeOK, LocalsOK, Heading, Taking, GroupsOf
<1>3. /\ pc \in [Threads -> PCs] /\ t \in Workers /\ reg[t].victims \subseteq Workers
      /\ PlaceOK(t, pc[t])
  BY <1>1, AtPlace DEF TypeOK, Types, PlaceOK, Helping
<1>4. ASSUME Goto(t, "take_mail") \/ Goto(t, "take_steal") \/ Goto(t, "try") \/ pc' = pc,
             UNCHANGED <<deque, mailbox>>
      PROVE  Rests(t)
  BY <1>1, <1>3, <1>4 DEF Rests, Goto, Heading, Holding
<1>5. CASE TakeOwn(t)
  <2>1. CASE UNCHANGED <<deque, reg>> /\ Goto(t, "take_mail")
    BY <1>4, <1>5, <2>1 DEF TakeOwn
  <2>2. ASSUME NEW d, d = deque[g][t], d # <<>>,
               deque' = [deque EXCEPT ![g][t] = SubSeq(d, 1, Len(d) - 1)],
               Found(t, g, d[Len(d)]), Goto(t, "sink"), mailbox' = mailbox
        PROVE  Takes(t)
    <3>1. deque' = [deque EXCEPT ![g] = [deque[g] EXCEPT ![t] = SubSeq(d, 1, Len(d) - 1)]]
      BY <2>2
    <3>2. t \in Owners /\ Queue(g, t) = d /\ Queue(g, t)' = SubSeq(d, 1, Len(d) - 1)
          /\ OnlyQueue(g, t)
      BY <1>3, <2>2, <3>1, DequeChange
    <3>3. d[Len(d)] \in Tasks
      BY <2>2, <3>2, QueueEnds
    <3>. QED BY <1>1, <2>2, <3>2, <3>3 DEF Takes
  <2>. QED BY <1>2, <1>5, <2>1, <2>2 DEF TakeOwn
<1>6. CASE TakeMail(t)
  <2>1. CASE mailbox' = mailbox /\ Goto(t, "take_steal")
    BY <1>4, <1>6, <2>1 DEF TakeMail
  <2>2. CASE /\ mailbox[g] # <<>> /\ mailbox' = [mailbox EXCEPT ![g] = Tail(mailbox[g])]
             /\ Found(t, g, Head(mailbox[g])) /\ Goto(t, "sink") /\ deque' = deque
    <3>1. /\ None \in Owners /\ Queue(g, None) = mailbox[g]
          /\ Queue(g, None)' = Tail(mailbox[g]) /\ OnlyQueue(g, None)
      BY <2>2, MailChange
    <3>2. Head(mailbox[g]) \in Tasks
      BY <2>2, <3>1, QueueEnds
    <3>. QED BY <1>1, <2>2, <3>1, <3>2 DEF Takes
  <2>. QED BY <1>2, <1>6, <2>1, <2>2 DEF TakeMail
<1>7. CASE TakeSteal(t)
  <2>1. CASE deque' = deque /\ (Goto(t, "try") \/ pc' = pc)
    BY <1>4, <1>7, <2>1 DEF TakeSteal
  <2>2. ASSUME NEW v \in reg[t].victims, deque[g][v] # <<>>,
               deque' = [deque EXCEPT ![g][v] = Tail(@)],
               Found(t, g, Head(deque[g][v])), Goto(t, "sink"), mailbox' = mailbox
        PROVE  Takes(t)
    <3>1. deque' = [deque EXCEPT ![g] = [deque[g] EXCEPT ![v] = Tail(deque[g][v])]]
      BY <2>2
    <3>2. v \in Owners /\ Queue(g, v) = deque[g][v] /\ Queue(g, v)' = Tail(deque[g][v])
          /\ OnlyQueue(g, v)
      BY <1>3, <2>2, <3>1, DequeChange
    <3>3. Head(deque[g][v]) \in Tasks
      BY <2>2, <3>2, QueueEnds
    <3>. QED BY <1>1, <2>2, <3>2, <3>3 DEF Takes
  <2>. QED BY <1>2, <1>7, <2>1, <2>2 DEF TakeSteal
<1>. QED BY <1>5, <1>6, <1>7

\* The steps that take a task to drop it.
LEMMA ClearSteps ==
  ASSUME TypeOK, PlaceInv, NEW t \in Threads, ClearMail(t) \/ ClearSteal(t)
  PROVE  Takes(t) \/ Rests(t)
<1>1. /\ pc[t] \in {"clear_mail", "clear_steal"} /\ Calls(t, "clear")
      /\ UNCHANGED <<queued, ret, stack, ctx>>
  BY DEF ClearMail, ClearSteal, In, flowVars
<1>2. PICK g \in Groups : g = Call(t).arg
  BY <1>1, CallTyped
<1>3. pc \in [Threads -> PCs] /\ reg[t].victims \subseteq Workers
  BY DEF TypeOK, Types
<1>4. ASSUME Goto(t, "clear_steal") \/ Goto(t, "user") \/ pc' = pc, UNCHANGED <<deque, mailbox>>
      PROVE  Rests(t)
  BY <1>1, <1>3, <1>4 DEF Rests, Goto, Heading, Holding
<1>5. CASE ClearMail(t)
  <2>1. CASE mailbox' = mailbox /\ Goto(t, "clear_steal")
    BY <1>4, <1>5, <2>1 DEF ClearMail
  <2>2. CASE /\ mailbox[g] # <<>> /\ mailbox' = [mailbox EXCEPT ![g] = Tail(mailbox[g])]
             /\ Found(t, g, Head(mailbox[g])) /\ Goto(t, "clear_sink") /\ deque' = deque
             /\ at' = at
    <3>1. /\ None \in Owners /\ Queue(g, None) = mailbox[g]
          /\ Queue(g, None)' = Tail(mailbox[g]) /\ OnlyQueue(g, None)
      BY <2>2, MailChange
    <3>2. Head(mailbox[g]) \in Tasks
      BY <2>2, <3>1, QueueEnds
    <3>. QED BY <1>1, <1>2, <2>2, <3>1, <3>2 DEF Takes
  <2>. QED BY <1>2, <1>5, <2>1, <2>2 DEF ClearMail, flowVars
<1>6. CASE ClearSteal(t)
  <2>1. CASE deque' = deque /\ (Goto(t, "user") \/ pc' = pc)
    BY <1>4, <1>6, <2>1 DEF ClearSteal
  <2>2. ASSUME NEW v \in reg[t].victims, deque[g][v] # <<>>, at' = at,
               deque' = [deque EXCEPT ![g][v] = Tail(@)],
               Found(t, g, Head(deque[g][v])), Goto(t, "clear_sink"), mailbox' = mailbox
        PROVE  Takes(t)
    <3>1. deque' = [deque EXCEPT ![g] = [deque[g] EXCEPT ![v] = Tail(deque[g][v])]]
      BY <2>2
    <3>2. v \in Owners /\ Queue(g, v) = deque[g][v] /\ Queue(g, v)' = Tail(deque[g][v])
          /\ OnlyQueue(g, v)
      BY <1>3, <2>2, <3>1, DequeChange
    <3>3. Head(deque[g][v]) \in Tasks
      BY <2>2, <3>2, QueueEnds
    <3>. QED BY <1>1, <1>2, <2>2, <3>2, <3>3 DEF Takes
  <2>. QED BY <1>2, <1>6, <2>1, <2>2 DEF ClearSteal
<1>. QED BY <1>5, <1>6

\* The kinds of steps, begin_execution apart.
LEMMA StepKinds ==
  ASSUME TypeOK, PlaceInv, NEW t \in Threads, Step(t) \/ Lock(t) \/ SpuriousWake(t), ~Begin
  PROVE  \/ Puts(t) \/ Takes(t) \/ Rests(t)
         \/ Advertise(t) \/ Sink(t) \/ ClearSink(t) \/ Exec(t) \/ EndTask(t)
<1>1. pc \in [Threads -> PCs] /\ ret \in [Threads -> Returns]
  BY DEF TypeOK, Types
<1>2. CASE t = Main /\ Latch
  BY <1>1, <1>2 DEF Latch, Rests, Goto, Heading, Holding, queueVars
<1>3. CASE Submit(t)
  BY <1>1, <1>3 DEF Submit, In, Rests, Goto, Heading, Holding, queueVars, flowVars
<1>4. CASE PushLocal(t) \/ PushMail(t)
  BY <1>4, PushSteps
<1>5. CASE TakeOwn(t) \/ TakeMail(t) \/ TakeSteal(t)
  BY <1>5, TakeSteps
<1>6. CASE ClearMail(t) \/ ClearSteal(t)
  BY <1>6, ClearSteps
<1>7. CASE NotifyAll(t)
  BY <1>1, <1>7 DEF NotifyAll, Rests, Heading, Holding, Returns, queueVars, flowVars
<1>8. CASE NotifyLock(t) \/ ParkLock(t) \/ SpuriousWake(t)
  BY <1>1, <1>8 DEF NotifyLock, ParkLock, SpuriousWake, Rests, Goto, Heading, Holding,
     queueVars, flowVars
<1>9. CASE TryGroup(t)
  <2>1. pc[t] = "try" /\ UNCHANGED <<deque, mailbox, queued, stack, ctx, ret>>
    BY <1>9 DEF TryGroup, queueVars, flowVars
  <2>2. pc'[t] \in {"try", "take_own", "park_lock", "push_mail", "user", "wait_snapshot"}
    BY <1>1, <1>9, <2>1 DEF TryGroup, Goto, Caller
  <2>. QED BY <2>1, <2>2 DEF Rests, Heading, Holding
<1>10. CASE Chain(t)
  BY <1>1, <1>10 DEF Chain, Rests, Goto, NotifyThen, Heading, Holding, Returns, queueVars, flowVars
<1>11. CASE Signal(t) \/ CoopWait(t)
  BY <1>1, <1>11 DEF Signal, CoopWait, TryOne, In, Rests, Goto, Heading, Holding, queueVars
<1>12. CASE ClearBegin(t)
  BY <1>1, <1>12 DEF ClearBegin, In, Rests, Goto, Heading, Holding, queueVars, flowVars
<1>13. CASE ClearFinish(t)
  BY <1>1, <1>13 DEF ClearFinish, In, FinishTask, Rests, Goto, NotifyThen, Heading, Holding,
     Returns, queueVars, flowVars
<1>14. CASE WaitLoad(t) \/ WaitSnapshot(t)
  BY <1>1, <1>14 DEF WaitLoad, WaitSnapshot, WaitOver, TryOne, Rests, Goto, Heading, Holding,
     queueVars
<1>15. CASE SetStop(t) \/ Join(t)
  BY <1>1, <1>15 DEF SetStop, Join, Rests, Goto, NotifyThen, Heading, Holding, Returns,
     queueVars, flowVars
<1>16. CASE Entry(t) \/ LoopHead(t)
  BY <1>1, <1>16 DEF Entry, LoopHead, Rests, Goto, Heading, Holding, queueVars, flowVars
<1>17. CASE ParkCheck(t) \/ ParkWait(t)
  BY <1>1, <1>17 DEF ParkCheck, ParkWait, Resume, Rests, Goto, Heading, Holding, queueVars,
     flowVars
<1>. QED BY <1>2, <1>3, <1>4, <1>5, <1>6, <1>7, <1>8, <1>9, <1>10, <1>11, <1>12, <1>13, <1>14,
            <1>15, <1>16, <1>17 DEF Step, Lock

-----------------------------------------------------------------------------
(* The context of a running task.                                          *)

\* Tasks are queued in, and taken from, the group they were submitted to, and the context
\* saved with a frame is the one of the task below it.
CtxInv ==
  /\ \A g \in Groups, w \in Owners : \A i \in DOMAIN Queue(g, w) : Dest[Queue(g, w)[i]] = g
  /\ \A t \in Threads : Heading(t) \in Holding => Dest[reg[t].item] = reg[t].grp
  /\ \A w \in Workers : \A i \in DOMAIN stack[w] \ {1} :
       stack[w][i].saved = Dest[stack[w][i-1].task]
  /\ CtxMatchesTask

\* The elements of a queue after a push and after a take were there before, but for the task
\* that was pushed.
LEMMA QueueElements ==
  ASSUME TypeOK, PlaceInv, NEW t \in Threads,
         Puts(t) \/ Takes(t) \/ UNCHANGED <<deque, mailbox>>,
         NEW h \in Groups, NEW v \in Owners, NEW i \in DOMAIN Queue(h, v)'
  PROVE  \/ \E j \in DOMAIN Queue(h, v) : Queue(h, v)'[i] = Queue(h, v)[j]
         \/ Dest[Queue(h, v)'[i]] = h
<1>1. CASE UNCHANGED <<deque, mailbox>>
  BY <1>1 DEF Queue
<1>2. CASE Puts(t)
  <2>1. PICK k \in Tasks, g \in Groups, w \in Owners :
          /\ k = Call(t).arg /\ g = Dest[k]
          /\ Queue(g, w)' = Append(Queue(g, w), k) /\ OnlyQueue(g, w)
    BY <1>2 DEF Puts
  <2>2. CASE h # g \/ v # w
    BY <2>1, <2>2 DEF OnlyQueue
  <2>3. CASE h = g /\ v = w
    <3>1. PICK s \in Seq(Tasks) : s = Queue(g, w)
      BY QueueTyped
    <3>2. /\ DOMAIN Append(s, k) = 1 .. Len(s) + 1 /\ Append(s, k)[Len(s) + 1] = k
          /\ \A j \in DOMAIN s : Append(s, k)[j] = s[j]
          /\ DOMAIN s = 1 .. Len(s) /\ Len(s) \in Nat
      BY SeqSteps, ElementOfSeq
    <3>3. i \in 1 .. Len(s) + 1 /\ Queue(h, v)' = Append(s, k)
      BY <2>1, <2>3, <3>1, <3>2
    <3>4. CASE i = Len(s) + 1
      BY <2>1, <2>3, <3>2, <3>3, <3>4
    <3>5. CASE i # Len(s) + 1
      <4>1. i \in DOMAIN s
        BY <3>2, <3>3, <3>5
      <4>. QED BY <2>3, <3>1, <3>2, <3>3, <4>1
    <3>. QED BY <3>4, <3>5
  <2>. QED BY <2>2, <2>3
<1>3. CASE Takes(t)
  <2>1. PICK g \in Groups, w \in Owners, k \in Tasks :
          /\ Queue(g, w) # <<>> /\ OnlyQueue(g, w)
          /\ \/ Queue(g, w)' = Tail(Queue(g, w))
             \/ Queue(g, w)' = SubSeq(Queue(g, w), 1, Len(Queue(g, w)) - 1)
    BY <1>3 DEF Takes
  <2>2. CASE h # g \/ v # w
    BY <2>1, <2>2 DEF OnlyQueue
  <2>3. CASE h = g /\ v = w
    <3>1. PICK s \in Seq(Tasks) : s = Queue(g, w)
      BY QueueTyped
    <3>2. /\ DOMAIN s = 1 .. Len(s) /\ Len(s) \in Nat
          /\ DOMAIN Tail(s) = 1 .. Len(s) - 1 /\ \A j \in DOMAIN Tail(s) : Tail(s)[j] = s[j+1]
          /\ DOMAIN SubSeq(s, 1, Len(s) - 1) = 1 .. Len(s) - 1
          /\ \A j \in 1 .. Len(s) - 1 : SubSeq(s, 1, Len(s) - 1)[j] = s[j]
      BY <2>1, <3>1, SeqSteps, ElementOfSeq
    <3>3. i \in 1 .. Len(s) - 1 /\ (Queue(h, v)'[i] = s[i] \/ Queue(h, v)'[i] = s[i+1])
      BY <2>1, <2>3, <3>1, <3>2
    <3>4. i \in DOMAIN s /\ i + 1 \in DOMAIN s
      BY <3>2, <3>3
    <3>. QED BY <2>3, <3>1, <3>3, <3>4
  <2>. QED BY <2>2, <2>3
<1>. QED BY <1>1, <1>2, <1>3

\* A step that leaves the frames alone.
LEMMA CtxKeeps ==
  ASSUME TypeOK, PlaceInv, CtxInv, NEW t \in Threads, Steady(t),
         Puts(t) \/ Takes(t) \/ UNCHANGED <<deque, mailbox>>, UNCHANGED <<stack, ctx>>,
         Heading(t)' \in Holding => Dest[reg'[t].item] = reg'[t].grp
  PROVE  CtxInv'
<1>1. ASSUME NEW g \in Groups, NEW w \in Owners, NEW i \in DOMAIN Queue(g, w)'
      PROVE  Dest[Queue(g, w)'[i]] = g
  BY QueueElements DEF CtxInv
<1>2. ASSUME NEW u \in Threads, Heading(u)' \in Holding PROVE Dest[reg'[u].item] = reg'[u].grp
  <2>1. CASE u = t
    BY <1>2, <2>1
  <2>2. CASE u # t
    <3>1. Heading(u) \in Holding /\ reg'[u] = reg[u]
      BY <1>2, <2>2, SteadyKeeps DEF Holding
    <3>. QED BY <3>1 DEF CtxInv
  <2>. QED BY <2>1, <2>2
<1>3. CtxMatchesTask'
  BY DEF CtxInv, CtxMatchesTask, Top
<1>. QED BY <1>1, <1>2, <1>3 DEF CtxInv

\* A thread that has taken a task holds one of the group it took it from.
LEMMA CtxTakes ==
  ASSUME TypeOK, PlaceInv, CtxInv, NEW t \in Threads, Steady(t), Takes(t)
  PROVE  CtxInv'
<1>1. PICK g \in Groups, w \in Owners, k \in Tasks :
        /\ Queue(g, w) # <<>> /\ Found(t, g, k)
        /\ k = Head(Queue(g, w)) \/ k = Queue(g, w)[Len(Queue(g, w))]
  BY DEF Takes
<1>2. PICK s \in Seq(Tasks) : s = Queue(g, w)
  BY QueueTyped
<1>3. Head(s) = s[1] /\ 1 \in DOMAIN s /\ Len(s) \in DOMAIN s
  BY <1>1, <1>2, SeqSteps
<1>4. Dest[k] = g
  BY <1>1, <1>2, <1>3 DEF CtxInv
<1>5. reg'[t].grp = g /\ reg'[t].item = k
  BY <1>1, FoundKeeps DEF TypeOK
<1>. QED BY <1>4, <1>5, CtxKeeps DEF Takes

\* Exec saves the context of the task that was running, and sets that of the new one.
LEMMA CtxExec ==
  ASSUME TypeOK, PlaceInv, CtxInv, NEW t \in Threads, Steady(t), Exec(t)
  PROVE  CtxInv'
<1>1. /\ pc[t] = "exec" /\ Heading(t) = "exec"
      /\ UNCHANGED <<deque, mailbox, ret>> /\ Goto(t, "user")
  BY DEF Exec, Heading, queueVars
<1>2. t \in Workers /\ None \notin Workers
  BY <1>1, AtPlace, ThreadAssumption DEF PlaceOK, Helping, Threads
<1>3. PICK k \in Tasks : k = reg[t].item
  BY <1>1 DEF TypeOK, LocalsOK, Holding
<1>4. PICK n \in Nat : n = Len(stack[t])
  BY DEF TypeOK, Types
<1>5. /\ DOMAIN stack[t] = 1 .. n /\ DOMAIN stack'[t] = 1 .. n + 1
      /\ Len(stack'[t]) = n + 1 /\ stack'[t] # <<>> /\ (n = 0 <=> stack[t] = <<>>)
      /\ stack'[t][n + 1].task = k /\ stack'[t][n + 1].saved = ctx[t]
      /\ \A i \in 1 .. n : stack'[t][i] = stack[t][i]
  <2> DEFINE Frm == [task : Tasks, saved : Groups \cup {None}]
             e == [task |-> reg[t].item, saved |-> ctx[t]]
  <2>1. stack \in [Threads -> Seq(Frm)] /\ e \in Frm /\ e.task = k /\ e.saved = ctx[t]
    BY <1>2, <1>3 DEF TypeOK, Types
  <2>2. stack'[t] = Append(stack[t], e)
    BY <2>1 DEF Exec
  <2>. HIDE DEF Frm, e
  <2>3. /\ DOMAIN Append(stack[t], e) = 1 .. n + 1 /\ Append(stack[t], e)[n + 1] = e
        /\ \A i \in DOMAIN stack[t] : Append(stack[t], e)[i] = stack[t][i]
        /\ Append(stack[t], e) # <<>> /\ Len(Append(stack[t], e)) = n + 1
        /\ DOMAIN stack[t] = 1 .. n /\ (n = 0 <=> stack[t] = <<>>)
    BY <1>4, <2>1
  <2>. QED BY <2>1, <2>2, <2>3
<1>6. ctx \in [Workers -> Groups \cup {None}] /\ ctx' = [ctx EXCEPT ![t] = reg[t].grp]
  BY DEF Exec, TypeOK, Types
<1>7. Dest[k] = reg[t].grp
  BY <1>1, <1>3 DEF CtxInv, Holding
<1>8. \A g \in Groups, w \in Owners : \A i \in DOMAIN Queue(g, w)' : Dest[Queue(g, w)'[i]] = g
  BY <1>1 DEF CtxInv, Queue
<1>9. ASSUME NEW u \in Threads, Heading(u)' \in Holding PROVE Dest[reg'[u].item] = reg'[u].grp
  <2>1. Heading(t)' = "user"
    BY <1>1, GoHeading DEF TypeOK, PCs
  <2>2. u # t
    BY <1>9, <2>1 DEF Holding
  <2>3. Heading(u) \in Holding /\ reg'[u] = reg[u]
    BY <1>9, <2>2, SteadyKeeps DEF Holding
  <2>. QED BY <2>3 DEF CtxInv
<1>10. ASSUME NEW w \in Workers, NEW i \in DOMAIN stack'[w] \ {1}
       PROVE  stack'[w][i].saved = Dest[stack'[w][i-1].task]
  <2>1. CASE w # t
    <3>1. stack'[w] = stack[w]
      BY <2>1 DEF Steady, Threads
    <3>. QED BY <1>10, <3>1 DEF CtxInv
  <2>2. CASE w = t /\ i \in 1 .. n
    <3>1. i - 1 \in 1 .. n
      BY <1>10, <2>2
    <3>2. stack[t][i].saved = Dest[stack[t][i-1].task]
      BY <1>2, <1>5, <1>10, <2>2 DEF CtxInv
    <3>. QED BY <1>5, <2>2, <3>1, <3>2
  <2>3. CASE w = t /\ i = n + 1
    <3>1. n \in 1 .. n /\ i - 1 = n /\ stack[t] # <<>>
      BY <1>4, <1>5, <1>10, <2>3
    <3>2. ctx[t] = Dest[stack[t][n].task]
      BY <1>2, <1>4, <3>1 DEF CtxInv, CtxMatchesTask, Top
    <3>. QED BY <1>5, <2>3, <3>1, <3>2
  <2>. QED BY <1>5, <1>10, <2>1, <2>2, <2>3
<1>11. CtxMatchesTask'
  <2> SUFFICES ASSUME NEW w \in Workers, stack'[w] # <<>>
               PROVE  ctx'[w] = Dest[stack'[w][Len(stack'[w])].task]
    BY DEF CtxMatchesTask, Top
  <2>1. CASE w = t
    BY <1>2, <1>3, <1>5, <1>6, <1>7, <2>1
  <2>2. CASE w # t
    <3>1. stack'[w] = stack[w] /\ ctx'[w] = ctx[w]
      BY <1>6, <2>2 DEF Steady, Threads
    <3>. QED BY <3>1 DEF CtxInv, CtxMatchesTask, Top
  <2>. QED BY <2>1, <2>2
<1>. QED BY <1>8, <1>9, <1>10, <1>11 DEF CtxInv

\* EndTask restores the context of the task below.
LEMMA CtxEndTask ==
  ASSUME TypeOK, PlaceInv, CtxInv, NEW t \in Threads, Steady(t), EndTask(t)
  PROVE  CtxInv'
<1>1. /\ pc[t] = "user" /\ stack[t] # <<>> /\ UNCHANGED <<deque, mailbox, reg>>
      /\ ctx' = [ctx EXCEPT ![t] = Top(t).saved]
  BY DEF EndTask, RestoreContext, queueVars
<1>2. t \in Workers
  BY <1>1 DEF PlaceInv, StackOnce, Threads
<1>3. PICK n \in Nat : n + 1 = Len(stack[t])
  <2>1. Len(stack[t]) \in Nat /\ Len(stack[t]) # 0
    BY <1>1 DEF TypeOK, Types
  <2>2. Len(stack[t]) - 1 \in Nat /\ (Len(stack[t]) - 1) + 1 = Len(stack[t])
    BY <2>1
  <2>. QED BY <2>2
<1>4. /\ DOMAIN stack[t] = 1 .. n + 1 /\ DOMAIN stack'[t] = 1 .. n
      /\ Len(stack'[t]) = n /\ (n = 0 <=> stack'[t] = <<>>)
      /\ \A i \in 1 .. n : stack'[t][i] = stack[t][i]
  <2> DEFINE Frm == [task : Tasks, saved : Groups \cup {None}]
  <2>1. stack \in [Threads -> Seq(Frm)]
    BY DEF TypeOK, Types
  <2>2. stack'[t] = SubSeq(stack[t], 1, Len(stack[t]) - 1)
    BY <2>1 DEF EndTask
  <2>3. PICK s \in Seq(Frm) : s = stack[t]
    BY <2>1
  <2>. HIDE DEF Frm
  <2>4. Len(s) = n + 1 /\ Len(s) - 1 = n
    BY <1>3, <2>3
  <2>5. /\ DOMAIN SubSeq(s, 1, n) = 1 .. n /\ Len(SubSeq(s, 1, n)) = n
        /\ \A i \in 1 .. n : SubSeq(s, 1, n)[i] = s[i]
        /\ n = 0 <=> SubSeq(s, 1, n) = <<>>
        /\ DOMAIN s = 1 .. n + 1
    BY <2>4
  <2>. QED BY <1>3, <2>2, <2>3, <2>4, <2>5
<1>5. ctx \in [Workers -> Groups \cup {None}]
  BY DEF TypeOK, Types
<1>6. \A g \in Groups, w \in Owners : \A i \in DOMAIN Queue(g, w)' : Dest[Queue(g, w)'[i]] = g
  BY <1>1 DEF CtxInv, Queue
<1>7. ASSUME NEW u \in Threads, Heading(u)' \in Holding PROVE Dest[reg'[u].item] = reg'[u].grp
  <2>1. Heading(t)' \in {"loop", "push_mail", "user"}
    <3>1. PICK l \in {"loop", "push_mail", "user"} : FinishTask(t, l)
      BY DEF EndTask
    <3>2. pc \in [Threads -> PCs] /\ ret \in [Threads -> Returns]
      BY DEF TypeOK, Types
    <3>. QED BY <3>1, <3>2 DEF FinishTask, Goto, NotifyThen, Heading
  <2>2. u # t
    BY <1>7, <2>1 DEF Holding
  <2>3. Heading(u) \in Holding /\ reg'[u] = reg[u]
    BY <1>7, <2>2, SteadyKeeps DEF Holding
  <2>. QED BY <2>3 DEF CtxInv
<1>8. ASSUME NEW w \in Workers, NEW i \in DOMAIN stack'[w] \ {1}
      PROVE  stack'[w][i].saved = Dest[stack'[w][i-1].task]
  <2>1. CASE w # t
    <3>1. stack'[w] = stack[w]
      BY <2>1 DEF Steady, Threads
    <3>. QED BY <1>8, <3>1 DEF CtxInv
  <2>2. CASE w = t
    <3>1. i \in 1 .. n /\ i - 1 \in 1 .. n /\ i \in 1 .. n + 1
      BY <1>4, <1>8, <2>2
    <3>2. stack[t][i].saved = Dest[stack[t][i-1].task]
      BY <1>2, <1>4, <1>8, <2>2, <3>1 DEF CtxInv
    <3>. QED BY <1>4, <2>2, <3>1, <3>2
  <2>. QED BY <2>1, <2>2
<1>9. CtxMatchesTask'
  <2> SUFFICES ASSUME NEW w \in Workers, stack'[w] # <<>>
               PROVE  ctx'[w] = Dest[stack'[w][Len(stack'[w])].task]
    BY DEF CtxMatchesTask, Top
  <2>1. CASE w = t
    <3>1. n # 0 /\ n \in 1 .. n /\ n + 1 \in DOMAIN stack[t] \ {1} /\ (n + 1) - 1 = n
      BY <1>4, <2>1
    <3>2. stack[t][n + 1].saved = Dest[stack[t][n].task]
      BY <1>2, <3>1 DEF CtxInv
    <3>. QED BY <1>1, <1>2, <1>3, <1>4, <1>5, <2>1, <3>1, <3>2 DEF Top
  <2>2. CASE w # t
    <3>1. stack'[w] = stack[w] /\ ctx'[w] = ctx[w]
      BY <1>1, <1>5, <2>2 DEF Steady, Threads
    <3>. QED BY <3>1 DEF CtxInv, CtxMatchesTask, Top
  <2>. QED BY <2>1, <2>2
<1>. QED BY <1>6, <1>7, <1>8, <1>9 DEF CtxInv

\* Every step keeps CtxInv.
LEMMA CtxStep ==
  ASSUME TypeOK, PlaceInv, CtxInv, [Next]_vars PROVE CtxInv'
<1>1. pc \in [Threads -> PCs] /\ ret \in [Threads -> Returns]
  BY DEF TypeOK, Types
<1>2. CASE Begin
  <2>1. /\ ~up /\ pc[Main] = "user" /\ UNCHANGED <<stack, reg, ret>>
        /\ \A g \in Groups, w \in Owners : Queue(g, w)' = <<>>
        /\ \A t \in Threads : pc'[t] \in {"entry", "latch"} \/ pc'[t] = pc[t]
    BY <1>2 DEF Begin, In, EmptyDeques, Queue, Owners
  <2>2. Live = {}
    BY <2>1 DEF PlaceInv, Down
  <2>3. /\ \A t \in Threads : stack[t] = <<>> /\ reg[t].item = None
    BY <2>2, AllEmpty
  <2>4. ASSUME NEW t \in Threads PROVE Heading(t)' \notin Holding
    <3>1. Heading(t) \notin Holding
      BY <2>3, ThreadAssumption DEF TypeOK, LocalsOK
    <3>. QED BY <2>1, <3>1 DEF Heading, Holding
  <2>5. \A w \in Workers : stack'[w] = <<>>
    BY <2>1, <2>3 DEF Threads
  <2>. QED BY <2>1, <2>4, <2>5 DEF CtxInv, CtxMatchesTask
<1>3. ASSUME NEW t \in Threads, Step(t) \/ Lock(t) \/ SpuriousWake(t), ~Begin PROVE CtxInv'
  <2>1. Steady(t)
    BY <1>3, StepSteady
  <2>2. CASE Puts(t)
    <3>1. Heading(t)' = "advertise"
      BY <1>1, <2>2 DEF Puts, Goto, Heading
    <3>. QED BY <2>1, <2>2, <3>1, CtxKeeps DEF Puts, Holding
  <2>3. CASE Takes(t)
    BY <2>1, <2>3, CtxTakes
  <2>4. CASE Rests(t)
    <3>1. Heading(t)' \in Holding => Dest[reg'[t].item] = reg'[t].grp
      BY <2>4 DEF Rests, CtxInv
    <3>. QED BY <2>1, <2>4, <3>1, CtxKeeps DEF Rests
  <2>5. CASE Advertise(t)
    <3>1. Heading(t)' = "user"
      BY <2>5, NotifyHeading DEF Advertise, TypeOK, Returns
    <3>. QED BY <2>1, <2>5, <3>1, CtxKeeps DEF Advertise, Holding
  <2>6. CASE Sink(t) \/ ClearSink(t)
    <3>1. /\ Heading(t) \in Holding /\ UNCHANGED <<deque, mailbox, reg, stack, ctx>>
      BY <2>6 DEF Sink, ClearSink, In, Heading, Holding, flowVars
    <3>2. Dest[reg'[t].item] = reg'[t].grp
      BY <3>1 DEF CtxInv
    <3>. QED BY <2>1, <3>1, <3>2, CtxKeeps
  <2>. QED BY <1>3, <2>1, <2>2, <2>3, <2>4, <2>5, <2>6, StepKinds, CtxExec, CtxEndTask
<1>4. CASE UNCHANGED vars
  <2>1. UNCHANGED <<deque, mailbox, pc, ret, reg, stack, ctx>>
    BY <1>4 DEF vars
  <2>. QED BY <2>1 DEF CtxInv, CtxMatchesTask, Top, Queue, Heading
<1>. QED BY <1>2, <1>3, <1>4 DEF Next, Finished

\* A running task sees the context of its own group, whatever other groups it helped with:
\* execute_work saves and restores group_id_ around each task.
THEOREM CtxTheorem == Spec => []CtxMatchesTask
<1>1. Init => CtxInv
  <2> SUFFICES ASSUME Init PROVE CtxInv
    OBVIOUS
  <2>1. \A g \in Groups, w \in Owners : Queue(g, w) = <<>>
    BY DEF Init, EmptyDeques, Queue, Owners
  <2>2. \A t \in Threads : stack[t] = <<>> /\ Heading(t) \notin Holding
    BY DEF Init, Heading, Holding
  <2>. QED BY <2>1, <2>2 DEF CtxInv, CtxMatchesTask, Threads
<1>2. TypeOK /\ PlaceInv /\ CtxInv /\ [Next]_vars => CtxInv'
  BY CtxStep
<1>3. CtxInv => CtxMatchesTask
  BY DEF CtxInv
<1>. QED BY <1>1, <1>2, <1>3, TypeCorrect, PlaceCorrect, PTL DEF Spec

-----------------------------------------------------------------------------
(* The counters.                                                           *)

\* The slots of the queues of a group that hold an item, the threads that took one and have
\* not discounted it, and the threads that put one and have not counted it.
Slots(g)      == UNION {{<<w, i>> : i \in DOMAIN Queue(g, w)} : w \in Owners}
Sinks(t, g)   == pc[t] \in {"sink", "clear_sink"} /\ reg[t].grp = g
Pledges(t, g) == pc[t] = "advertise" /\ Dest[Call(t).arg] = g
Sinking(g)    == {t \in Threads : Sinks(t, g)}
Pledged(g)    == {t \in Threads : Pledges(t, g)}

Counted(g) == /\ IsFiniteSet(Slots(g))
              /\ queued[g] = Cardinality(Slots(g)) + Cardinality(Sinking(g)) - Cardinality(Pledged(g))

\* clear_group discounts the group it took from, and while the scheduler is down the foreign
\* threads are in no call.
CountInv == /\ \A g \in Groups : Counted(g)
            /\ \A t \in Threads : pc[t] = "clear_sink" => reg[t].grp = Call(t).arg
            /\ ~up => \A f \in Foreign : pc[f] = "user"

LEMMA SlotsFacts ==
  ASSUME NEW g
  PROVE  \A p : p \in Slots(g) <=> \E w \in Owners : \E i \in DOMAIN Queue(g, w) : p = <<w, i>>
BY DEF Slots

LEMMA SlotsSame ==
  ASSUME NEW g, \A w \in Owners : Queue(g, w)' = Queue(g, w)
  PROVE  Slots(g)' = Slots(g)
<1>1. \A p : p \in Slots(g)' <=> \E w \in Owners : \E i \in DOMAIN Queue(g, w)' : p = <<w, i>>
  BY DEF Slots
<1>. QED BY <1>1, SlotsFacts

\* A push fills one slot more.
LEMMA SlotsGrow ==
  ASSUME TypeOK, NEW g \in Groups, NEW w \in Owners, NEW k \in Tasks, OnlyQueue(g, w),
         Queue(g, w)' = Append(Queue(g, w), k)
  PROVE  \E p : p \notin Slots(g) /\ Slots(g)' = Slots(g) \cup {p}
<1>1. PICK s \in Seq(Tasks) : s = Queue(g, w)
  BY QueueTyped
<1>2. /\ DOMAIN s = 1 .. Len(s) /\ Len(s) \in Nat /\ DOMAIN Append(s, k) = 1 .. Len(s) + 1
  BY SeqSteps, ElementOfSeq
<1>3. DOMAIN Queue(g, w) = 1 .. Len(s) /\ DOMAIN Queue(g, w)' = 1 .. Len(s) + 1
  BY <1>1, <1>2
<1>4. \A i : i \in 1 .. Len(s) + 1 <=> i \in 1 .. Len(s) \/ i = Len(s) + 1
  BY <1>2
<1>5. \A p : p \in Slots(g)' <=> \E v \in Owners : \E i \in DOMAIN Queue(g, v)' : p = <<v, i>>
  BY DEF Slots
<1>6. \A v \in Owners : v # w => DOMAIN Queue(g, v)' = DOMAIN Queue(g, v)
  BY DEF OnlyQueue
<1>7. <<w, Len(s) + 1>> \notin Slots(g)
  <2>1. Len(s) + 1 \notin 1 .. Len(s)
    BY <1>2
  <2>. QED BY <1>3, <2>1, SlotsFacts
<1>8. \A p : p \in Slots(g)' <=> p \in Slots(g) \/ p = <<w, Len(s) + 1>>
  BY <1>3, <1>4, <1>5, <1>6, SlotsFacts
<1>9. Slots(g)' = Slots(g) \cup {<<w, Len(s) + 1>>}
  BY <1>8
<1>. QED BY <1>7, <1>9

\* A take empties one.
LEMMA SlotsShrink ==
  ASSUME TypeOK, NEW g \in Groups, NEW w \in Owners, OnlyQueue(g, w), Queue(g, w) # <<>>,
         \/ Queue(g, w)' = Tail(Queue(g, w))
         \/ Queue(g, w)' = SubSeq(Queue(g, w), 1, Len(Queue(g, w)) - 1)
  PROVE  \E p \in Slots(g) : Slots(g)' = Slots(g) \ {p}
<1>1. PICK s \in Seq(Tasks) : s = Queue(g, w)
  BY QueueTyped
<1>0. PICK k \in Tasks : TRUE
  BY QueueEnds
<1>2. /\ DOMAIN s = 1 .. Len(s) /\ Len(s) \in Nat /\ Len(s) \in DOMAIN s
      /\ DOMAIN Tail(s) = 1 .. Len(s) - 1 /\ DOMAIN SubSeq(s, 1, Len(s) - 1) = 1 .. Len(s) - 1
  BY <1>1, <1>0, SeqSteps, ElementOfSeq
<1>3. DOMAIN Queue(g, w) = 1 .. Len(s) /\ DOMAIN Queue(g, w)' = 1 .. Len(s) - 1
  BY <1>1, <1>2
<1>4. \A i : i \in 1 .. Len(s) - 1 <=> i \in 1 .. Len(s) /\ i # Len(s)
  BY <1>2
<1>5. \A p : p \in Slots(g)' <=> \E v \in Owners : \E i \in DOMAIN Queue(g, v)' : p = <<v, i>>
  BY DEF Slots
<1>6. \A v \in Owners : v # w => DOMAIN Queue(g, v)' = DOMAIN Queue(g, v)
  BY DEF OnlyQueue
<1>7. <<w, Len(s)>> \in Slots(g)
  BY <1>2, <1>3, SlotsFacts
<1>8. \A p : p \in Slots(g)' <=> p \in Slots(g) /\ p # <<w, Len(s)>>
  BY <1>3, <1>4, <1>5, <1>6, SlotsFacts
<1>9. Slots(g)' = Slots(g) \ {<<w, Len(s)>>}
  BY <1>8
<1>. QED BY <1>7, <1>9

\* There are finitely many threads.
LEMMA ThreadsFinite == \A S : S \subseteq Threads => IsFiniteSet(S)
<1>1. IsFiniteSet(0 .. (WorkerCount - 1))
  BY ThreadAssumption, FS_Interval
<1>2. IsFiniteSet(Threads)
  BY <1>1, ThreadAssumption, FS_Union DEF Threads, Workers
<1>. QED BY <1>2, FS_Subset

\* The threads other than t are in the middle of what they were.
LEMMA OthersCount ==
  ASSUME TypeOK, PlaceInv, NEW t \in Threads, Steady(t), NEW u \in Threads \ {t}, NEW g
  PROVE  (Sinks(u, g)' <=> Sinks(u, g)) /\ (Pledges(u, g)' <=> Pledges(u, g))
BY SteadyKeeps DEF Sinks, Pledges

\* What the step of t makes of the sets of threads, and of their numbers.
LEMMA SinkingMoves ==
  ASSUME TypeOK, PlaceInv, NEW t \in Threads, Steady(t), NEW g
  PROVE  /\ Cardinality(Sinking(g)) \in Nat
         /\ (Sinks(t, g)' <=> Sinks(t, g)) => Cardinality(Sinking(g))' = Cardinality(Sinking(g))
         /\ Sinks(t, g)' /\ ~Sinks(t, g) => Cardinality(Sinking(g))' = Cardinality(Sinking(g)) + 1
         /\ ~Sinks(t, g)' /\ Sinks(t, g) => Cardinality(Sinking(g))' = Cardinality(Sinking(g)) - 1
<1>1. \A u \in Threads \ {t} : Sinks(u, g)' <=> Sinks(u, g)
  BY OthersCount
<1>2. IsFiniteSet(Sinking(g)) /\ Cardinality(Sinking(g)) \in Nat
  BY ThreadsFinite, FS_CardinalityType DEF Sinking
<1>3. (Sinks(t, g)' <=> Sinks(t, g)) => Sinking(g)' = Sinking(g)
  BY <1>1 DEF Sinking
<1>4. Sinks(t, g)' /\ ~Sinks(t, g) => t \notin Sinking(g) /\ Sinking(g)' = Sinking(g) \cup {t}
  BY <1>1 DEF Sinking
<1>5. ~Sinks(t, g)' /\ Sinks(t, g) => t \in Sinking(g) /\ Sinking(g)' = Sinking(g) \ {t}
  BY <1>1 DEF Sinking
<1>. QED BY <1>2, <1>3, <1>4, <1>5, FS_AddElement, FS_RemoveElement

LEMMA PledgedMoves ==
  ASSUME TypeOK, PlaceInv, NEW t \in Threads, Steady(t), NEW g
  PROVE  /\ Cardinality(Pledged(g)) \in Nat
         /\ (Pledges(t, g)' <=> Pledges(t, g)) => Cardinality(Pledged(g))' = Cardinality(Pledged(g))
         /\ Pledges(t, g)' /\ ~Pledges(t, g) => Cardinality(Pledged(g))' = Cardinality(Pledged(g)) + 1
         /\ ~Pledges(t, g)' /\ Pledges(t, g) => Cardinality(Pledged(g))' = Cardinality(Pledged(g)) - 1
<1>1. \A u \in Threads \ {t} : Pledges(u, g)' <=> Pledges(u, g)
  BY OthersCount
<1>2. IsFiniteSet(Pledged(g)) /\ Cardinality(Pledged(g)) \in Nat
  BY ThreadsFinite, FS_CardinalityType DEF Pledged
<1>3. (Pledges(t, g)' <=> Pledges(t, g)) => Pledged(g)' = Pledged(g)
  BY <1>1 DEF Pledged
<1>4. Pledges(t, g)' /\ ~Pledges(t, g) => t \notin Pledged(g) /\ Pledged(g)' = Pledged(g) \cup {t}
  BY <1>1 DEF Pledged
<1>5. ~Pledges(t, g)' /\ Pledges(t, g) => t \in Pledged(g) /\ Pledged(g)' = Pledged(g) \ {t}
  BY <1>1 DEF Pledged
<1>. QED BY <1>2, <1>3, <1>4, <1>5, FS_AddElement, FS_RemoveElement

\* A push: the slot and the pledge to count it cancel out.
LEMMA CountPuts ==
  ASSUME TypeOK, PlaceInv, CountInv, NEW t \in Threads, Steady(t), Puts(t), NEW h \in Groups
  PROVE  Counted(h)'
<1>1. PICK k \in Tasks, g \in Groups, w \in Owners :
        /\ k = Call(t).arg /\ g = Dest[k]
        /\ Queue(g, w)' = Append(Queue(g, w), k) /\ OnlyQueue(g, w)
  BY DEF Puts
<1>2. /\ queued' = queued /\ pc[t] \in {"push_local", "push_mail"} /\ pc'[t] = "advertise"
      /\ Call(t)' = Call(t)
  BY DEF Puts, Goto, Call, Frame, Top, TypeOK, Types
<1>3. queued[h] \in Int /\ Counted(h)
  BY DEF TypeOK, Types, CountInv
<1>4. Cardinality(Sinking(h))' = Cardinality(Sinking(h)) /\ Cardinality(Sinking(h)) \in Nat
  BY <1>2, SinkingMoves DEF Sinks
<1>5. ~Pledges(t, h) /\ (Pledges(t, h)' <=> h = g)
  BY <1>1, <1>2 DEF Pledges
<1>6. CASE h = g
  <2>1. Cardinality(Pledged(h))' = Cardinality(Pledged(h)) + 1 /\ Cardinality(Pledged(h)) \in Nat
    BY <1>5, <1>6, PledgedMoves
  <2>2. /\ IsFiniteSet(Slots(h))' /\ Cardinality(Slots(h))' = Cardinality(Slots(h)) + 1
        /\ Cardinality(Slots(h)) \in Nat
    <3>1. PICK p : p \notin Slots(h) /\ Slots(h)' = Slots(h) \cup {p}
      BY <1>1, <1>6, SlotsGrow
    <3>. QED BY <1>3, <3>1, FS_AddElement, FS_CardinalityType DEF Counted
  <2>. QED BY <1>2, <1>3, <1>4, <2>1, <2>2 DEF Counted
<1>7. CASE h # g
  <2>1. Cardinality(Pledged(h))' = Cardinality(Pledged(h)) /\ Cardinality(Pledged(h)) \in Nat
    BY <1>5, <1>7, PledgedMoves
  <2>2. Slots(h)' = Slots(h)
    BY <1>1, <1>7, SlotsSame DEF OnlyQueue
  <2>. QED BY <1>2, <1>3, <1>4, <2>1, <2>2 DEF Counted
<1>. QED BY <1>6, <1>7

\* A take: the slot that is emptied and the thread that is to discount it cancel out.
LEMMA CountTakes ==
  ASSUME TypeOK, PlaceInv, CountInv, NEW t \in Threads, Steady(t), Takes(t), NEW h \in Groups
  PROVE  Counted(h)'
<1>1. PICK g \in Groups, w \in Owners, k \in Tasks :
        /\ Queue(g, w) # <<>> /\ OnlyQueue(g, w) /\ Found(t, g, k)
        /\ \/ Queue(g, w)' = Tail(Queue(g, w))
           \/ Queue(g, w)' = SubSeq(Queue(g, w), 1, Len(Queue(g, w)) - 1)
        /\ Goto(t, "sink") \/ Goto(t, "clear_sink")
  BY DEF Takes
<1>2. /\ queued' = queued /\ pc[t] \notin {"sink", "clear_sink", "advertise"}
      /\ pc'[t] \in {"sink", "clear_sink"} /\ reg'[t].grp = g
  BY <1>1, FoundKeeps DEF Takes, Goto, TypeOK, Types
<1>3. queued[h] \in Int /\ Counted(h)
  BY DEF TypeOK, Types, CountInv
<1>4. Cardinality(Pledged(h))' = Cardinality(Pledged(h)) /\ Cardinality(Pledged(h)) \in Nat
  BY <1>2, PledgedMoves DEF Pledges
<1>5. ~Sinks(t, h) /\ (Sinks(t, h)' <=> h = g)
  BY <1>2 DEF Sinks
<1>6. CASE h = g
  <2>1. Cardinality(Sinking(h))' = Cardinality(Sinking(h)) + 1 /\ Cardinality(Sinking(h)) \in Nat
    BY <1>5, <1>6, SinkingMoves
  <2>2. /\ IsFiniteSet(Slots(h))' /\ Cardinality(Slots(h))' = Cardinality(Slots(h)) - 1
        /\ Cardinality(Slots(h)) \in Nat
    <3>1. PICK p \in Slots(h) : Slots(h)' = Slots(h) \ {p}
      BY <1>1, <1>6, SlotsShrink
    <3>. QED BY <1>3, <3>1, FS_RemoveElement, FS_CardinalityType DEF Counted
  <2>. QED BY <1>2, <1>3, <1>4, <2>1, <2>2 DEF Counted
<1>7. CASE h # g
  <2>1. Cardinality(Sinking(h))' = Cardinality(Sinking(h)) /\ Cardinality(Sinking(h)) \in Nat
    BY <1>5, <1>7, SinkingMoves
  <2>2. Slots(h)' = Slots(h)
    BY <1>1, <1>7, SlotsSame DEF OnlyQueue
  <2>. QED BY <1>2, <1>3, <1>4, <2>1, <2>2 DEF Counted
<1>. QED BY <1>6, <1>7

\* Neither.
LEMMA CountRests ==
  ASSUME TypeOK, PlaceInv, CountInv, NEW t \in Threads, Steady(t),
         UNCHANGED <<deque, mailbox, queued>>,
         pc[t] \notin {"sink", "clear_sink", "advertise"},
         pc'[t] \notin {"sink", "clear_sink", "advertise"}, NEW h \in Groups
  PROVE  Counted(h)'
<1>1. Cardinality(Sinking(h))' = Cardinality(Sinking(h))
  BY SinkingMoves DEF Sinks
<1>2. Cardinality(Pledged(h))' = Cardinality(Pledged(h))
  BY PledgedMoves DEF Pledges
<1>3. Slots(h)' = Slots(h)
  BY SlotsSame DEF Queue
<1>. QED BY <1>1, <1>2, <1>3 DEF CountInv, Counted

\* Advertise keeps the pledge of the push.
LEMMA CountAdvertise ==
  ASSUME TypeOK, PlaceInv, CountInv, NEW t \in Threads, Steady(t), Advertise(t),
         NEW h \in Groups
  PROVE  Counted(h)'
<1>1. PICK g \in Groups : g = Dest[Call(t).arg]
  BY CallTyped DEF Advertise, In
<1>2. /\ queued' = [queued EXCEPT ![g] = @ + 1] /\ UNCHANGED <<deque, mailbox>>
      /\ pc[t] = "advertise" /\ pc'[t] = "notify_lock"
  BY <1>1 DEF Advertise, In, NotifyThen, TypeOK, Types
<1>3. queued \in [Groups -> Int] /\ Counted(h)
  BY DEF TypeOK, Types, CountInv
<1>4. Cardinality(Sinking(h))' = Cardinality(Sinking(h)) /\ Cardinality(Sinking(h)) \in Nat
  BY <1>2, SinkingMoves DEF Sinks
<1>5. ~Pledges(t, h)' /\ (Pledges(t, h) <=> h = g)
  BY <1>1, <1>2 DEF Pledges
<1>6. Slots(h)' = Slots(h) /\ Cardinality(Slots(h)) \in Nat
  BY <1>2, <1>3, SlotsSame, FS_CardinalityType DEF Queue, Counted
<1>7. CASE h = g
  <2>1. Cardinality(Pledged(h))' = Cardinality(Pledged(h)) - 1 /\ Cardinality(Pledged(h)) \in Nat
    BY <1>5, <1>7, PledgedMoves
  <2>2. queued'[h] = queued[h] + 1
    BY <1>2, <1>3, <1>7
  <2>. QED BY <1>3, <1>4, <1>6, <2>1, <2>2 DEF Counted
<1>8. CASE h # g
  <2>1. Cardinality(Pledged(h))' = Cardinality(Pledged(h)) /\ queued'[h] = queued[h]
    BY <1>2, <1>3, <1>5, <1>8, PledgedMoves
  <2>. QED BY <1>3, <1>4, <1>6, <2>1 DEF Counted
<1>. QED BY <1>7, <1>8

\* Sink and ClearSink discount what their thread took.
LEMMA CountSink ==
  ASSUME TypeOK, PlaceInv, CountInv, NEW t \in Threads, Steady(t), Sink(t) \/ ClearSink(t),
         NEW h \in Groups
  PROVE  Counted(h)'
<1>1. PICK g \in Groups : /\ g = reg[t].grp /\ queued' = [queued EXCEPT ![g] = @ - 1]
                          /\ UNCHANGED <<deque, mailbox, reg>>
                          /\ pc[t] \in {"sink", "clear_sink"}
                          /\ pc'[t] \in {"chain", "clear_finish"}
  <2>1. pc \in [Threads -> PCs]
    BY DEF TypeOK, Types
  <2>2. CASE Sink(t)
    <3>1. reg[t].grp \in Groups
      BY <2>2 DEF Sink, TypeOK, LocalsOK, Heading, Taking, GroupsOf
    <3>. QED BY <2>1, <2>2, <3>1 DEF Sink, Goto
  <2>3. CASE ClearSink(t)
    <3>1. Call(t).arg \in Groups /\ Call(t).arg = reg[t].grp
      BY <2>3, CallTyped DEF ClearSink, In, CountInv
    <3>. QED BY <2>1, <2>3, <3>1 DEF ClearSink, In, Goto
  <2>. QED BY <2>2, <2>3
<1>2. queued \in [Groups -> Int] /\ Counted(h)
  BY DEF TypeOK, Types, CountInv
<1>3. Cardinality(Pledged(h))' = Cardinality(Pledged(h)) /\ Cardinality(Pledged(h)) \in Nat
  BY <1>1, PledgedMoves DEF Pledges
<1>4. ~Sinks(t, h)' /\ (Sinks(t, h) <=> h = g)
  BY <1>1 DEF Sinks
<1>5. Slots(h)' = Slots(h) /\ Cardinality(Slots(h)) \in Nat
  BY <1>1, <1>2, SlotsSame, FS_CardinalityType DEF Queue, Counted
<1>6. CASE h = g
  <2>1. Cardinality(Sinking(h))' = Cardinality(Sinking(h)) - 1 /\ Cardinality(Sinking(h)) \in Nat
    BY <1>4, <1>6, SinkingMoves
  <2>2. queued'[h] = queued[h] - 1
    BY <1>1, <1>2, <1>6
  <2>. QED BY <1>2, <1>3, <1>5, <2>1, <2>2 DEF Counted
<1>7. CASE h # g
  <2>1. Cardinality(Sinking(h))' = Cardinality(Sinking(h)) /\ queued'[h] = queued[h]
    BY <1>1, <1>2, <1>4, <1>7, SinkingMoves
  <2>. QED BY <1>2, <1>3, <1>5, <2>1 DEF Counted
<1>. QED BY <1>6, <1>7

\* The scheduler comes up at the end of begin_execution and goes down at the end of
\* end_execution.
LEMMA UpMoves ==
  ASSUME NEW t \in Threads, Step(t) \/ Lock(t) \/ SpuriousWake(t), ~Begin
  PROVE  up' = up \/ up' = TRUE \/ (pc[t] = "join" /\ Join(t))
<1>1. CASE \/ Latch \/ Submit(t) \/ PushLocal(t) \/ PushMail(t) \/ Advertise(t) \/ NotifyAll(t)
           \/ TryGroup(t) \/ TakeOwn(t) \/ TakeMail(t) \/ TakeSteal(t) \/ Sink(t) \/ Chain(t)
  BY <1>1 DEF Latch, Submit, PushLocal, PushMail, Advertise, NotifyAll, TryGroup, TakeOwn,
     TakeMail, TakeSteal, Sink, Chain
<1>2. CASE \/ Exec(t) \/ EndTask(t) \/ Signal(t) \/ CoopWait(t) \/ ClearBegin(t)
           \/ ClearMail(t) \/ ClearSteal(t) \/ ClearSink(t) \/ ClearFinish(t)
  BY <1>2 DEF Exec, EndTask, Signal, CoopWait, ClearBegin, ClearMail, ClearSteal, ClearSink,
     ClearFinish
<1>3. CASE \/ WaitLoad(t) \/ WaitSnapshot(t) \/ SetStop(t) \/ Entry(t) \/ LoopHead(t)
           \/ ParkCheck(t) \/ ParkWait(t) \/ Lock(t) \/ SpuriousWake(t)
  BY <1>3 DEF WaitLoad, WaitSnapshot, SetStop, Entry, LoopHead, ParkCheck, ParkWait, Lock,
     NotifyLock, ParkLock, SpuriousWake
<1>4. CASE Join(t)
  BY <1>4 DEF Join
<1>. QED BY <1>1, <1>2, <1>3, <1>4 DEF Step

\* A foreign thread begins no call while the scheduler is down, but for the signal of an event.
LEMMA DownStays ==
  ASSUME TypeOK, PlaceInv, NEW t \in Foreign, ~up, pc[t] = "user",
         Step(t) \/ Lock(t) \/ SpuriousWake(t), ~Begin
  PROVE  pc'[t] = "user"
<1>1. t \in Threads /\ t \notin Workers
  BY ThreadAssumption DEF Threads
<1>2. stack[t] = <<>>
  BY DEF PlaceInv, StackOnce
<1>3. ~Calls(t, "cwait") /\ ~Calls(t, "waitall") /\ ~Calls(t, "end")
  BY <1>1, CallersOf DEF PlaceInv
<1>4. ~(\/ Latch \/ Submit(t) \/ EndTask(t) \/ CoopWait(t) \/ ClearBegin(t) \/ WaitLoad(t))
      \/ (Latch /\ pc'[t] = "user")
  <2>1. CASE Latch
    BY <1>1, <2>1 DEF Latch, Goto, TypeOK, Types
  <2>. QED BY <1>1, <1>2, <1>3, <2>1 DEF Submit, EndTask, CoopWait, ClearBegin, WaitLoad, Waits, In
<1>5. ~(\/ PushLocal(t) \/ PushMail(t) \/ Advertise(t) \/ NotifyAll(t) \/ TryGroup(t)
        \/ TakeOwn(t) \/ TakeMail(t) \/ TakeSteal(t) \/ Sink(t) \/ Chain(t) \/ Exec(t))
  BY DEF PushLocal, PushMail, Advertise, NotifyAll, TryGroup, TakeOwn, TakeMail, TakeSteal, Sink,
     Chain, Exec, In
<1>6. ~(\/ ClearMail(t) \/ ClearSteal(t) \/ ClearSink(t) \/ ClearFinish(t) \/ WaitSnapshot(t)
        \/ SetStop(t) \/ Join(t) \/ Entry(t) \/ LoopHead(t) \/ ParkCheck(t) \/ ParkWait(t)
        \/ Lock(t) \/ SpuriousWake(t))
  BY DEF ClearMail, ClearSteal, ClearSink, ClearFinish, WaitSnapshot, SetStop, Join, Entry,
     LoopHead, ParkCheck, ParkWait, Lock, NotifyLock, ParkLock, SpuriousWake, In
<1>7. Signal(t) => pc' = pc
  BY DEF Signal
<1>. QED BY <1>4, <1>5, <1>6, <1>7 DEF Step

\* Every step keeps CountInv.
LEMMA CountStep ==
  ASSUME TypeOK, PlaceInv, CountInv, [Next]_vars PROVE CountInv'
<1>0. Main \in Threads /\ Main \in Workers /\ Main \notin Foreign
  BY ThreadAssumption DEF Main, Threads, Workers
<1>1. CASE Begin
  <2>1. /\ ~up /\ up' = up
        /\ queued' = [g \in Groups |-> 0]
        /\ \A g \in Groups, w \in Owners : Queue(g, w)' = <<>>
        /\ \A t \in Threads : pc'[t] \in {"entry", "latch"} \/ (t \in Foreign /\ pc'[t] = pc[t])
    BY <1>0, <1>1 DEF Begin, EmptyDeques, Queue, Owners, Threads
  <2>2. \A f \in Foreign : pc'[f] = "user"
    <3>1. \A f \in Foreign : f \in Threads /\ f \notin Workers
      BY ThreadAssumption DEF Threads
    <3>2. \A f \in Foreign : pc'[f] = pc[f]
      BY <1>0, <1>1, <3>1 DEF Begin
    <3>. QED BY <2>1, <3>2 DEF CountInv
  <2>3. \A t \in Threads : pc'[t] \in {"entry", "latch", "user"}
    BY <2>1, <2>2
  <2>4. ASSUME NEW g \in Groups PROVE Counted(g)'
    <3>1. Slots(g)' = {} /\ Sinking(g)' = {} /\ Pledged(g)' = {}
      BY <2>1, <2>3 DEF Slots, Sinking, Sinks, Pledged, Pledges
    <3>2. queued'[g] = 0
      BY <2>1
    <3>. QED BY <3>1, <3>2, FS_EmptySet DEF Counted
  <2>. QED BY <2>2, <2>3, <2>4 DEF CountInv
<1>2. ASSUME NEW t \in Threads, Step(t) \/ Lock(t) \/ SpuriousWake(t), ~Begin PROVE CountInv'
  <2>1. Steady(t)
    BY <1>2, StepSteady
  <2>2. \A g \in Groups : Counted(g)'
    <3>1. CASE Rests(t)
      BY <2>1, <3>1, CountRests DEF Rests
    <3>2. CASE Exec(t) \/ EndTask(t)
      <4>1. /\ UNCHANGED <<deque, mailbox, queued>> /\ pc[t] \in {"exec", "user"}
            /\ pc'[t] \in {"user", "loop", "push_mail", "notify_lock"}
        BY <3>2 DEF Exec, EndTask, FinishTask, Goto, NotifyThen, queueVars, TypeOK, Types
      <4>. QED BY <2>1, <4>1, CountRests
    <3>. QED BY <1>2, <2>1, <3>1, <3>2, StepKinds, CountPuts, CountTakes, CountAdvertise, CountSink
  <2>3. ASSUME NEW u \in Threads, pc'[u] = "clear_sink" PROVE reg'[u].grp = Call(u)'.arg
    <3>1. CASE u # t
      BY <2>1, <2>3, <3>1, SteadyKeeps DEF CountInv
    <3>2. CASE u = t
      <4>1. pc \in [Threads -> PCs]
        BY DEF TypeOK, Types
      <4>2. ~(Puts(t) \/ Rests(t) \/ Advertise(t) \/ Sink(t) \/ ClearSink(t) \/ Exec(t) \/ EndTask(t))
        BY <2>3, <3>2, <4>1 DEF Puts, Rests, Advertise, Sink, ClearSink, Exec, EndTask, FinishTask,
           Goto, NotifyThen
      <4>3. Takes(t)
        BY <1>2, <4>2, StepKinds
      <4>4. PICK g \in Groups, k \in Tasks : Found(t, g, k) /\ g = Call(t).arg
        BY <2>3, <3>2, <4>1, <4>3 DEF Takes, Goto
      <4>5. Call(t)' = Call(t)
        BY <4>3 DEF Takes, Call, Frame, Top
      <4>. QED BY <3>2, <4>4, <4>5, FoundKeeps DEF TypeOK
    <3>. QED BY <3>1, <3>2
  <2>4. ASSUME ~up', NEW f \in Foreign PROVE pc'[f] = "user"
    <3>1. f \in Threads
      BY DEF Threads
    <3>2. CASE up
      <4>1. pc[t] = "join" /\ Join(t)
        BY <1>2, <2>4, <3>2, UpMoves
      <4>2. Heading(t) = "join"
        BY <4>1 DEF Heading
      <4>3. Calls(t, "end")
        BY <4>2, CallingFacts DEF PlaceInv, Control, PlaceOK
      <4>4. t = Main /\ Frame(t) = Main
        BY <4>3, CallersOf DEF PlaceInv
      <4>5. AtEnd
        BY <4>2, <4>3, <4>4, CallingFacts, FrameIn DEF AtEnd, Busy
      <4>6. pc[f] = "user" /\ f # t
        BY <1>0, <4>4, <4>5 DEF PlaceInv, Down
      <4>. QED BY <2>1, <3>1, <4>6 DEF Steady, Others
    <3>3. CASE ~up
      <4>1. pc[f] = "user"
        BY <3>3 DEF CountInv
      <4>2. CASE f = t
        BY <1>2, <3>3, <4>1, <4>2, DownStays
      <4>3. CASE f # t
        BY <2>1, <3>1, <4>1, <4>3 DEF Steady, Others
      <4>. QED BY <4>2, <4>3
    <3>. QED BY <3>2, <3>3
  <2>. QED BY <2>2, <2>3, <2>4 DEF CountInv
<1>3. CASE UNCHANGED vars
  <2>1. UNCHANGED <<deque, mailbox, queued, up, pc, reg, stack, at>>
    BY <1>3 DEF vars
  <2>2. \A t \in Threads : Call(t)' = Call(t)
    BY <2>1 DEF Call, Frame, Top
  <2>3. ASSUME NEW g \in Groups PROVE Counted(g)'
    <3>1. Slots(g)' = Slots(g)
      BY <2>1, SlotsSame DEF Queue
    <3>2. Sinking(g)' = Sinking(g) /\ Pledged(g)' = Pledged(g)
      BY <2>1, <2>2 DEF Sinking, Sinks, Pledged, Pledges
    <3>. QED BY <2>1, <3>1, <3>2 DEF CountInv, Counted
  <2>. QED BY <2>1, <2>2, <2>3 DEF CountInv
<1>. QED BY <1>1, <1>2, <1>3 DEF Next, Finished

\* The items counted by CountsExact are the slots that hold one.
LEMMA ItemsAreSlots ==
  ASSUME TypeOK, NEW g \in Groups
  PROVE  UNION {InQueue(k, g) : k \in Tasks} = Slots(g)
<1>1. ASSUME NEW p, p \in Slots(g) PROVE \E k \in Tasks : p \in InQueue(k, g)
  <2>1. PICK w \in Owners : \E i \in DOMAIN Queue(g, w) : p = <<w, i>>
    BY <1>1, SlotsFacts
  <2>2. PICK i \in DOMAIN Queue(g, w) : p = <<w, i>>
    BY <2>1
  <2>3. Queue(g, w)[i] \in Tasks
    BY QueueTyped, ElementOfSeq
  <2>. QED BY <2>2, <2>3, InQueueFacts
<1>2. \A k \in Tasks : \A p \in InQueue(k, g) : p \in Slots(g)
  BY InQueueFacts, SlotsFacts
<1>. QED BY <1>1, <1>2

\* pending_ counts exactly the tasks submitted and neither finished nor dropped, and queued_ of
\* a group its queued items but for the pushes not yet counted and the takes not yet
\* discounted, whatever submitters, thieves, helpers and clear_group are in the middle of.
THEOREM CountsTheorem == Spec => []CountsExact
<1>1. Init => CountInv
  <2> SUFFICES ASSUME Init PROVE CountInv
    OBVIOUS
  <2>1. /\ \A g \in Groups, w \in Owners : Queue(g, w) = <<>>
        /\ \A g \in Groups : queued[g] = 0
        /\ \A t \in Threads : pc[t] \in {"user", "exited"}
        /\ \A f \in Foreign : pc[f] = "user"
    BY ThreadAssumption DEF Init, EmptyDeques, Queue, Owners, Threads
  <2>2. ASSUME NEW g \in Groups PROVE Counted(g)
    <3>1. Slots(g) = {} /\ Sinking(g) = {} /\ Pledged(g) = {}
      BY <2>1 DEF Slots, Sinking, Sinks, Pledged, Pledges
    <3>. QED BY <2>1, <3>1, FS_EmptySet DEF Counted
  <2>. QED BY <2>1, <2>2 DEF CountInv
<1>2. TypeOK /\ PlaceInv /\ CountInv /\ [Next]_vars => CountInv'
  BY CountStep
<1>3. TypeOK /\ PlaceInv /\ CountInv => CountsExact
  <2> SUFFICES ASSUME TypeOK, PlaceInv, CountInv PROVE CountsExact
    OBVIOUS
  <2>1. ASSUME NEW g \in Groups
        PROVE  queued[g] = Cardinality(UNION {InQueue(k, g) : k \in Tasks})
                           + Cardinality({t \in Threads : pc[t] \in {"sink", "clear_sink"} /\ reg[t].grp = g})
                           - Cardinality({t \in Threads : pc[t] = "advertise" /\ Dest[Call(t).arg] = g})
    BY ItemsAreSlots DEF CountInv, Counted, Sinking, Sinks, Pledged, Pledges
  <2>. QED BY <2>1 DEF CountsExact, PlaceInv, Pending
<1>. QED BY <1>1, <1>2, <1>3, TypeCorrect, PlaceCorrect, PTL DEF Spec

=============================================================================
