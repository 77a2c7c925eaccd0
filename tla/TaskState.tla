------------------------------ MODULE TaskState ------------------------------
(***************************************************************************)
(* ouly::basic_task: submit_task, then, when_all and the waits, on top of  *)
(* a scheduler.                                                            *)
(*                                                                         *)
(* A task state counts its references: the handles (basic_task), the node  *)
(* that will settle it, and the nodes that wait for it.  continuations_ is *)
(* a list of nodes linked by next_ and, once the task is complete, the tag *)
(* Finished.  A node is queued in the scheduler when its turn comes; a     *)
(* worker runs it, and finish() queues the continuations.                  *)
(*                                                                         *)
(* The scheduler is one workgroup with a mailbox of QueueCap items.  As in *)
(* SchedulerV3, a submission that finds it full runs queued items on its   *)
(* own stack first, and so does a cooperative wait.                        *)
(***************************************************************************)
EXTENDS Integers, Sequences, FiniteSets

CONSTANTS
  Threads,
  Workers,    \* those that run queued nodes
  Home,       \* Home[t]: the program that t starts with, None for a mere worker
  Programs,
  Tasks,
  Kind,       \* "produce" (submit_task), "then", "all" (when_all)
  Pred,       \* the tasks it continues
  Throws,     \* the functions that throw
  MayFail,    \* the calls of when_all whose node allocation may fail
  Script,     \* the calls of each program and of each function
  QueueCap,
  Finished, None, Pending, AllocError

Bodies  == Programs \cup Tasks
\* when_all has a node for each task, the others one.
Places(k) == 1 .. (IF Kind[k] = "all" THEN Len(Pred[k]) ELSE 1)
Nodes   == UNION {{k} \X Places(k) : k \in Tasks}
PredOf(n) == IF Kind[n[1]] = "produce" THEN None ELSE Pred[n[1]][n[2]]

Op == [op : {"make", "wait", "block", "drop"}, arg : Tasks, to : {None}]
        \cup [op : {"copy"}, arg : Tasks, to : Bodies]

TaskStateAssumption ==
  /\ Workers \subseteq Threads
  /\ Home \in [Threads -> Programs \cup {None}]
  \* A program is run by one thread.
  /\ \A t, u \in Threads : Home[t] = Home[u] => t = u \/ Home[t] = None
  /\ Programs \cap Tasks = {}
  /\ Kind \in [Tasks -> {"produce", "then", "all"}]
  /\ Pred \in [Tasks -> Seq(Tasks)]
  /\ \A k \in Tasks : /\ Kind[k] = "produce" => Len(Pred[k]) = 0
                      /\ Kind[k] = "then" => Len(Pred[k]) = 1
  /\ Throws \subseteq Tasks /\ MayFail \subseteq Tasks
  /\ Script \in [Bodies -> Seq(Op)]
  /\ QueueCap \in Nat \ {0}
  /\ Finished # None /\ Pending \notin {Finished, None} /\ AllocError \notin {Finished, None, Pending}
  /\ {Finished, None, Pending, AllocError} \cap (Bodies \cup Nodes) = {}

VARIABLES
  refs,       \* references_; 0 before the state is made and once it is destroyed
  cont,       \* continuations_: None, the first node of the list, or Finished
  err,        \* exception_: None or the task whose function threw it
  nodes,      \* the nodes that are allocated
  next,       \* next_ of each node
  remaining,  \* when_all_control::remaining_
  claimed,    \* when_all_control::exception_claimed_
  ctlErr,     \* when_all_control::exception_
  hold,       \* hold[k]: the programs and functions that have a handle of k
  queued,     \* the nodes in the scheduler
  stack,      \* the frames on each thread's stack
  runs,       \* history: how often the function of a task was called,
  aborted     \* and whether an assertion failed or std::terminate was called

stateVars == <<refs, cont, err>>
nodeVars  == <<nodes, next>>
ctlVars   == <<remaining, claimed, ctlErr>>
histVars  == <<runs, aborted>>
vars == <<refs, cont, err, nodes, next, remaining, claimed, ctlErr, hold, queued, stack, runs,
          aborted>>

\* A frame: the node it runs (None for a program), its place, the position in its script,
\* the task that a call of it makes, two node pointers and an exception.
Frame(n, l) == [node |-> n, pc |-> l, at |-> 1, making |-> None, cur |-> None, nxt |-> None,
                exc |-> None]

Init ==
  /\ refs = [k \in Tasks |-> 0]
  /\ cont = [k \in Tasks |-> None]
  /\ err  = [k \in Tasks |-> None]
  /\ nodes = {}
  /\ next = [n \in Nodes |-> None]
  /\ remaining = [k \in Tasks |-> 0]
  /\ claimed = [k \in Tasks |-> FALSE]
  /\ ctlErr = [k \in Tasks |-> None]
  /\ hold = [k \in Tasks |-> {}]
  /\ queued = {}
  /\ stack = [t \in Threads |-> IF Home[t] = None THEN <<>> ELSE <<Frame(None, "user")>>]
  /\ runs = [k \in Tasks |-> 0]
  /\ aborted = FALSE

Top(t)    == stack[t][Len(stack[t])]
At(t, l)  == stack[t] # <<>> /\ Top(t).pc = l
Become(t, f) == stack' = [stack EXCEPT ![t][Len(stack[t])] = f]
Goto(t, l)   == Become(t, [Top(t) EXCEPT !.pc = l])
Pop(t)       == stack' = [stack EXCEPT ![t] = SubSeq(@, 1, Len(@) - 1)]

BodyOf(t, f)  == IF f.node = None THEN Home[t] ELSE f.node[1]
Body(t)       == BodyOf(t, Top(t))
\* The task that a frame makes, or else settles.
SubjectOf(f)  == IF f.making # None THEN f.making ELSE f.node[1]
Subject(t)    == SubjectOf(Top(t))
CallOf(t, f)  == Script[BodyOf(t, f)][f.at]
HasCall(t)    == Top(t).at <= Len(Script[Body(t)])
Call(t)       == CallOf(t, Top(t))
\* Thread t is about to make a call of op, with the handle that takes.
Calls(t, op)  == /\ At(t, "user") /\ HasCall(t) /\ Call(t).op = op
                 /\ op # "make" => Body(t) \in hold[Call(t).arg]

\* The frame once the call is over.
Returned(f) == [f EXCEPT !.pc = "user", !.at = @ + 1, !.making = None, !.cur = None, !.exc = None]

AddRef(k)    == refs' = [refs EXCEPT ![k] = @ + 1]
Release(k)   == refs' = [refs EXCEPT ![k] = @ - 1]
Full         == Cardinality(queued) >= QueueCap

-----------------------------------------------------------------------------
(* submit_task, then, when_all: make the state and the nodes.  The caller  *)
(* has the first reference of the state, and handles of the tasks it       *)
(* continues.                                                              *)

\* A task stands for one call: it has not been made before.
CallsMake(t, kind) ==
  /\ Calls(t, "make")
  /\ Kind[Call(t).arg] = kind
  /\ refs[Call(t).arg] = 0 /\ cont[Call(t).arg] = None
  /\ \A i \in DOMAIN Pred[Call(t).arg] : Body(t) \in hold[Pred[Call(t).arg][i]]

Making(t, k, c, l) == /\ Become(t, [Top(t) EXCEPT !.making = k, !.cur = c, !.pc = l])
                      /\ hold' = [hold EXCEPT ![k] = {Body(t)}]

\* Mutant: the node does not count as a reference.
SubmitTaskWeak(t) ==
  /\ CallsMake(t, "produce")
  /\ LET k == Call(t).arg IN
       /\ refs' = [refs EXCEPT ![k] = 1]
       /\ nodes' = nodes \cup {<<k, 1>>}
       /\ Making(t, k, <<k, 1>>, "give")
  /\ UNCHANGED <<cont, err, next, ctlVars, queued, histVars>>

SubmitTask(t) ==
  /\ CallsMake(t, "produce")
  /\ LET k == Call(t).arg IN
       /\ refs' = [refs EXCEPT ![k] = 2]
       /\ nodes' = nodes \cup {<<k, 1>>}
       /\ Making(t, k, <<k, 1>>, "give")
  /\ UNCHANGED <<cont, err, next, ctlVars, queued, histVars>>

Then(t) ==
  /\ CallsMake(t, "then")
  /\ LET k == Call(t).arg IN
       /\ refs' = [refs EXCEPT ![k] = 2, ![Pred[k][1]] = @ + 1]
       /\ nodes' = nodes \cup {<<k, 1>>}
       /\ Making(t, k, <<k, 1>>, "load")
  /\ UNCHANGED <<cont, err, next, ctlVars, queued, histVars>>

\* The control block of when_all has a reference of the result; without tasks there is none,
\* and the result is set at once.
WhenAll(t) ==
  /\ CallsMake(t, "all")
  /\ LET k == Call(t).arg IN
       \/ /\ Pred[k] = <<>>
          /\ refs' = [refs EXCEPT ![k] = 1]
          /\ Making(t, k, None, "store")
          /\ UNCHANGED remaining
       \/ /\ Pred[k] # <<>>
          /\ refs' = [refs EXCEPT ![k] = 2]
          /\ remaining' = [remaining EXCEPT ![k] = Len(Pred[k])]
          /\ Making(t, k, <<k, 1>>, "attach")
  /\ UNCHANGED <<cont, err, nodeVars, claimed, ctlErr, queued, histVars>>

\* The node of one task of a when_all ...
Attach(t) ==
  /\ At(t, "attach")
  /\ AddRef(PredOf(Top(t).cur))
  /\ nodes' = nodes \cup {Top(t).cur}
  /\ Goto(t, "load")
  /\ UNCHANGED <<cont, err, next, ctlVars, hold, queued, histVars>>

\* ... or its allocation throws: the caller arrives for this and the remaining tasks.
AttachFails(t) ==
  /\ At(t, "attach")
  /\ Subject(t) \in MayFail
  /\ Become(t, [Top(t) EXCEPT !.pc = "claim", !.exc = AllocError])
  /\ UNCHANGED <<stateVars, nodeVars, ctlVars, hold, queued, histVars>>

-----------------------------------------------------------------------------
(* add_continuation.                                                       *)

\* A when_all that has more tasks than the one of node cur.
More(f) == /\ f.making # None
           /\ Kind[f.making] = "all"
           /\ f.cur[2] < Len(Pred[f.making])

\* The frame once node cur has been added.
Linked(f) ==
  IF More(f) THEN [f EXCEPT !.cur = <<@[1], @[2] + 1>>, !.pc = "attach"] ELSE Returned(f)

\* Mutant: a complete task is taken for one with an empty list.
SeeAlwaysLinks(t) ==
  LET n == Top(t).cur IN
    /\ next' = [next EXCEPT ![n] = cont[PredOf(n)]]
    /\ Goto(t, "cas")

\* What follows from the value of continuations_ just read.
See(t) ==
  LET n == Top(t).cur
      head == cont[PredOf(n)] IN
    \/ /\ head = Finished
       /\ next' = [next EXCEPT ![n] = None]
       /\ Goto(t, "give")
    \/ /\ head # Finished
       /\ next' = [next EXCEPT ![n] = head]
       /\ Goto(t, "cas")

Load(t) ==
  /\ At(t, "load")
  /\ See(t)
  /\ UNCHANGED <<stateVars, nodes, ctlVars, hold, queued, histVars>>

\* compare_exchange_weak; a spurious failure reads the same value again.
CompareExchange(t) ==
  /\ At(t, "cas")
  /\ LET n == Top(t).cur
         p == PredOf(n) IN
       \/ /\ cont[p] = next[n]
          /\ cont' = [cont EXCEPT ![p] = n]
          /\ Become(t, Linked(Top(t)))
          /\ UNCHANGED next
       \/ /\ cont[p] # next[n]
          /\ See(t)
          /\ UNCHANGED cont
  /\ UNCHANGED <<refs, err, nodes, ctlVars, hold, queued, histVars>>

\* A node whose turn has come goes to the scheduler.
Give(t) ==
  /\ At(t, "give") /\ ~Full
  /\ queued' = queued \cup {Top(t).cur}
  /\ Become(t, Linked(Top(t)))
  /\ UNCHANGED <<stateVars, nodeVars, ctlVars, hold, histVars>>

-----------------------------------------------------------------------------
(* Workers, and those who help.                                            *)

Idle(t)    == t \in Workers /\ stack[t] = <<>>
Blocked(t) == (At(t, "give") \/ At(t, "submit")) /\ Full

\* Run a queued node on top of what the thread is doing.
Take(t) ==
  /\ Idle(t) \/ At(t, "help") \/ Blocked(t)
  /\ \E n \in queued :
       LET produce == Kind[n[1]] = "produce"
           below == [i \in DOMAIN stack[t] |->
                       IF stack[t][i].pc = "help" THEN [stack[t][i] EXCEPT !.pc = "wait"]
                                                  ELSE stack[t][i]] IN
         /\ queued' = queued \ {n}
         /\ stack' = [stack EXCEPT ![t] = Append(below, Frame(n, IF produce THEN "user" ELSE "look"))]
         /\ runs' = IF produce THEN [runs EXCEPT ![n[1]] = @ + 1] ELSE runs
  /\ UNCHANGED <<stateVars, nodeVars, ctlVars, hold, aborted>>

\* Mutant: the exception of the predecessor is not looked at.
LookAway(t) ==
  /\ At(t, "look")
  /\ IF Kind[Subject(t)] = "all"
     THEN Goto(t, "release_pred") /\ UNCHANGED runs
     ELSE Goto(t, "user") /\ runs' = [runs EXCEPT ![Subject(t)] = @ + 1]
  /\ UNCHANGED <<stateVars, nodeVars, ctlVars, hold, queued, aborted>>

\* get_exception of the predecessor.  The function of then runs if there is none.
Look(t) ==
  /\ At(t, "look")
  /\ LET k == Subject(t)
         p == PredOf(Top(t).node)
         x == IF cont[p] = Finished THEN err[p] ELSE None IN
       \/ /\ Kind[k] = "all"
          /\ Become(t, [Top(t) EXCEPT !.pc = "release_pred", !.exc = x])
          /\ UNCHANGED runs
       \/ /\ Kind[k] = "then" /\ x # None
          /\ Become(t, [Top(t) EXCEPT !.pc = "store", !.exc = x])
          /\ UNCHANGED runs
       \/ /\ Kind[k] = "then" /\ x = None
          /\ Goto(t, "user")
          /\ runs' = [runs EXCEPT ![k] = @ + 1]
  /\ UNCHANGED <<stateVars, nodeVars, ctlVars, hold, queued, aborted>>

\* The program ends, or the function returns or throws.
Return(t) ==
  /\ At(t, "user") /\ ~HasCall(t)
  /\ \/ Top(t).node = None /\ Pop(t)
     \/ /\ Top(t).node # None
        /\ Become(t, [Top(t) EXCEPT !.pc = "store",
                                    !.exc = IF Body(t) \in Throws THEN Body(t) ELSE None])
  /\ UNCHANGED <<stateVars, nodeVars, ctlVars, hold, queued, histVars>>

-----------------------------------------------------------------------------
(* finish.                                                                 *)

StoreException(t) ==
  /\ At(t, "store")
  /\ err' = [err EXCEPT ![Subject(t)] = Top(t).exc]
  /\ Goto(t, "exchange")
  /\ UNCHANGED <<refs, cont, nodeVars, ctlVars, hold, queued, histVars>>

Exchange(t) ==
  /\ At(t, "exchange")
  /\ LET k == Subject(t) IN
       /\ cont' = [cont EXCEPT ![k] = Finished]
       /\ aborted' = (aborted \/ cont[k] = Finished)
       /\ Become(t, [Top(t) EXCEPT !.pc = "notify",
                                   !.cur = IF cont[k] = Finished THEN None ELSE cont[k]])
  /\ UNCHANGED <<refs, err, nodeVars, ctlVars, hold, queued, runs>>

\* Mutant: finish does not notify those who wait.
NotifyNobody(t) ==
  /\ At(t, "notify")
  /\ Goto(t, "schedule")
  /\ UNCHANGED <<stateVars, nodeVars, ctlVars, hold, queued, histVars>>

ParkedOn(t, k) == At(t, "parked") /\ Call(t).arg = k

\* Those who wait on continuations_ compare it again.
Notify(t) ==
  /\ At(t, "notify")
  /\ stack' = [u \in Threads |->
                 LET l == IF u = t THEN "schedule"
                          ELSE IF ParkedOn(u, Subject(t)) THEN "compare" ELSE "" IN
                   IF l = "" THEN stack[u] ELSE [stack[u] EXCEPT ![Len(stack[u])].pc = l]]
  /\ UNCHANGED <<stateVars, nodeVars, ctlVars, hold, queued, histVars>>

\* The next continuation; after the last one the references are released.
Schedule(t) ==
  /\ At(t, "schedule")
  /\ LET f == Top(t)
         k == Subject(t) IN
       \/ /\ f.cur # None
          /\ Become(t, [f EXCEPT !.pc = "submit", !.nxt = next[f.cur]])
          /\ next' = [next EXCEPT ![f.cur] = None]
       \/ /\ f.cur = None
          /\ Become(t, IF Pred[k] = <<>> /\ f.making = k THEN Returned(f)
                       ELSE IF Kind[k] = "then" THEN [f EXCEPT !.pc = "release_pred"]
                       ELSE [f EXCEPT !.pc = "release_result"])
          /\ UNCHANGED next
  /\ UNCHANGED <<stateVars, nodes, ctlVars, hold, queued, histVars>>

Submit(t) ==
  /\ At(t, "submit") /\ ~Full
  /\ queued' = queued \cup {Top(t).cur}
  /\ Become(t, [Top(t) EXCEPT !.pc = "schedule", !.cur = Top(t).nxt, !.nxt = None])
  /\ UNCHANGED <<stateVars, nodeVars, ctlVars, hold, histVars>>

ReleasePred(t) ==
  /\ At(t, "release_pred")
  /\ Release(PredOf(Top(t).node))
  /\ Goto(t, IF Kind[Subject(t)] = "then" THEN "release_result"
             ELSE IF Top(t).exc # None THEN "claim" ELSE "arrive")
  /\ UNCHANGED <<cont, err, nodeVars, ctlVars, hold, queued, histVars>>

\* The frame is done with its node, which is freed, or with a call.
FreeNode(t) ==
  \/ /\ Top(t).making = None
     /\ nodes' = nodes \ {Top(t).node}
     /\ Pop(t)
  \/ /\ Top(t).making # None
     /\ Become(t, Returned(Top(t)))
     /\ UNCHANGED nodes

ReleaseResult(t) ==
  /\ At(t, "release_result")
  /\ Release(Subject(t))
  /\ FreeNode(t)
  /\ UNCHANGED <<cont, err, next, ctlVars, hold, queued, histVars>>

-----------------------------------------------------------------------------
(* when_all_control::arrive.                                               *)

Claim(t) ==
  /\ At(t, "claim")
  /\ claimed' = [claimed EXCEPT ![Subject(t)] = TRUE]
  /\ Goto(t, IF claimed[Subject(t)] THEN "arrive" ELSE "write")
  /\ UNCHANGED <<stateVars, nodeVars, remaining, ctlErr, hold, queued, histVars>>

WriteException(t) ==
  /\ At(t, "write")
  /\ ctlErr' = [ctlErr EXCEPT ![Subject(t)] = Top(t).exc]
  /\ Goto(t, "arrive")
  /\ UNCHANGED <<stateVars, nodeVars, remaining, claimed, hold, queued, histVars>>

\* The last one sets the result, and then frees the control block.
Arrive(t) ==
  /\ At(t, "arrive")
  /\ LET k == Subject(t)
         f == Top(t) IN
       /\ remaining' = [remaining EXCEPT ![k] = @ - 1]
       /\ \/ /\ remaining[k] = 1
             /\ Become(t, [f EXCEPT !.pc = "store", !.exc = ctlErr[k]])
             /\ UNCHANGED nodes
          \/ /\ remaining[k] # 1
             /\ More(f)
             /\ Become(t, [f EXCEPT !.pc = "claim", !.cur = <<@[1], @[2] + 1>>])
             /\ UNCHANGED nodes
          \/ /\ remaining[k] # 1
             /\ ~More(f)
             /\ FreeNode(t)
  /\ UNCHANGED <<stateVars, next, claimed, ctlErr, hold, queued, histVars>>

-----------------------------------------------------------------------------
(* Waits and handles.                                                      *)

\* The tasks whose nodes are on t's stack; those of when_all do not set task_execution_slot.
Ancestors(t) == {k \in Tasks : /\ Kind[k] # "all"
                               /\ \E i \in DOMAIN stack[t] : stack[t][i].node = <<k, 1>>}

\* wait(ctx): help until the task is complete.
Wait(t) ==
  /\ Calls(t, "wait") \/ At(t, "wait")
  /\ aborted' = (aborted \/ (At(t, "user") /\ Call(t).arg \in Ancestors(t)))
  /\ IF cont[Call(t).arg] = Finished THEN Become(t, Returned(Top(t))) ELSE Goto(t, "help")
  /\ UNCHANGED <<stateVars, nodeVars, ctlVars, hold, queued, runs>>

HelpNobody(t) ==
  /\ At(t, "help") /\ queued = {}
  /\ Goto(t, "wait")
  /\ UNCHANGED <<stateVars, nodeVars, ctlVars, hold, queued, histVars>>

\* wait(): park on the value of continuations_ that was read.
Block(t) ==
  /\ Calls(t, "block") \/ At(t, "block")
  /\ LET v == cont[Call(t).arg] IN
       Become(t, IF v = Finished THEN Returned(Top(t))
                 ELSE [Top(t) EXCEPT !.pc = "compare", !.cur = v])
  /\ UNCHANGED <<stateVars, nodeVars, ctlVars, hold, queued, histVars>>

Compare(t) ==
  /\ At(t, "compare")
  /\ Goto(t, IF cont[Call(t).arg] = Top(t).cur THEN "parked" ELSE "block")
  /\ UNCHANGED <<stateVars, nodeVars, ctlVars, hold, queued, histVars>>

\* A body has one handle of a task.
Copy(t) ==
  /\ Calls(t, "copy")
  /\ Call(t).to \notin hold[Call(t).arg]
  /\ LET c == Call(t) IN
       /\ AddRef(c.arg)
       /\ hold' = [hold EXCEPT ![c.arg] = @ \cup {c.to}]
  /\ Become(t, Returned(Top(t)))
  /\ UNCHANGED <<cont, err, nodeVars, ctlVars, queued, histVars>>

Drop(t) ==
  /\ Calls(t, "drop")
  /\ LET k == Call(t).arg IN
       /\ Release(k)
       /\ hold' = [hold EXCEPT ![k] = @ \ {Body(t)}]
  /\ Become(t, Returned(Top(t)))
  /\ UNCHANGED <<cont, err, nodeVars, ctlVars, queued, histVars>>

-----------------------------------------------------------------------------

Step(t) ==
  \/ SubmitTask(t) \/ Then(t) \/ WhenAll(t) \/ Attach(t) \/ AttachFails(t) \/ Load(t)
  \/ CompareExchange(t) \/ Give(t) \/ Take(t) \/ Look(t) \/ Return(t)
  \/ StoreException(t) \/ Exchange(t) \/ Notify(t) \/ Schedule(t) \/ Submit(t)
  \/ ReleasePred(t) \/ ReleaseResult(t) \/ Claim(t) \/ WriteException(t) \/ Arrive(t)
  \/ Wait(t) \/ HelpNobody(t) \/ Block(t) \/ Compare(t) \/ Copy(t) \/ Drop(t)

Ended    == queued = {} /\ \A t \in Threads : stack[t] = <<>>
Stopped  == Ended /\ UNCHANGED vars

Next == (\E t \in Threads : Step(t)) \/ Stopped

Spec == Init /\ [][Next]_vars

\* Threads are scheduled by the operating system.
FairSpec == Spec /\ \A t \in Threads : WF_vars(Step(t))

-----------------------------------------------------------------------------
(* Properties.                                                             *)

Frames == UNION {{t} \X DOMAIN stack[t] : t \in Threads}
FrameAt(x) == stack[x[1]][x[2]]

Pointers == Nodes \cup {None}
PCs == {"user", "give", "load", "cas", "attach", "look", "store", "exchange", "notify", "schedule",
        "submit", "release_pred", "release_result", "claim", "write", "arrive", "wait", "help",
        "block", "compare", "parked"}

\* The types of the variables; no count falls below 0.
TypeOK ==
  /\ refs \in [Tasks -> Nat]
  /\ cont \in [Tasks -> Pointers \cup {Finished}]
  /\ err \in [Tasks -> Tasks \cup {None, AllocError}]
  /\ nodes \subseteq Nodes
  /\ next \in [Nodes -> Pointers]
  /\ remaining \in [Tasks -> Nat]
  /\ claimed \in [Tasks -> BOOLEAN]
  /\ ctlErr \in [Tasks -> Tasks \cup {None, AllocError}]
  /\ hold \in [Tasks -> SUBSET Bodies]
  /\ queued \subseteq Nodes
  /\ \A x \in Frames : FrameAt(x) \in [node : Pointers, pc : PCs, at : Nat,
                                       making : Tasks \cup {None}, cur : Pointers,
                                       nxt : Pointers, exc : Tasks \cup {None, AllocError}]
  /\ runs \in [Tasks -> Nat]
  /\ aborted \in BOOLEAN

\* The states and nodes that a frame will still use.
Finishing == {"store", "exchange", "notify", "schedule", "submit", "release_result"}
BeforePred == {"look", "user", "give", "load", "cas", "attach", "wait", "help", "store", "exchange",
               "notify", "schedule", "submit", "release_pred"}
UsesNodes(f) ==
  {f.node} \cup (IF f.pc \in {"load", "cas", "give", "schedule", "submit"} THEN {f.cur, f.nxt} ELSE {})
UsesStates(x) ==
  LET f == FrameAt(x) IN
    (IF f.pc \in {"wait", "help", "block", "compare", "parked"} THEN {CallOf(x[1], f).arg} ELSE {})
    \cup (IF f.pc \in Finishing \/ f.making # None THEN {SubjectOf(f)} ELSE {})
    \cup (IF f.pc \in {"load", "cas"} THEN {PredOf(f.cur)} ELSE {})
    \cup (IF f.node # None /\ Kind[f.node[1]] # "all" THEN {f.node[1]} ELSE {})
    \cup (IF f.node # None /\ f.pc = "look" THEN {PredOf(f.node)} ELSE {})

\* No thread has the address of a state or node that is freed: not the one that finishes a
\* task while those who waited for it drop their handles, nor one that adds a continuation
\* while the task finishes, nor a list.  The node that
\* a thread is about to link may name a freed one, which is then not the head any more.  A
\* state is destroyed with its list empty.
NoDangling ==
  /\ \A x \in Frames : /\ UsesNodes(FrameAt(x)) \subseteq nodes \cup {None}
                       /\ \A k \in UsesStates(x) : refs[k] > 0
  /\ queued \subseteq nodes
  /\ \A k \in Tasks : cont[k] \in nodes \cup {None, Finished} /\ (cont[k] \in nodes => refs[k] > 0)
  /\ \A n \in nodes : \/ next[n] \in nodes \cup {None}
                      \/ \E x \in Frames : FrameAt(x).pc = "cas" /\ FrameAt(x).cur = n

\* Whoever is parked in wait() waits for a task that is not complete, or will be notified.
NoLostWakeup ==
  \A t \in Threads :
    At(t, "parked") =>
      \/ cont[Call(t).arg] # Finished
      \/ \E x \in Frames : FrameAt(x).pc = "notify" /\ SubjectOf(FrameAt(x)) = Call(t).arg

\* TaskState implements Future.
F == INSTANCE Future WITH
       outcome <- [k \in Tasks |-> IF cont[k] = Finished THEN err[k] ELSE Pending]
Implements == F!Spec

\* Every program ends, every function that was submitted has run, nothing was aborted, and
\* no state or node is left.
AllFreed == /\ Ended /\ ~aborted
            /\ nodes = {}
            /\ \A k \in Tasks : refs[k] = 0 /\ hold[k] = {}
AllEnd == <>AllFreed

\* wait(ctx) on a task that is complete returns: it does not terminate the program, which it
\* is meant to do when a task waits on an executing ancestor.
ReadyWaitReturns ==
  [][\A t \in Threads :
       Wait(t) /\ cont[Call(t).arg] = Finished => aborted' = aborted]_vars
=============================================================================
