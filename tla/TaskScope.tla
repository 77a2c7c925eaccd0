------------------------------ MODULE TaskScope ------------------------------
(***************************************************************************)
(* ouly::basic_task_scope: fork/join on top of a scheduler.                *)
(*                                                                         *)
(* Each child has a node with two references: the list of the scope has    *)
(* one, the lambda queued in the scheduler the other.  Whoever gets to it  *)
(* first, a worker or a joiner, claims it.  outstanding_ counts the        *)
(* children that are not complete; joiners park on it.                     *)
(*                                                                         *)
(* The scheduler is a set of queued lambdas per workgroup; it is the       *)
(* component SchedulerV3 models.  When its queue is full a submission runs *)
(* queued lambdas on the stack of its caller.  A step is one critical      *)
(* section of mutex_ or one access to an atomic.  complete_one holds       *)
(* mutex_ for two steps, since outstanding_ is also read without it.       *)
(***************************************************************************)
EXTENDS Integers, Sequences, FiniteSets

CONSTANTS
  Workers,
  Member,    \* Member[g]: the workers of workgroup g
  Scopes,
  Children,  \* the functions given to run, each at most once
  ScopeOf,   \* the scope and the workgroup each one is given to
  GroupOf,
  Owner,     \* the body each scope is a local variable of
  Throws,    \* the children that end with an exception
  Root,      \* the program that worker Caller runs
  Caller,
  Script,    \* the calls of Root and of each child
  None

Groups == DOMAIN Member
Bodies == Children \cup {Root}

Op == [op : {"run"}, arg : Children] \cup [op : {"join", "block", "reset", "destroy"}, arg : Scopes]

\* What a call does to scope s.
Gives(c, s)   == c.op = "run" /\ ScopeOf[c.arg] = s
IsJoin(c, s)  == c.op \in {"join", "block"} /\ c.arg = s
IsReset(c, s) == c.op = "reset" /\ c.arg = s
IsEnd(c, s)   == c.op \in {"reset", "destroy"} /\ c.arg = s
Uses(c, s)    == Gives(c, s) \/ IsJoin(c, s) \/ IsEnd(c, s)

\* Before the i-th call of its owner the scope is closed: joined, and not reset since.
Closed(s, i) == \E j \in 1 .. (i - 1) :
                  /\ IsJoin(Script[Owner[s]][j], s)
                  /\ \A k \in (j + 1) .. (i - 1) : ~IsReset(Script[Owner[s]][k], s)
\* Its owner has given it no child since it joined it, or none at all.
Settled(s, i) == \E j \in 0 .. (i - 1) :
                   /\ j = 0 \/ IsJoin(Script[Owner[s]][j], s)
                   /\ \A k \in (j + 1) .. (i - 1) : ~Gives(Script[Owner[s]][k], s)

\* The assertions of run, join, reset and the destructor, read as rules for programs: a scope
\* is joined, reset and destroyed by the body that declares it, which is not its child; only
\* that body, while the scope is not closed, and its children give it children; it is reset
\* and destroyed when they are joined or there were none, and not used after it is destroyed.
LexicalAssumption ==
  /\ \A b \in Bodies : \A i \in DOMAIN Script[b] : \A s \in Scopes :
       /\ Gives(Script[b][i], s) => b = Owner[s] \/ (b \in Children /\ ScopeOf[b] = s)
       /\ IsJoin(Script[b][i], s) \/ IsEnd(Script[b][i], s) => b = Owner[s]
  /\ \A s \in Scopes :
       /\ Owner[s] \in Children => ScopeOf[Owner[s]] # s
       /\ \A i \in DOMAIN Script[Owner[s]] : LET c == Script[Owner[s]][i] IN
            /\ Gives(c, s) => ~Closed(s, i)
            /\ IsEnd(c, s) => Settled(s, i)
            /\ c = [op |-> "destroy", arg |-> s] =>
                 \A k \in DOMAIN Script[Owner[s]] : k > i => ~Uses(Script[Owner[s]][k], s)

ScopeAssumption ==
  /\ IsFiniteSet(Workers) /\ IsFiniteSet(Children)
  /\ Caller \in Workers
  /\ \A g \in Groups : Member[g] \subseteq Workers
  /\ ScopeOf \in [Children -> Scopes]
  /\ GroupOf \in [Bodies -> Groups]
  /\ Throws \subseteq Children
  /\ Root \notin Children
  /\ None \notin Bodies \cup Scopes \cup Workers
  /\ Script \in [Bodies -> Seq(Op)]
  /\ Owner \in [Scopes -> Bodies]
  \* A child stands for one call of run.
  /\ \A a, b \in Bodies : \A i \in DOMAIN Script[a], j \in DOMAIN Script[b] :
       Script[a][i].op = "run" /\ Script[b][j] = Script[a][i] => a = b /\ i = j
  /\ LexicalAssumption

VARIABLES
  nodes,        \* nodes_, newest first
  outstanding,  \* outstanding_
  closed,       \* closed_
  exception,    \* exception_: the child whose exception it is
  mutex,        \* the worker that holds mutex_
  refs,         \* references_ of each node; 0 before it is made and once it is freed
  claimed,      \* claimed_ of each node
  queue,        \* lambdas in the scheduler, by workgroup
  pc,           \* where each worker is
  stack,        \* the bodies on each worker's stack: where the caller goes on after them,
                \* and the scope_execution_slot they replaced
  at,           \* position in each script
  slot,         \* scope_execution_slot of each worker
  join,         \* locals of the join a body is in
  given,        \* history: the children given to run since the last reset of their scope,
  done,         \* those that returned or threw,
  destroyed,    \* the scopes whose destructor ran,
  aborted       \* and whether std::terminate was called

scopeVars == <<nodes, outstanding, closed, exception, mutex>>
nodeVars  == <<refs, claimed, queue>>
histVars  == <<given, done, destroyed, aborted>>
vars == <<nodes, outstanding, closed, exception, mutex, refs, claimed, queue, pc, stack, at,
          slot, join, given, done, destroyed, aborted>>

NoJoin == [list |-> <<>>, todo |-> <<>>, had |-> FALSE, count |-> 0]

Init ==
  /\ nodes = [s \in Scopes |-> <<>>]
  /\ outstanding = [s \in Scopes |-> 0]
  /\ closed = [s \in Scopes |-> FALSE]
  /\ exception = [s \in Scopes |-> None]
  /\ mutex = [s \in Scopes |-> None]
  /\ refs = [n \in Children |-> 0]
  /\ claimed = [n \in Children |-> FALSE]
  /\ queue = [g \in Groups |-> {}]
  /\ pc = [w \in Workers |-> IF w = Caller THEN "user" ELSE "idle"]
  /\ stack = [w \in Workers |->
                IF w = Caller THEN <<[body |-> Root, back |-> "idle", slot |-> None]>> ELSE <<>>]
  /\ at = [b \in Bodies |-> 1]
  /\ slot = [w \in Workers |-> None]
  /\ join = [b \in Bodies |-> NoJoin]
  /\ given = {}
  /\ done = {}
  /\ destroyed = {}
  /\ aborted = FALSE

Goto(w, l) == pc' = [pc EXCEPT ![w] = l]
Top(w)  == stack[w][Len(stack[w])]
Body(w) == Top(w).body
HasCall(w) == stack[w] # <<>> /\ at[Body(w)] <= Len(Script[Body(w)])
Call(w) == Script[Body(w)][at[Body(w)]]
\* Worker w is at l in a call of op.
In(w, op, l) == pc[w] = l /\ HasCall(w) /\ Call(w).op = op
Joins(w) == HasCall(w) /\ Call(w).op \in {"join", "block"}
Advance(w) == at' = [at EXCEPT ![Body(w)] = @ + 1]
Locals(w)  == join[Body(w)]

Push(w, n) == /\ stack' = [stack EXCEPT ![w] =
                             Append(@, [body |-> n, back |-> pc[w], slot |-> slot[w]])]
              /\ slot' = [slot EXCEPT ![w] = ScopeOf[n]]
              /\ claimed' = [claimed EXCEPT ![n] = TRUE]
              /\ Goto(w, "user")
\* The frame is that of a lambda the scheduler runs, not of a joiner that executes the node.
ByLambda(f) == f.back # "scan"
\* Drop one reference of each node of the set.
Release(ns) == refs' = [n \in Children |-> IF n \in ns THEN refs[n] - 1 ELSE refs[n]]
Members(list) == {list[i] : i \in DOMAIN list}
DropNodes(s) == nodes' = [nodes EXCEPT ![s] = <<>>] /\ Release(Members(nodes[s]))
\* outstanding_.notify_all(): those who wait on it compare the value again.
Woken(w, s) == pc[w] = "parked" /\ Call(w).arg = s
NotifyGoto(w, s, l) ==
  pc' = [v \in Workers |-> IF v = w THEN l ELSE IF Woken(v, s) THEN "compare" ELSE pc[v]]

-----------------------------------------------------------------------------
(* run.                                                                    *)

\* The critical section: make the node, publish it, count it.  Only a descendant may call
\* run once a join has closed the scope.
Run(w) ==
  /\ In(w, "run", "user")
  /\ LET n == Call(w).arg
         s == ScopeOf[n] IN
       /\ mutex[s] = None
       /\ aborted' = (aborted \/ (closed[s] /\ slot[w] # s))
       /\ nodes' = [nodes EXCEPT ![s] = <<n>> \o @]
       /\ outstanding' = [outstanding EXCEPT ![s] = @ + 1]
       /\ refs' = [refs EXCEPT ![n] = 2]
       /\ given' = given \cup {n}
       /\ Goto(w, IF closed[s] THEN "wake_joiner" ELSE "submit")
  /\ UNCHANGED <<closed, exception, mutex, claimed, queue, stack, at, slot, join, done, destroyed>>

WakeJoiner(w) ==
  /\ In(w, "run", "wake_joiner")
  /\ NotifyGoto(w, ScopeOf[Call(w).arg], "submit")
  /\ UNCHANGED <<scopeVars, nodeVars, stack, at, slot, join, histVars>>

Submit(w) ==
  /\ In(w, "run", "submit")
  /\ queue' = [queue EXCEPT ![GroupOf[Call(w).arg]] = @ \cup {Call(w).arg}]
  /\ Advance(w)
  /\ Goto(w, "user")
  /\ UNCHANGED <<scopeVars, refs, claimed, stack, slot, join, histVars>>

-----------------------------------------------------------------------------
(* Execution of a child.                                                   *)

\* Mutant: the lambda does not look whether a joiner has claimed the node.
TakeUnclaimed(w) ==
  /\ pc[w] = "idle" \/ In(w, "run", "submit")
  /\ \E g \in Groups : \E n \in queue[g] :
       /\ w \in Member[g]
       /\ queue' = [queue EXCEPT ![g] = @ \ {n}]
       /\ Push(w, n) /\ UNCHANGED refs
  /\ UNCHANGED <<scopeVars, at, join, histVars>>

\* A worker that has nothing to do, or whose submission finds the queue full, runs a queued
\* lambda: execute the child unless it is claimed, then release.
Take(w) ==
  /\ pc[w] = "idle" \/ In(w, "run", "submit")
  /\ \E g \in Groups : \E n \in queue[g] :
       /\ w \in Member[g]
       /\ queue' = [queue EXCEPT ![g] = @ \ {n}]
       /\ \/ ~claimed[n] /\ Push(w, n) /\ UNCHANGED refs
          \/ claimed[n] /\ Release({n}) /\ UNCHANGED <<claimed, pc, stack, slot>>
  /\ UNCHANGED <<scopeVars, at, join, histVars>>

\* Mutant: scope_execution_slot stays that of the child.
KeepSlot(w) == UNCHANGED slot

RestoreSlot(w) == slot' = [slot EXCEPT ![w] = Top(w).slot]

\* The function has returned or thrown; its task state is set.
Return(w) ==
  /\ pc[w] = "user"
  /\ stack[w] # <<>>
  /\ ~HasCall(w)
  /\ \/ /\ Body(w) = Root
        /\ stack' = [stack EXCEPT ![w] = <<>>]
        /\ Goto(w, "idle")
        /\ UNCHANGED <<slot, done>>
     \/ /\ Body(w) # Root
        /\ RestoreSlot(w)
        /\ done' = done \cup {Body(w)}
        /\ Goto(w, "complete")
        /\ UNCHANGED stack
  /\ UNCHANGED <<scopeVars, nodeVars, at, join, given, destroyed, aborted>>

\* complete_one: the first exception is kept.
KeepException(n, s) ==
  exception' = IF n \in Throws /\ exception[s] = None THEN [exception EXCEPT ![s] = n]
                                                      ELSE exception

\* Mutant: the count goes down without the mutex.
CompleteUnlocked(w) ==
  /\ pc[w] = "complete"
  /\ LET s == ScopeOf[Body(w)] IN
       /\ KeepException(Body(w), s)
       /\ outstanding' = [outstanding EXCEPT ![s] = @ - 1]
  /\ Goto(w, "completed")
  /\ UNCHANGED <<nodes, closed, mutex, nodeVars, stack, at, slot, join, histVars>>

Complete(w) ==
  /\ pc[w] = "complete"
  /\ LET s == ScopeOf[Body(w)] IN
       /\ mutex[s] = None
       /\ mutex' = [mutex EXCEPT ![s] = w]
       /\ KeepException(Body(w), s)
       /\ outstanding' = [outstanding EXCEPT ![s] = @ - 1]
  /\ Goto(w, "completed")
  /\ UNCHANGED <<nodes, closed, nodeVars, stack, at, slot, join, histVars>>

\* The child that brings the count to 0 notifies before it unlocks.
Completed(w) ==
  /\ pc[w] = "completed"
  /\ LET s == ScopeOf[Body(w)] IN
       /\ mutex' = [mutex EXCEPT ![s] = None]
       /\ \/ outstanding[s] = 0 /\ NotifyGoto(w, s, Top(w).back)
          \/ outstanding[s] # 0 /\ Goto(w, Top(w).back)
  /\ Release(IF ByLambda(Top(w)) THEN {Body(w)} ELSE {})
  /\ stack' = [stack EXCEPT ![w] = SubSeq(@, 1, Len(@) - 1)]
  /\ UNCHANGED <<nodes, outstanding, closed, exception, claimed, queue, at, slot, join, histVars>>

-----------------------------------------------------------------------------
(* join(ctx), join(), reset and the destructor.                            *)

JoinCall(w) ==
  /\ pc[w] = "user" /\ Joins(w)
  /\ LET s == Call(w).arg IN
       /\ mutex[s] = None
       /\ aborted' = (aborted \/ slot[w] = s)
       /\ closed' = [closed EXCEPT ![s] = TRUE]
  /\ Goto(w, IF Call(w).op = "join" THEN "take" ELSE "load")
  /\ UNCHANGED <<nodes, outstanding, exception, mutex, nodeVars, stack, at, slot, join, given, done,
                 destroyed>>

\* take_nodes.
JoinTake(w) ==
  /\ In(w, "join", "take")
  /\ LET s == Call(w).arg IN
       /\ mutex[s] = None
       /\ join' = [join EXCEPT ![Body(w)] = [NoJoin EXCEPT !.list = nodes[s], !.todo = nodes[s], !.had = nodes[s] # <<>>]]
       /\ nodes' = [nodes EXCEPT ![s] = <<>>]
  /\ Goto(w, "scan")
  /\ UNCHANGED <<outstanding, closed, exception, mutex, nodeVars, stack, at, slot, histVars>>

\* Execute the taken nodes of the joiner's workgroup that nobody has claimed.
JoinScan(w) ==
  /\ In(w, "join", "scan")
  /\ Locals(w).todo # <<>>
  /\ LET n == Head(Locals(w).todo) IN
       \/ /\ GroupOf[n] = GroupOf[Body(w)] /\ ~claimed[n]
          /\ Push(w, n)
       \/ /\ GroupOf[n] # GroupOf[Body(w)] \/ claimed[n]
          /\ UNCHANGED <<claimed, pc, stack, slot>>
  /\ join' = [join EXCEPT ![Body(w)].todo = Tail(@)]
  /\ UNCHANGED <<scopeVars, refs, queue, at, histVars>>

\* Mutant: the references of the taken list are not dropped.
JoinLeak(w) ==
  /\ In(w, "join", "scan")
  /\ Locals(w).todo = <<>>
  /\ join' = [join EXCEPT ![Body(w)].list = <<>>]
  /\ Goto(w, "load")
  /\ UNCHANGED <<scopeVars, nodeVars, stack, at, slot, histVars>>

\* release_nodes of the taken list.
JoinRelease(w) ==
  /\ In(w, "join", "scan")
  /\ Locals(w).todo = <<>>
  /\ Release(Members(Locals(w).list))
  /\ join' = [join EXCEPT ![Body(w)].list = <<>>]
  /\ Goto(w, "load")
  /\ UNCHANGED <<scopeVars, claimed, queue, stack, at, slot, histVars>>

\* Mutant: the join is over when it finds no nodes.
JoinNoNodes(w) ==
  /\ pc[w] = "load"
  /\ Goto(w, IF outstanding[Call(w).arg] = 0 \/ ~Locals(w).had THEN "rethrow" ELSE "take")
  /\ UNCHANGED <<scopeVars, nodeVars, stack, at, slot, join, histVars>>

\* Load the count.  join(ctx) waits only after a round that found no nodes.
JoinLoad(w) ==
  /\ pc[w] = "load"
  /\ LET c == outstanding[Call(w).arg] IN
       \/ /\ c = 0
          /\ Goto(w, "rethrow")
          /\ UNCHANGED join
       \/ /\ c # 0 /\ Locals(w).had
          /\ Goto(w, "take")
          /\ UNCHANGED join
       \/ /\ c # 0 /\ ~Locals(w).had
          /\ join' = [join EXCEPT ![Body(w)].count = c]
          /\ Goto(w, "compare")
  /\ UNCHANGED <<scopeVars, nodeVars, stack, at, slot, histVars>>

\* outstanding_.wait(count): park while the value is still count.
JoinCompare(w) ==
  /\ pc[w] = "compare"
  /\ \/ outstanding[Call(w).arg] = Locals(w).count /\ Goto(w, "parked")
     \/ outstanding[Call(w).arg] # Locals(w).count
        /\ Goto(w, IF Call(w).op = "join" THEN "take" ELSE "load")
  /\ UNCHANGED <<scopeVars, nodeVars, stack, at, slot, join, histVars>>

SpuriousWake(w) ==
  /\ pc[w] = "parked"
  /\ Goto(w, "compare")
  /\ UNCHANGED <<scopeVars, nodeVars, stack, at, slot, join, histVars>>

\* The end of a join: join() takes and releases the nodes, both take the mutex once more to
\* read the exception.
Rethrow(w) ==
  /\ pc[w] = "rethrow"
  /\ LET s == Call(w).arg IN
       /\ mutex[s] = None
       /\ IF Call(w).op = "block" THEN DropNodes(s) ELSE UNCHANGED <<nodes, refs>>
  /\ join' = [join EXCEPT ![Body(w)] = NoJoin]
  /\ Advance(w)
  /\ Goto(w, "user")
  /\ UNCHANGED <<outstanding, closed, exception, mutex, claimed, queue, stack, slot, histVars>>

Reset(w) ==
  /\ In(w, "reset", "user")
  /\ LET s == Call(w).arg IN
       /\ mutex[s] = None
       /\ DropNodes(s)
       /\ exception' = [exception EXCEPT ![s] = None]
       /\ closed' = [closed EXCEPT ![s] = FALSE]
       /\ aborted' = (aborted \/ outstanding[s] # 0)
       /\ given' = {n \in given : ScopeOf[n] # s}
       /\ done'  = {n \in done : ScopeOf[n] # s}
  /\ Advance(w)
  /\ UNCHANGED <<outstanding, mutex, claimed, queue, pc, stack, slot, join, destroyed>>

Destroy(w) ==
  /\ In(w, "destroy", "user")
  /\ LET s == Call(w).arg IN
       /\ mutex[s] = None
       /\ DropNodes(s)
       /\ destroyed' = destroyed \cup {s}
       /\ aborted' = (aborted \/ outstanding[s] # 0)
  /\ Advance(w)
  /\ UNCHANGED <<outstanding, closed, exception, mutex, claimed, queue, pc, stack, slot, join,
                 given, done>>

-----------------------------------------------------------------------------

Step(w) ==
  \/ Run(w) \/ WakeJoiner(w) \/ Submit(w) \/ Take(w) \/ Return(w) \/ Complete(w) \/ Completed(w)
  \/ JoinCall(w) \/ JoinTake(w) \/ JoinScan(w) \/ JoinRelease(w) \/ JoinLoad(w) \/ JoinCompare(w)
  \/ Rethrow(w) \/ Reset(w) \/ Destroy(w)

\* Every worker is idle and no lambda is queued.
Idle == /\ \A w \in Workers : pc[w] = "idle"
        /\ \A g \in Groups : queue[g] = {}
Finished == Idle /\ UNCHANGED vars

Next == \/ \E w \in Workers : Step(w) \/ SpuriousWake(w)
        \/ Finished

Spec == Init /\ [][Next]_vars

\* Workers are threads that the operating system schedules.
FairSpec == Spec /\ \A w \in Workers : WF_vars(Step(w))

-----------------------------------------------------------------------------
(* Properties.                                                             *)

Of(s, ns) == {n \in ns : ScopeOf[n] = s}
Frames == UNION {{<<w, i>> : i \in DOMAIN stack[w]} : w \in Workers}
Frame(x) == stack[x[1]][x[2]]
\* Where a body is: the top frame of a worker at pc, those below where they go on later.
Place(x) == IF x[2] = Len(stack[x[1]]) THEN pc[x[1]] ELSE stack[x[1]][x[2] + 1].back
Executing(n)  == {x \in Frames : Frame(x).body = n}
Submitting(n) == {x \in Frames : /\ Place(x) \in {"wake_joiner", "submit"}
                                 /\ Script[Frame(x).body][at[Frame(x).body]].arg = n}

TypeOK ==
  /\ nodes \in [Scopes -> Seq(Children)]
  /\ outstanding \in [Scopes -> Nat]
  /\ closed \in [Scopes -> BOOLEAN]
  /\ exception \in [Scopes -> Children \cup {None}]
  /\ mutex \in [Scopes -> Workers \cup {None}]
  /\ refs \in [Children -> 0 .. 2]
  /\ claimed \in [Children -> BOOLEAN]
  /\ queue \in [Groups -> SUBSET Children]
  /\ pc \in [Workers -> {"idle", "user", "wake_joiner", "submit", "complete", "completed", "take",
                         "scan", "load", "compare", "parked", "rethrow"}]
  /\ stack \in [Workers -> Seq([body : Bodies, back : {"idle", "submit", "scan"},
                                slot : Scopes \cup {None}])]
  /\ at \in [Bodies -> Nat]
  /\ slot \in [Workers -> Scopes \cup {None}]
  /\ join \in [Bodies -> [list : Seq(Children), todo : Seq(Children), had : BOOLEAN, count : Nat]]
  /\ done \subseteq given /\ given \subseteq Children
  /\ destroyed \subseteq Scopes
  /\ aborted \in BOOLEAN

InLists(n)   == {s \in Scopes : n \in Members(nodes[s])}
                  \cup {b \in Bodies : n \in Members(join[b].list)}
InLambdas(n) == {g \in Groups : n \in queue[g]} \cup Submitting(n)
                  \cup {x \in Executing(n) : ByLambda(Frame(x))}

\* A child that was given to a scope runs once, whoever finds it, a worker in its queue or a
\* joiner in the scope; outstanding_ counts those that have not got through complete_one.
\* The references of its node are the list or joiner that holds it and its lambda, and while
\* a joiner or a worker executes it there is one: it is neither freed in use nor leaked.
CountsExact ==
  /\ \A n \in Children : Cardinality(Executing(n)) <= 1
  /\ \A s \in Scopes :
       outstanding[s] = Cardinality(Of(s, given \ done))
                        + Cardinality({w \in Workers : pc[w] = "complete" /\ ScopeOf[Body(w)] = s})
  /\ \A n \in Children : /\ refs[n] = Cardinality(InLists(n)) + Cardinality(InLambdas(n))
                         /\ Executing(n) # {} => refs[n] > 0

\* When a join returns, all children of the scope have returned, descendants that were given
\* to it during the join too, and it rethrows if and only if one of them threw.
JoinComplete ==
  \A w \in Workers :
    pc[w] = "rethrow" =>
      LET s == Call(w).arg IN
        /\ Of(s, given) \subseteq done
        /\ exception[s] # None <=> Of(s, done) \cap Throws # {}
        /\ exception[s] \in Of(s, done) \cup {None}

\* Nobody touches a scope that a joiner has destroyed: a child that completes last still has
\* to notify and to unlock when the joiner already sees the count at 0.
ScopeAlive ==
  \A w \in Workers :
    /\ pc[w] \in {"complete", "completed"} => ScopeOf[Body(w)] \notin destroyed
    /\ pc[w] = "wake_joiner" => ScopeOf[Call(w).arg] \notin destroyed

\* A program that runs children and joins in a nested way is never terminated: what the
\* worker's scope_execution_slot says of the running child is right also after nested joins.
NeverAborts == ~aborted

\* Every join returns.
JoinReturns ==
  \A b \in Bodies : \A i \in DOMAIN Script[b] :
    Script[b][i].op \in {"join", "block"} => (at[b] = i ~> at[b] > i)

=============================================================================
