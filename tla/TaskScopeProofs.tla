--------------------------- MODULE TaskScopeProofs ---------------------------
(***************************************************************************)
(* Theorems about TaskScope, for any workers, workgroups, scopes, children *)
(* and scripts that use scopes lexically.                                  *)
(*                                                                         *)
(* The argument.  A child is given by one call and executed once, so the   *)
(* children that count are those given and not done, and the workers that  *)
(* are about to discount one.  When the owner of a scope sees the count at *)
(* 0 nobody is left who could give the scope another child: only a running *)
(* child could, and a running child counts.                                *)
(***************************************************************************)
EXTENDS TaskScope, FiniteSetTheorems, SequenceTheorems, TLAPS

RunPlaces  == {"wake_joiner", "submit"}
ScanPlaces == {"take", "scan"}
WaitPlaces == {"load", "compare", "parked", "rethrow"}
EndPlaces  == {"complete", "completed"}
LivePlaces == {"user"} \cup RunPlaces \cup ScanPlaces \cup WaitPlaces

FrameType == [body : Bodies, back : {"idle", "submit", "scan"}, slot : Scopes \cup {None}]
JoinType  == [list : Seq(Children), todo : Seq(Children), had : BOOLEAN, count : Nat]

\* TypeOK but for the range of refs, which needs the invariants on nodes.
Types ==
  /\ nodes \in [Scopes -> Seq(Children)]
  /\ outstanding \in [Scopes -> Nat]
  /\ closed \in [Scopes -> BOOLEAN]
  /\ exception \in [Scopes -> Children \cup {None}]
  /\ mutex \in [Scopes -> Workers \cup {None}]
  /\ refs \in [Children -> Int]
  /\ claimed \in [Children -> BOOLEAN]
  /\ queue \in [Groups -> SUBSET Children]
  /\ pc \in [Workers -> {"idle"} \cup LivePlaces \cup EndPlaces]
  /\ stack \in [Workers -> Seq(FrameType)]
  /\ at \in [Bodies -> Nat \ {0}]
  /\ slot \in [Workers -> Scopes \cup {None}]
  /\ join \in [Bodies -> JoinType]
  /\ given \subseteq Children
  /\ done \subseteq given
  /\ destroyed \subseteq Scopes
  /\ aborted \in BOOLEAN

-----------------------------------------------------------------------------
(* Where the bodies are.                                                   *)

\* The call a body is at.
Calling(b) == at[b] <= Len(Script[b])
CallOf(b)  == Script[b][at[b]]

\* The scope whose children include body b.
OwnSlot(b) == IF b = Root THEN None ELSE ScopeOf[b]

\* Body b may be at place p: it is in a call that p is a part of.
Fits(b, p) ==
  /\ p # "idle"
  /\ p \in RunPlaces => Calling(b) /\ CallOf(b).op = "run"
  /\ p \in ScanPlaces \cup WaitPlaces => Calling(b) /\ CallOf(b).op \in {"join", "block"}
  /\ p \in EndPlaces => b # Root /\ ~Calling(b)

\* A frame remembers where the one below goes on, and its slot; Root is the lowest.
FrameOK(w, i) ==
  /\ Fits(stack[w][i].body, Place(<<w, i>>))
  /\ stack[w][i].slot = IF i = 1 THEN None ELSE OwnSlot(stack[w][i - 1].body)
  /\ stack[w][i].back = "idle" <=> i = 1
  /\ stack[w][i].body = Root => i = 1

WorkerOK(w) ==
  /\ stack[w] = <<>> <=> pc[w] = "idle"
  /\ slot[w] = IF stack[w] = <<>> THEN None
               ELSE IF pc[w] \in EndPlaces THEN Top(w).slot
               ELSE OwnSlot(Body(w))

Control == \A w \in Workers : WorkerOK(w) /\ \A i \in DOMAIN stack[w] : FrameOK(w, i)

\* A body is on one stack at most, once.
StackOnce ==
  \A v, w \in Workers : \A i \in DOMAIN stack[v], j \in DOMAIN stack[w] :
    stack[v][i].body = stack[w][j].body => v = w /\ i = j

\* Body b is at one of the places P.
IsAt(b, P) == \E w \in Workers : \E i \in DOMAIN stack[w] :
                stack[w][i].body = b /\ Place(<<w, i>>) \in P
InRun(b)   == IsAt(b, RunPlaces)
InScan(b)  == IsAt(b, {"scan"})
InJoin(b)  == IsAt(b, ScanPlaces \cup WaitPlaces)
AtEnd(b)   == IsAt(b, {"rethrow"})
Live(b)    == IsAt(b, LivePlaces)
OnStack(b) == IsAt(b, LivePlaces \cup EndPlaces)

-----------------------------------------------------------------------------
(* The children.                                                           *)

\* A child that no call has given yet is unknown.
Known(n) == n \in given \/ claimed[n]
Fresh ==
  \A b \in Bodies : \A i \in DOMAIN Script[b] :
    /\ Script[b][i].op = "run"
    /\ i > at[b] \/ (i = at[b] /\ ~InRun(b))
    => ~Known(Script[b][i].arg)

\* What is being given, queued or listed is known.
ListsKnown ==
  /\ \A b \in Bodies : InRun(b) => Known(CallOf(b).arg)
  /\ \A g \in Groups : \A n \in queue[g] : Known(n)
  /\ \A s \in Scopes : \A n \in Members(nodes[s]) : Known(n)
  /\ \A b \in Bodies : \A n \in Members(join[b].list) \cup Members(join[b].todo) : Known(n)

\* A child that is executed is claimed, and given and not done until it returns.
RunsGiven ==
  /\ \A n \in Children : /\ OnStack(n) => claimed[n]
                         /\ Live(n) => n \in given \ done
  /\ \A n \in done : claimed[n]
  /\ \A w \in Workers : pc[w] = "complete" => Body(w) \in done

\* The children of a scope that are given and not done, and the workers that are about to
\* discount one.
Completing(s) == {w \in Workers : pc[w] = "complete" /\ ScopeOf[Body(w)] = s}
Counted(s) == outstanding[s] = Cardinality(Of(s, given \ done)) + Cardinality(Completing(s))
CountInv == \A s \in Scopes : Counted(s)

-----------------------------------------------------------------------------
(* The scopes.                                                             *)

\* The owner is inside a call that gives the scope a child; it has seen the count at 0.
Giving(s) == InRun(Owner[s]) /\ Gives(CallOf(Owner[s]), s)
Ending(s) == AtEnd(Owner[s]) /\ CallOf(Owner[s]).arg = s
\* The scope is at rest: nobody may give it a child, or only its owner.
AtRest(s) == \/ s \in destroyed
             \/ Settled(s, at[Owner[s]]) /\ ~Giving(s)
             \/ Ending(s)
RestInv == \A s \in Scopes : AtRest(s) => outstanding[s] = 0

MutexInv == \A s \in Scopes, w \in Workers :
              mutex[s] = w <=> pc[w] = "completed" /\ ScopeOf[Body(w)] = s

DestroyedInv ==
  \A s \in destroyed :
    /\ mutex[s] = None
    /\ \A k \in DOMAIN Script[Owner[s]] : k >= at[Owner[s]] => ~Uses(Script[Owner[s]][k], s)

ClosedInv ==
  \A s \in Scopes : closed[s] =>
    \/ Closed(s, at[Owner[s]])
    \/ InJoin(Owner[s]) /\ IsJoin(CallOf(Owner[s]), s)

\* The exceptions that complete_one has seen are those of the children done, but for those it
\* has not been called for.
Seen(s) == {n \in Of(s, done) \cap Throws : \A w \in Workers : pc[w] = "complete" => Body(w) # n}
ExceptionInv ==
  \A s \in Scopes : /\ exception[s] # None <=> Seen(s) # {}
                    /\ exception[s] \in Of(s, done) \cup {None}

StackInv == Types /\ Control /\ StackOnce
ChildInv == Fresh /\ ListsKnown /\ RunsGiven /\ CountInv
RuleInv  == RestInv /\ MutexInv /\ DestroyedInv /\ ClosedInv /\ ExceptionInv /\ NeverAborts
ScopeInv == StackInv /\ ChildInv /\ RuleInv

-----------------------------------------------------------------------------
(* The references of the nodes.                                            *)

\* A list holds the node: that of its scope, or the one that a joiner has taken.
Listed(n) == \/ n \in Members(nodes[ScopeOf[n]])
             \/ \E b \in Bodies : n \in Members(join[b].list)
\* Its lambda is about to be queued, is queued, or runs the child.
Submitted(n) == \E b \in Bodies : InRun(b) /\ CallOf(b).arg = n
Held(n) == \E w \in Workers : \E i \in DOMAIN stack[w] :
             stack[w][i].body = n /\ ByLambda(stack[w][i])
Lambda(n) == n \in queue[GroupOf[n]] \/ Submitted(n) \/ Held(n)

\* A node is in one list at most.
ListOnce ==
  /\ \A s \in Scopes : \A n \in Members(nodes[s]) :
       ScopeOf[n] = s /\ \A b \in Bodies : n \notin Members(join[b].list)
  /\ \A a, b \in Bodies : \A n \in Members(join[a].list) : n \in Members(join[b].list) => a = b
\* A joiner has a list while it scans it, and what it has to scan is part of it.
ListsScanned == \A b \in Bodies : /\ join[b].list # <<>> => InScan(b)
                                  /\ Members(join[b].todo) \subseteq Members(join[b].list)
\* A lambda is in one place at most.
LambdaOnce ==
  \A n \in Children : /\ \A g \in Groups : n \in queue[g] => g = GroupOf[n]
                      /\ n \in queue[GroupOf[n]] => ~Submitted(n) /\ ~Held(n)
                      /\ Submitted(n) => ~Held(n)
\* A child that a joiner executes is in the list of the joiner.
ScansOwn ==
  \A w \in Workers : \A i \in DOMAIN stack[w] : ~ByLambda(stack[w][i]) =>
    stack[w][i].body \in Members(join[stack[w][i - 1].body].list)
RefOK(n) == refs[n] = (IF Listed(n) THEN 1 ELSE 0) + (IF Lambda(n) THEN 1 ELSE 0)
RefsExact == \A n \in Children : RefOK(n)

RefInv == ListOnce /\ ListsScanned /\ LambdaOnce /\ ScansOwn /\ RefsExact

-----------------------------------------------------------------------------
(* What a step does to the places of the bodies.                           *)

\* The calls of a script are operations on children or on scopes.
LEMMA ScriptTyped ==
  ASSUME ScopeAssumption, NEW b \in Bodies, NEW i \in DOMAIN Script[b]
  PROVE  /\ Script[b][i] \in Op
         /\ Script[b][i].op = "run" => Script[b][i].arg \in Children
         /\ Script[b][i].op # "run" => Script[b][i].arg \in Scopes
<1>1. Script[b] \in Seq(Op)
  BY DEF ScopeAssumption
<1>. QED BY <1>1, ElementOfSeq DEF Op

LEMMA TopTyped ==
  ASSUME Types, NEW w \in Workers, stack[w] # <<>>
  PROVE  /\ Top(w) \in FrameType /\ Body(w) \in Bodies
         /\ Len(stack[w]) \in DOMAIN stack[w]
         /\ Len(stack[w]) \in Nat \ {0}
<1>1. stack[w] \in Seq(FrameType)
  BY DEF Types
<1>2. Len(stack[w]) \in Nat \ {0} /\ Len(stack[w]) \in DOMAIN stack[w]
  BY <1>1, EmptySeq
<1>3. Top(w) \in FrameType
  BY <1>1, <1>2, ElementOfSeq DEF Top
<1>. QED BY <1>2, <1>3 DEF Body, FrameType

\* The call worker w is in.
LEMMA CallTyped ==
  ASSUME ScopeAssumption, Types, NEW w \in Workers, HasCall(w)
  PROVE  /\ Body(w) \in Bodies /\ stack[w] # <<>>
         /\ at[Body(w)] \in DOMAIN Script[Body(w)]
         /\ at[Body(w)] \in Nat \ {0}
         /\ Call(w) = CallOf(Body(w)) /\ Calling(Body(w))
         /\ Call(w) \in Op
         /\ Call(w).op = "run" => Call(w).arg \in Children
         /\ Call(w).op # "run" => Call(w).arg \in Scopes
<1>1. Body(w) \in Bodies /\ stack[w] # <<>>
  BY TopTyped DEF HasCall
<1>2. at[Body(w)] \in Nat \ {0} /\ Script[Body(w)] \in Seq(Op)
  BY <1>1 DEF Types, ScopeAssumption
<1>3. at[Body(w)] \in DOMAIN Script[Body(w)]
  BY <1>2 DEF HasCall
<1>. QED BY <1>1, <1>2, <1>3, ScriptTyped DEF Call, CallOf, HasCall, Calling

\* Other workers stay where they are, but those that a notification wakes.
Others(w) == \A v \in Workers \ {w} : \/ pc'[v] = pc[v]
                                      \/ pc[v] = "parked" /\ pc'[v] = "compare"
Moves(w) == stack' = stack /\ Others(w)
Pushes(w, n) ==
  /\ stack' = [stack EXCEPT ![w] = Append(@, [body |-> n, back |-> pc[w], slot |-> slot[w]])]
  /\ pc' = [pc EXCEPT ![w] = "user"]
Pops(w) ==
  /\ stack' = [stack EXCEPT ![w] = SubSeq(@, 1, Len(@) - 1)]
  /\ pc'[w] = Top(w).back
  /\ Others(w)

\* What IsAt says of a body whose place is p.
PlaceIs(b, p) ==
  /\ InRun(b)   <=> p \in RunPlaces
  /\ InScan(b)  <=> p = "scan"
  /\ InJoin(b)  <=> p \in ScanPlaces \cup WaitPlaces
  /\ AtEnd(b)   <=> p = "rethrow"
  /\ Live(b)    <=> p \in LivePlaces
  /\ OnStack(b) <=> p \in LivePlaces \cup EndPlaces
Stays(b) ==
  /\ InRun(b)'   <=> InRun(b)
  /\ InScan(b)'  <=> InScan(b)
  /\ InJoin(b)'  <=> InJoin(b)
  /\ AtEnd(b)'   <=> AtEnd(b)
  /\ Live(b)'    <=> Live(b)
  /\ OnStack(b)' <=> OnStack(b)

\* The place of the upper body of a worker is that of the worker.
LEMMA TopAt ==
  Types /\ StackOnce => \A w \in Workers : stack[w] # <<>> => PlaceIs(Body(w), pc[w])
<1>. SUFFICES ASSUME Types, StackOnce, NEW w \in Workers, stack[w] # <<>>
              PROVE  PlaceIs(Body(w), pc[w])
  OBVIOUS
<1>1. Len(stack[w]) \in DOMAIN stack[w] /\ stack[w][Len(stack[w])].body = Body(w)
  BY TopTyped DEF Body, Top
<1>2. Place(<<w, Len(stack[w])>>) = pc[w]
  BY DEF Place
<1>3. ASSUME NEW P PROVE IsAt(Body(w), P) <=> pc[w] \in P
  <2>1. ASSUME pc[w] \in P PROVE IsAt(Body(w), P)
    BY <2>1, <1>1, <1>2 DEF IsAt
  <2>2. ASSUME NEW v \in Workers, NEW i \in DOMAIN stack[v],
               stack[v][i].body = Body(w), Place(<<v, i>>) \in P
        PROVE  pc[w] \in P
    <3>1. v = w /\ i = Len(stack[w])
      BY <2>2, <1>1 DEF StackOnce
    <3>. QED BY <3>1, <2>2, <1>2
  <2>. QED BY <2>1, <2>2 DEF IsAt
<1>. QED BY <1>3 DEF PlaceIs, InRun, InScan, InJoin, AtEnd, Live, OnStack

\* A set of places that does not tell a parked worker from one that is woken.
Even(P) == "parked" \in P <=> "compare" \in P

LEMMA EvenPlaces ==
  /\ Even(RunPlaces) /\ Even({"scan"}) /\ Even(ScanPlaces \cup WaitPlaces) /\ Even({"rethrow"})
  /\ Even(LivePlaces) /\ Even(LivePlaces \cup EndPlaces)
BY DEF Even, RunPlaces, ScanPlaces, WaitPlaces, EndPlaces, LivePlaces

\* A move leaves every body but the upper one of its worker.
LEMMA MoveStays ==
  ASSUME Types, StackOnce, NEW w \in Workers, stack[w] # <<>>, Moves(w),
         NEW b \in Bodies, b # Body(w)
  PROVE  Stays(b)
<1>1. ASSUME NEW v \in Workers, NEW i \in DOMAIN stack[v], stack[v][i].body = b,
             NEW P, Even(P)
      PROVE  Place(<<v, i>>)' \in P <=> Place(<<v, i>>) \in P
  <2>1. CASE i # Len(stack[v])
    BY <2>1 DEF Place, Moves
  <2>2. CASE i = Len(stack[v])
    <3>1. v # w
      BY <1>1, <2>2 DEF Body, Top
    <3>2. pc'[v] = pc[v] \/ (pc[v] = "parked" /\ pc'[v] = "compare")
      BY <3>1 DEF Moves, Others
    <3>. QED BY <3>2, <2>2, <1>1 DEF Place, Moves, Even
  <2>. QED BY <2>1, <2>2
<1>2. ASSUME NEW P, Even(P) PROVE IsAt(b, P)' <=> IsAt(b, P)
  BY <1>1, <1>2 DEF IsAt, Moves
<1>. QED BY <1>2, EvenPlaces DEF Stays, InRun, InScan, InJoin, AtEnd, Live, OnStack

\* Where the frames are after a push, and after a pop.
LEMMA PushFrames ==
  ASSUME Types, NEW w \in Workers, NEW n \in Children, Pushes(w, n)
  PROVE  /\ Len(stack'[w]) = Len(stack[w]) + 1 /\ Len(stack[w]) \in Nat
         /\ DOMAIN stack'[w] = DOMAIN stack[w] \cup {Len(stack[w]) + 1}
         /\ DOMAIN stack[w] = 1 .. Len(stack[w])
         /\ \A i \in DOMAIN stack[w] : stack'[w][i] = stack[w][i]
         /\ stack'[w][Len(stack[w]) + 1].body = n
         /\ stack'[w][Len(stack[w]) + 1].back = pc[w]
         /\ stack'[w][Len(stack[w]) + 1].slot = slot[w]
         /\ \A v \in Workers : v # w => stack'[v] = stack[v] /\ pc'[v] = pc[v]
         /\ pc'[w] = "user"
         /\ stack'[w] # <<>>
<1>1. stack[w] \in Seq(FrameType)
  BY DEF Types
<1>2. stack'[w] = Append(stack[w], [body |-> n, back |-> pc[w], slot |-> slot[w]])
  BY DEF Types, Pushes
<1>. DEFINE new == [body |-> n, back |-> pc[w], slot |-> slot[w]]
<1>3. stack[w] \in Seq(FrameType \cup {new}) /\ new \in FrameType \cup {new}
  BY <1>1
<1>4. stack'[w] = Append(stack[w], new)
  BY <1>2
<1>. HIDE DEF new
<1>5. /\ Len(stack'[w]) = Len(stack[w]) + 1 /\ Len(stack[w]) \in Nat
      /\ DOMAIN stack'[w] = 1 .. Len(stack[w]) + 1
      /\ DOMAIN stack[w] = 1 .. Len(stack[w])
      /\ \A i \in 1 .. Len(stack[w]) : stack'[w][i] = stack[w][i]
      /\ stack'[w][Len(stack[w]) + 1] = new
  BY <1>3, <1>4, AppendProperties, LenProperties
<1>6. stack'[w] # <<>>
  BY <1>5
<1>7. DOMAIN stack'[w] = DOMAIN stack[w] \cup {Len(stack[w]) + 1}
  BY <1>5
<1>8. new.body = n /\ new.back = pc[w] /\ new.slot = slot[w]
  BY DEF new
<1>9. /\ \A v \in Workers : v # w => stack'[v] = stack[v] /\ pc'[v] = pc[v]
      /\ pc'[w] = "user"
  BY DEF Types, Pushes
<1>. QED BY <1>5, <1>6, <1>7, <1>8, <1>9

LEMMA PopFrames ==
  ASSUME Types, NEW w \in Workers, stack[w] # <<>>, Pops(w)
  PROVE  /\ Len(stack'[w]) = Len(stack[w]) - 1 /\ Len(stack[w]) \in Nat \ {0}
         /\ stack'[w] \in Seq(FrameType)
         /\ DOMAIN stack'[w] = 1 .. Len(stack[w]) - 1
         /\ DOMAIN stack[w] = 1 .. Len(stack[w])
         /\ \A i \in DOMAIN stack'[w] : stack'[w][i] = stack[w][i]
         /\ \A v \in Workers : v # w => stack'[v] = stack[v]
         /\ pc'[w] = stack[w][Len(stack[w])].back
<1>1. stack[w] \in Seq(FrameType)
  BY DEF Types
<1>2. stack'[w] = SubSeq(stack[w], 1, Len(stack[w]) - 1)
  BY DEF Types, Pops
<1>3. Len(stack[w]) \in Nat \ {0} /\ DOMAIN stack[w] = 1 .. Len(stack[w])
  BY <1>1, LenProperties, EmptySeq
<1>4. 1 \in Int /\ Len(stack[w]) - 1 \in Int /\ 1 .. Len(stack[w]) - 1 \subseteq DOMAIN stack[w]
  BY <1>3
<1>5. /\ stack'[w] \in Seq(FrameType)
      /\ Len(stack'[w]) = Len(stack[w]) - 1
      /\ \A i \in 1 .. Len(stack[w]) - 1 : stack'[w][i] = stack[w][i]
  BY <1>1, <1>2, <1>3
<1>6. DOMAIN stack'[w] = 1 .. Len(stack[w]) - 1
  BY <1>5, LenProperties
<1>7. \A v \in Workers : v # w => stack'[v] = stack[v]
  BY DEF Types, Pops
<1>. QED BY <1>3, <1>5, <1>6, <1>7 DEF Pops, Top

\* The places of the frames that were there are kept by a push.
LEMMA PushPlaces ==
  ASSUME Types, NEW w \in Workers, NEW n \in Children, Pushes(w, n),
         NEW v \in Workers, NEW i \in DOMAIN stack[v]
  PROVE  i \in DOMAIN stack'[v] /\ Place(<<v, i>>)' = Place(<<v, i>>)
<1>1. CASE v # w
  <2>1. stack'[v] = stack[v] /\ pc'[v] = pc[v]
    BY <1>1, PushFrames
  <2>. QED BY <2>1 DEF Place
<1>2. CASE v = w
  <2>. DEFINE n1 == Len(stack[w]) + 1
  <2>1. /\ Len(stack[w]) \in Nat /\ i \in 1 .. Len(stack[w])
        /\ Len(stack'[w]) = n1 /\ i \in DOMAIN stack'[w]
    BY <1>2, PushFrames
  <2>2. ASSUME i = Len(stack[w]) PROVE Place(<<w, i>>)' = Place(<<w, i>>)
    <3>1. i # Len(stack'[w]) /\ i + 1 = n1
      BY <2>1, <2>2
    <3>2. stack'[w][n1].back = pc[w]
      BY PushFrames
    <3>. QED BY <2>2, <3>1, <3>2 DEF Place
  <2>3. ASSUME i # Len(stack[w]) PROVE Place(<<w, i>>)' = Place(<<w, i>>)
    <3>1. i # Len(stack'[w]) /\ i + 1 \in 1 .. Len(stack[w])
      BY <2>1, <2>3
    <3>2. stack'[w][i + 1] = stack[w][i + 1]
      BY <3>1, PushFrames
    <3>. QED BY <2>3, <3>1, <3>2 DEF Place
  <2>. QED BY <1>2, <2>1, <2>2, <2>3
<1>. QED BY <1>1, <1>2

\* A push leaves every body but the one it pushes.
LEMMA PushStays ==
  ASSUME Types, NEW w \in Workers, NEW n \in Children, Pushes(w, n),
         NEW b \in Bodies, b # n
  PROVE  Stays(b)
<1>1. \A v \in Workers : \A i \in DOMAIN stack[v] :
         i \in DOMAIN stack'[v] /\ Place(<<v, i>>)' = Place(<<v, i>>)
  BY PushPlaces
<1>2. \A v \in Workers : \A i \in DOMAIN stack'[v] :
         stack'[v][i].body = b => i \in DOMAIN stack[v]
  <2>. TAKE v \in Workers
  <2>. TAKE i \in DOMAIN stack'[v]
  <2>1. CASE v # w
    BY <2>1, PushFrames
  <2>2. CASE v = w
    <3>0. DOMAIN stack'[w] = DOMAIN stack[w] \cup {Len(stack[w]) + 1}
      BY PushFrames
    <3>1. i \in DOMAIN stack[w] \/ i = Len(stack[w]) + 1
      BY <2>2, <3>0
    <3>2. stack'[w][Len(stack[w]) + 1].body # b
      BY PushFrames
    <3>. QED BY <2>2, <3>1, <3>2
  <2>. QED BY <2>1, <2>2
<1>3. \A v \in Workers : \A i \in DOMAIN stack[v] : stack'[v][i] = stack[v][i]
  BY PushFrames
<1>4. ASSUME NEW P PROVE IsAt(b, P)' <=> IsAt(b, P)
  BY <1>1, <1>2, <1>3 DEF IsAt
<1>. QED BY <1>4 DEF Stays, InRun, InScan, InJoin, AtEnd, Live, OnStack

\* The places of the frames that are left are kept by a pop, but for workers that are woken.
LEMMA PopPlaces ==
  ASSUME Types, NEW w \in Workers, stack[w] # <<>>, Pops(w),
         NEW v \in Workers, NEW i \in DOMAIN stack'[v]
  PROVE  \/ Place(<<v, i>>)' = Place(<<v, i>>)
         \/ Place(<<v, i>>) = "parked" /\ Place(<<v, i>>)' = "compare"
<1>1. CASE v # w
  <2>1. stack'[v] = stack[v] /\ (pc'[v] = pc[v] \/ (pc[v] = "parked" /\ pc'[v] = "compare"))
    BY <1>1, PopFrames DEF Pops, Others
  <2>. QED BY <2>1 DEF Place
<1>2. CASE v = w
  <2>1. /\ i \in 1 .. Len(stack[w]) - 1 /\ Len(stack[w]) \in Nat
        /\ Len(stack'[w]) = Len(stack[w]) - 1
    BY <1>2, PopFrames
  <2>2. CASE i = Len(stack[w]) - 1
    BY <1>2, <2>1, <2>2, PopFrames DEF Place
  <2>3. CASE i # Len(stack[w]) - 1
    <3>1. i + 1 \in DOMAIN stack'[w]
      BY <1>2, <2>1, <2>3, PopFrames
    <3>. QED BY <1>2, <2>1, <2>3, <3>1, PopFrames DEF Place
  <2>. QED BY <2>2, <2>3
<1>. QED BY <1>1, <1>2

\* A pop leaves every body but the one it pops, which is nowhere.
LEMMA PopStays ==
  ASSUME Types, StackOnce, NEW w \in Workers, stack[w] # <<>>, Pops(w),
         NEW b \in Bodies
  PROVE  IF b = Body(w) THEN ~OnStack(b)' /\ PlaceIs(b, "idle")' ELSE Stays(b)
<1>1. \A v \in Workers : \A i \in DOMAIN stack'[v] :
         i \in DOMAIN stack[v] /\ stack'[v][i] = stack[v][i]
  BY PopFrames
<1>2. ASSUME NEW v \in Workers, NEW i \in DOMAIN stack'[v], NEW P, Even(P)
      PROVE  Place(<<v, i>>)' \in P <=> Place(<<v, i>>) \in P
  BY <1>2, PopPlaces DEF Even
<1>3. ASSUME b # Body(w)
      PROVE  Stays(b)
  <2>1. ASSUME NEW v \in Workers, NEW i \in DOMAIN stack[v], stack[v][i].body = b
        PROVE  i \in DOMAIN stack'[v]
    BY <2>1, <1>3, PopFrames DEF Body, Top
  <2>2. ASSUME NEW P, Even(P) PROVE IsAt(b, P)' <=> IsAt(b, P)
    BY <1>1, <1>2, <2>1, <2>2 DEF IsAt
  <2>. QED BY <2>2, EvenPlaces DEF Stays, InRun, InScan, InJoin, AtEnd, Live, OnStack
<1>4. ASSUME b = Body(w)
      PROVE  PlaceIs(b, "idle")'
  <2>1. ASSUME NEW v \in Workers, NEW i \in DOMAIN stack'[v], stack'[v][i].body = b
        PROVE  FALSE
    <3>1. v = w /\ i = Len(stack[w])
      BY <1>1, <1>4, <2>1, TopTyped DEF StackOnce, Body, Top
    <3>. QED BY <3>1, PopFrames
  <2>2. ASSUME NEW P PROVE ~IsAt(b, P)'
    BY <2>1 DEF IsAt
  <2>. QED BY <2>2 DEF PlaceIs, InRun, InScan, InJoin, AtEnd, Live, OnStack, RunPlaces, ScanPlaces,
                       WaitPlaces, EndPlaces, LivePlaces
<1>. QED BY <1>3, <1>4 DEF PlaceIs, EndPlaces, RunPlaces, ScanPlaces, WaitPlaces, LivePlaces

\* Every body on a stack is somewhere.
LEMMA Stacked ==
  ASSUME Types, Control, NEW w \in Workers, NEW i \in DOMAIN stack[w]
  PROVE  /\ stack[w][i] \in FrameType
         /\ Place(<<w, i>>) \in LivePlaces \cup EndPlaces
         /\ OnStack(stack[w][i].body)
<1>1. stack[w] \in Seq(FrameType)
  BY DEF Types
<1>2. /\ stack[w][i] \in FrameType
      /\ i \in 1 .. Len(stack[w]) /\ Len(stack[w]) \in Nat /\ DOMAIN stack[w] = 1 .. Len(stack[w])
  BY <1>1, ElementOfSeq, LenProperties
<1>3. Place(<<w, i>>) \in {"idle"} \cup LivePlaces \cup EndPlaces
  <2>1. CASE i = Len(stack[w])
    BY <2>1 DEF Place, Types
  <2>2. CASE i # Len(stack[w])
    <3>1. i + 1 \in DOMAIN stack[w]
      BY <1>2, <2>2
    <3>2. stack[w][i + 1] \in FrameType
      BY <1>1, <3>1, ElementOfSeq
    <3>3. Place(<<w, i>>) = stack[w][i + 1].back
      BY <2>2 DEF Place
    <3>. QED BY <3>2, <3>3 DEF FrameType, LivePlaces, RunPlaces, ScanPlaces
  <2>. QED BY <2>1, <2>2
<1>4. Place(<<w, i>>) # "idle"
  BY DEF Control, FrameOK, Fits
<1>. QED BY <1>2, <1>3, <1>4 DEF OnStack, IsAt

\* The same for the worker, whose upper body is at its place.
LEMMA TopFits ==
  ASSUME Types, Control, NEW w \in Workers, stack[w] # <<>>
  PROVE  /\ Fits(Body(w), pc[w])
         /\ Body(w) = Root => Len(stack[w]) = 1
         /\ Top(w).slot = IF Len(stack[w]) = 1 THEN None
                          ELSE OwnSlot(stack[w][Len(stack[w]) - 1].body)
         /\ Top(w).back = "idle" <=> Len(stack[w]) = 1
<1>1. Len(stack[w]) \in DOMAIN stack[w]
  BY TopTyped
<1>2. FrameOK(w, Len(stack[w]))
  BY <1>1 DEF Control
<1>3. Place(<<w, Len(stack[w])>>) = pc[w]
  BY DEF Place
<1>. QED BY <1>2, <1>3 DEF FrameOK, Body, Top

LEMMA MoveControl ==
  ASSUME Types, Control, StackOnce, NEW w \in Workers, stack[w] # <<>>, Moves(w),
         \A b \in Bodies : b # Body(w) => at'[b] = at[b],
         \A v \in Workers \ {w} : slot'[v] = slot[v],
         Fits(Body(w), pc[w])',
         slot'[w] = IF pc'[w] \in EndPlaces THEN Top(w).slot ELSE OwnSlot(Body(w))
  PROVE  Control' /\ StackOnce'
<1>1. StackOnce'
  BY DEF StackOnce, Moves
<1>2. ASSUME NEW v \in Workers
      PROVE  WorkerOK(v)'
  <2>1. CASE v = w
    BY <2>1 DEF WorkerOK, Moves, Body, Top, Fits
  <2>2. CASE v # w
    <3>1. pc'[v] = pc[v] \/ (pc[v] = "parked" /\ pc'[v] = "compare")
      BY <2>2 DEF Moves, Others
    <3>2. WorkerOK(v) /\ slot'[v] = slot[v] /\ stack' = stack
      BY <2>2 DEF Control, Moves
    <3>. QED BY <3>1, <3>2 DEF WorkerOK, EndPlaces, Body, Top
  <2>. QED BY <2>1, <2>2
<1>3. ASSUME NEW v \in Workers, NEW i \in DOMAIN stack[v]
      PROVE  FrameOK(v, i)'
  <2>1. FrameOK(v, i) /\ stack' = stack
    BY DEF Control, Moves
  <2>2. stack[v][i].body \in Bodies
    BY Stacked DEF FrameType
  <2>3. Fits(stack[v][i].body, Place(<<v, i>>))'
    <3>1. CASE stack[v][i].body = Body(w)
      <4>1. v = w /\ i = Len(stack[w])
        BY <3>1, TopTyped DEF StackOnce, Body, Top
      <4>2. Place(<<v, i>>)' = pc'[w]
        BY <4>1, <2>1 DEF Place
      <4>. QED BY <4>1, <4>2, <2>1 DEF Body, Top
    <3>2. CASE stack[v][i].body # Body(w)
      <4>1. at'[stack[v][i].body] = at[stack[v][i].body]
        BY <2>2, <3>2
      <4>2. \/ Place(<<v, i>>)' = Place(<<v, i>>)
            \/ Place(<<v, i>>) = "parked" /\ Place(<<v, i>>)' = "compare"
        <5>1. CASE i # Len(stack[v])
          BY <5>1, <2>1 DEF Place
        <5>2. CASE i = Len(stack[v])
          <6>1. v # w
            BY <5>2, <3>2 DEF Body, Top
          <6>. QED BY <5>2, <6>1, <2>1 DEF Place, Moves, Others
        <5>. QED BY <5>1, <5>2
      <4>3. Fits(stack[v][i].body, Place(<<v, i>>))
        BY <2>1 DEF FrameOK
      <4>. QED BY <2>1, <4>1, <4>2, <4>3 DEF Fits, Calling, CallOf, RunPlaces, ScanPlaces,
                                             WaitPlaces, EndPlaces
    <3>. QED BY <3>1, <3>2
  <2>. QED BY <2>1, <2>3 DEF FrameOK
<1>4. Control'
  BY <1>2, <1>3 DEF Control, Moves
<1>. QED BY <1>1, <1>4

LEMMA PushControl ==
  ASSUME ScopeAssumption, Types, Control, StackOnce, NEW w \in Workers, NEW n \in Children,
         Pushes(w, n), ~OnStack(n), pc[w] \in {"idle", "submit", "scan"},
         at' = at, slot' = [slot EXCEPT ![w] = ScopeOf[n]]
  PROVE  Control' /\ StackOnce'
<1>0. Len(stack[w]) \in Nat
  BY PushFrames
<1>. PICK n1 \in Nat \ {0} : n1 = Len(stack[w]) + 1
  BY <1>0
<1>1. /\ Len(stack'[w]) = n1
      /\ DOMAIN stack'[w] = DOMAIN stack[w] \cup {n1}
      /\ DOMAIN stack[w] = 1 .. Len(stack[w])
      /\ stack'[w] # <<>> /\ pc'[w] = "user"
  BY PushFrames
<1>2. stack'[w][n1].body = n /\ stack'[w][n1].back = pc[w] /\ stack'[w][n1].slot = slot[w]
  BY PushFrames
<1>3. \A v \in Workers : \A i \in DOMAIN stack[v] :
        i \in DOMAIN stack'[v] /\ stack'[v][i] = stack[v][i] /\ Place(<<v, i>>)' = Place(<<v, i>>)
  BY PushFrames, PushPlaces
<1>4. \A v \in Workers : v # w => stack'[v] = stack[v] /\ pc'[v] = pc[v] /\ slot'[v] = slot[v]
  BY PushFrames DEF Types
<1>5. \A v \in Workers : \A i \in DOMAIN stack[v] : stack[v][i].body # n
  BY Stacked
<1>6. n # Root /\ n \in Bodies
  BY DEF ScopeAssumption, Bodies
<1>7. StackOnce'
  <2>1. ASSUME NEW v \in Workers, NEW i \in DOMAIN stack'[v]
        PROVE  IF v = w /\ i = n1 THEN stack'[v][i].body = n
               ELSE i \in DOMAIN stack[v] /\ stack'[v][i].body = stack[v][i].body
    <3>1. v = w => i = n1 \/ i \in DOMAIN stack[v]
      BY <1>1
    <3>2. v # w => i \in DOMAIN stack[v]
      BY <1>4
    <3>3. i \in DOMAIN stack[v] => stack'[v][i] = stack[v][i]
      BY <1>3
    <3>. QED BY <1>2, <3>1, <3>2, <3>3
  <2>. SUFFICES ASSUME NEW u \in Workers, NEW v \in Workers,
                       NEW i \in DOMAIN stack'[u], NEW j \in DOMAIN stack'[v],
                       stack'[u][i].body = stack'[v][j].body
                PROVE  u = v /\ i = j
    BY DEF StackOnce
  <2>2. CASE u = w /\ i = n1
    BY <2>1, <2>2, <1>5
  <2>3. CASE ~(u = w /\ i = n1)
    BY <2>1, <2>3, <1>5 DEF StackOnce
  <2>. QED BY <2>2, <2>3
<1>8. slot[w] = IF n1 = 1 THEN None ELSE OwnSlot(stack[w][n1 - 1].body)
  <2>1. WorkerOK(w)
    BY DEF Control
  <2>2. n1 = 1 <=> stack[w] = <<>>
    BY <1>1, EmptySeq DEF Types
  <2>. QED BY <2>1, <2>2 DEF WorkerOK, EndPlaces, Body, Top
<1>9. ASSUME NEW v \in Workers, NEW i \in DOMAIN stack'[v]
      PROVE  FrameOK(v, i)'
  <2>1. CASE v = w /\ i = n1
    <3>1. Place(<<w, n1>>)' = "user"
      <4>1. Len(stack'[w]) = n1 /\ pc'[w] = "user"
        BY <1>1
      <4>. QED BY <4>1 DEF Place
    <3>2. Fits(n, "user")'
      BY DEF Fits, RunPlaces, ScanPlaces, WaitPlaces, EndPlaces
    <3>3. pc[w] = "idle" <=> n1 = 1
      <4>1. WorkerOK(w) /\ (n1 = 1 <=> stack[w] = <<>>)
        BY <1>1, EmptySeq DEF Control, Types
      <4>. QED BY <4>1 DEF WorkerOK
    <3>4. n1 # 1 => stack'[w][n1 - 1] = stack[w][n1 - 1]
      <4>1. n1 # 1 => n1 - 1 \in DOMAIN stack[w]
        BY <1>0, <1>1
      <4>. QED BY <4>1, <1>3
    <3>5. stack'[w][n1].slot = slot[w]
      BY <1>2
    <3>6. stack'[w][n1].slot = IF n1 = 1 THEN None ELSE OwnSlot(stack'[w][n1 - 1].body)
      BY <1>8, <3>4, <3>5
    <3>7. stack'[w][n1].body = n /\ stack'[w][n1].back = pc[w]
      BY <1>2
    <3>. QED BY <2>1, <1>6, <3>1, <3>2, <3>3, <3>6, <3>7 DEF FrameOK, OwnSlot
  <2>2. CASE ~(v = w /\ i = n1)
    <3>1. /\ i \in DOMAIN stack[v] /\ stack'[v][i] = stack[v][i]
          /\ Place(<<v, i>>)' = Place(<<v, i>>)
      BY <2>2, <1>1, <1>3, <1>4
    <3>2. FrameOK(v, i)
      BY <3>1 DEF Control
    <3>3. i # 1 => stack'[v][i - 1] = stack[v][i - 1]
      <4>1. stack[v] \in Seq(FrameType)
        BY DEF Types
      <4>2. i \in 1 .. Len(stack[v]) /\ DOMAIN stack[v] = 1 .. Len(stack[v]) /\ Len(stack[v]) \in Nat
        BY <4>1, <3>1, LenProperties
      <4>3. i # 1 => i - 1 \in DOMAIN stack[v]
        BY <4>2
      <4>. QED BY <4>3, <1>3
    <3>4. Fits(stack[v][i].body, Place(<<v, i>>))'
      BY <3>1, <3>2 DEF FrameOK, Fits, Calling, CallOf
    <3>. QED BY <3>1, <3>2, <3>3, <3>4 DEF FrameOK, OwnSlot
  <2>. QED BY <2>1, <2>2
<1>10. ASSUME NEW v \in Workers
       PROVE  WorkerOK(v)'
  <2>1. CASE v = w
    <3>1. slot'[w] = ScopeOf[n]
      BY DEF Types
    <3>2. Body(w)' = n
      <4>1. Len(stack'[w]) = n1 /\ stack'[w][n1].body = n
        BY <1>1, <1>2
      <4>. QED BY <4>1 DEF Body, Top
    <3>. QED BY <2>1, <1>1, <1>6, <3>1, <3>2 DEF WorkerOK, OwnSlot, EndPlaces
  <2>2. CASE v # w
    <3>1. WorkerOK(v) /\ stack'[v] = stack[v] /\ pc'[v] = pc[v] /\ slot'[v] = slot[v]
      BY <2>2, <1>4 DEF Control
    <3>. QED BY <3>1 DEF WorkerOK, Body, Top, OwnSlot
  <2>. QED BY <2>1, <2>2
<1>11. Control'
  BY <1>9, <1>10 DEF Control
<1>. QED BY <1>7, <1>11

LEMMA UpTo == \A k \in Nat : k # 0 => k \in 1 .. k
OBVIOUS

LEMMA PopControl ==
  ASSUME Types, Control, StackOnce, NEW w \in Workers, pc[w] = "completed", stack[w] # <<>>,
         Pops(w), at' = at, slot' = slot
  PROVE  Control' /\ StackOnce'
<1>. PICK k \in Nat : k = Len(stack[w]) - 1
  BY PopFrames
<1>1. /\ Len(stack'[w]) = k /\ Len(stack[w]) = k + 1 /\ DOMAIN stack'[w] = 1 .. k
      /\ stack'[w] \in Seq(FrameType) /\ pc'[w] = Top(w).back
  BY PopFrames DEF Top
<1>2. \A v \in Workers : \A i \in DOMAIN stack'[v] :
        i \in DOMAIN stack[v] /\ stack'[v][i] = stack[v][i]
  BY PopFrames
<1>3. \A v \in Workers : v # w => stack'[v] = stack[v]
  BY PopFrames
<1>4. StackOnce'
  BY <1>2 DEF StackOnce
<1>5. ASSUME NEW v \in Workers, NEW i \in DOMAIN stack'[v]
      PROVE  FrameOK(v, i)'
  <2>1. /\ i \in DOMAIN stack[v] /\ stack'[v][i] = stack[v][i] /\ FrameOK(v, i)
    BY <1>2 DEF Control
  <2>2. i # 1 => stack'[v][i - 1] = stack[v][i - 1]
    <3>1. stack'[v] \in Seq(FrameType)
      BY <1>1, <1>3 DEF Types
    <3>2. i # 1 => i - 1 \in DOMAIN stack'[v]
      BY <3>1, LenProperties
    <3>. QED BY <3>2, <1>2
  <2>3. Fits(stack[v][i].body, Place(<<v, i>>))'
    <3>1. Fits(stack[v][i].body, Place(<<v, i>>))
      BY <2>1 DEF FrameOK
    <3>2. \/ Place(<<v, i>>)' = Place(<<v, i>>)
          \/ Place(<<v, i>>) = "parked" /\ Place(<<v, i>>)' = "compare"
      BY PopPlaces
    <3>. QED BY <2>1, <3>1, <3>2 DEF Fits, Calling, CallOf, RunPlaces, ScanPlaces, WaitPlaces,
                                      EndPlaces
  <2>. QED BY <2>1, <2>2, <2>3 DEF FrameOK, OwnSlot
<1>6. ASSUME NEW v \in Workers
      PROVE  WorkerOK(v)'
  <2>1. CASE v = w
    <3>1. /\ Top(w).slot = IF k = 0 THEN None ELSE OwnSlot(stack[w][k].body)
          /\ Top(w).back = "idle" <=> k = 0
      BY <1>1, TopFits
    <3>2. slot[w] = Top(w).slot
      BY DEF Control, WorkerOK, EndPlaces
    <3>3. stack'[w] = <<>> <=> k = 0
      BY <1>1, EmptySeq
    <3>4. k # 0 => Body(w)' = stack[w][k].body
      <4>1. k # 0 => k \in DOMAIN stack'[w]
        BY UpTo, <1>1
      <4>2. k # 0 => stack'[w][k] = stack[w][k]
        BY <4>1, <1>2
      <4>. QED BY <4>2, <1>1 DEF Body, Top
    <3>5. Top(w).back \in {"idle", "submit", "scan"}
      BY TopTyped DEF FrameType
    <3>. QED BY <2>1, <1>1, <3>1, <3>2, <3>3, <3>4, <3>5 DEF WorkerOK, EndPlaces, OwnSlot
  <2>2. CASE v # w
    <3>1. WorkerOK(v) /\ stack'[v] = stack[v] /\ slot'[v] = slot[v]
      BY <2>2, <1>3 DEF Control
    <3>2. pc'[v] = pc[v] \/ (pc[v] = "parked" /\ pc'[v] = "compare")
      BY <2>2 DEF Pops, Others
    <3>. QED BY <3>1, <3>2 DEF WorkerOK, Body, Top, OwnSlot, EndPlaces
  <2>. QED BY <2>1, <2>2
<1>7. Control'
  BY <1>5, <1>6 DEF Control
<1>. QED BY <1>4, <1>7

\* The end of Root, which is alone on its stack.
LEMMA RootControl ==
  ASSUME Types, Control, StackOnce, NEW w \in Workers, pc[w] = "user", stack[w] # <<>>,
         Body(w) = Root, stack' = [stack EXCEPT ![w] = <<>>], pc' = [pc EXCEPT ![w] = "idle"],
         at' = at, slot' = slot
  PROVE  /\ Control' /\ StackOnce'
         /\ \A b \in Bodies : IF b = Root THEN PlaceIs(b, "idle")' ELSE Stays(b)
<1>1. stack'[w] = <<>> /\ pc'[w] = "idle" /\ DOMAIN stack'[w] = {}
  BY DEF Types
<1>2. \A v \in Workers : v # w => stack'[v] = stack[v] /\ pc'[v] = pc[v]
  BY DEF Types
<1>3. DOMAIN stack[w] = {Len(stack[w])} /\ stack[w][Len(stack[w])].body = Root
  <2>1. Len(stack[w]) = 1 /\ stack[w] \in Seq(FrameType)
    BY TopFits DEF Types
  <2>2. DOMAIN stack[w] = 1 .. 1
    BY <2>1, LenProperties
  <2>. QED BY <2>1, <2>2 DEF Body, Top
<1>4. StackOnce'
  BY <1>1, <1>2 DEF StackOnce
<1>5. ASSUME NEW v \in Workers, v # w, NEW i \in DOMAIN stack[v]
      PROVE  FrameOK(v, i)'
  <2>1. FrameOK(v, i) /\ stack'[v] = stack[v] /\ pc'[v] = pc[v]
    BY <1>2, <1>5 DEF Control
  <2>. QED BY <2>1 DEF FrameOK, Place, Fits, Calling, CallOf, OwnSlot
<1>6. ASSUME NEW v \in Workers PROVE WorkerOK(v)'
  <2>1. CASE v = w
    BY <2>1, <1>1 DEF Control, WorkerOK, EndPlaces, OwnSlot
  <2>2. CASE v # w
    BY <2>2, <1>2 DEF Control, WorkerOK, Body, Top, OwnSlot
  <2>. QED BY <2>1, <2>2
<1>7. Control'
  BY <1>1, <1>2, <1>5, <1>6 DEF Control
<1>8. ASSUME NEW v \in Workers, v # w, NEW i \in DOMAIN stack[v]
      PROVE  stack[v][i].body # Root /\ Place(<<v, i>>)' = Place(<<v, i>>)
  <2>1. stack[v][i].body # Root
    BY <1>3, <1>8 DEF StackOnce
  <2>. QED BY <2>1, <1>2, <1>8 DEF Place
<1>9. ASSUME NEW b \in Bodies, NEW P
      PROVE  IF b = Root THEN ~IsAt(b, P)' ELSE IsAt(b, P)' <=> IsAt(b, P)
  <2>1. ASSUME b = Root PROVE ~IsAt(b, P)'
    BY <2>1, <1>1, <1>2, <1>8 DEF IsAt
  <2>2. ASSUME b # Root PROVE IsAt(b, P)' <=> IsAt(b, P)
    <3>1. \A v \in Workers : \A i \in DOMAIN stack[v] : stack[v][i].body = b => v # w
      BY <1>3, <2>2
    <3>2. IsAt(b, P)' => IsAt(b, P)
      BY <1>1, <1>2, <1>8 DEF IsAt
    <3>3. IsAt(b, P) => IsAt(b, P)'
      BY <3>1, <1>2, <1>8 DEF IsAt
    <3>. QED BY <3>2, <3>3
  <2>. QED BY <2>1, <2>2
<1>10. ASSUME NEW b \in Bodies
       PROVE  IF b = Root THEN PlaceIs(b, "idle")' ELSE Stays(b)
  BY <1>9 DEF Stays, PlaceIs, InRun, InScan, InJoin, AtEnd, Live, OnStack, RunPlaces, ScanPlaces,
              WaitPlaces, LivePlaces, EndPlaces
<1>. QED BY <1>4, <1>7, <1>10

-----------------------------------------------------------------------------
(* Types.                                                                  *)

Places == {"idle"} \cup LivePlaces \cup EndPlaces

LEMMA HelpersTyped ==
  ASSUME ScopeAssumption, Types, NEW w \in Workers
  PROVE  /\ \A l \in Places : Goto(w, l) => pc' \in [Workers -> Places]
         /\ \A l \in Places, s \in Scopes : NotifyGoto(w, s, l) => pc' \in [Workers -> Places]
         /\ \A ns : Release(ns) => refs' \in [Children -> Int]
         /\ Advance(w) => at' \in [Bodies -> Nat \ {0}]
         /\ \A s \in Scopes : DropNodes(s) => /\ nodes' \in [Scopes -> Seq(Children)]
                                              /\ refs' \in [Children -> Int]
<1>1. "compare" \in Places
  BY DEF Places, LivePlaces, WaitPlaces
<1>2. ASSUME NEW l \in Places, Goto(w, l) PROVE pc' \in [Workers -> Places]
  BY <1>2 DEF Types, Goto, Places
<1>3. ASSUME NEW l \in Places, NEW s \in Scopes, NotifyGoto(w, s, l)
      PROVE  pc' \in [Workers -> Places]
  BY <1>1, <1>3 DEF Types, NotifyGoto, Places
<1>4. ASSUME NEW ns, Release(ns) PROVE refs' \in [Children -> Int]
  <2>1. \A n \in Children : refs[n] \in Int
    BY DEF Types
  <2>. QED BY <1>4, <2>1 DEF Release
<1>5. ASSUME Advance(w) PROVE at' \in [Bodies -> Nat \ {0}]
  <2>1. at \in [Bodies -> Nat \ {0}]
    BY DEF Types
  <2>2. CASE Body(w) \in Bodies
    <3>1. at[Body(w)] + 1 \in Nat \ {0}
      BY <2>1, <2>2
    <3>. QED BY <1>5, <2>1, <3>1 DEF Advance
  <2>3. CASE Body(w) \notin Bodies
    BY <1>5, <2>1, <2>3 DEF Advance
  <2>. QED BY <2>2, <2>3
<1>6. ASSUME NEW s \in Scopes, DropNodes(s)
      PROVE  nodes' \in [Scopes -> Seq(Children)] /\ refs' \in [Children -> Int]
  <2>1. <<>> \in Seq(Children)
    OBVIOUS
  <2>. QED BY <1>4, <1>6, <2>1 DEF DropNodes, Types
<1>. QED BY <1>2, <1>3, <1>4, <1>5, <1>6

LEMMA PushTyped ==
  ASSUME ScopeAssumption, Types, NEW w \in Workers, NEW n \in Children, Push(w, n),
         pc[w] \in {"idle", "submit", "scan"}
  PROVE  /\ pc' \in [Workers -> Places] /\ stack' \in [Workers -> Seq(FrameType)]
         /\ slot' \in [Workers -> Scopes \cup {None}] /\ claimed' \in [Children -> BOOLEAN]
         /\ Pushes(w, n)
<1>1. pc' \in [Workers -> Places]
  <2>1. "user" \in Places
    BY DEF Places, LivePlaces
  <2>. QED BY <2>1, HelpersTyped DEF Push
<1>2. stack' \in [Workers -> Seq(FrameType)]
  <2>1. [body |-> n, back |-> pc[w], slot |-> slot[w]] \in FrameType
    BY DEF FrameType, Types, Bodies
  <2>2. stack[w] \in Seq(FrameType)
    BY DEF Types
  <2>3. Append(stack[w], [body |-> n, back |-> pc[w], slot |-> slot[w]]) \in Seq(FrameType)
    BY <2>1, <2>2, AppendProperties
  <2>. QED BY <2>3 DEF Push, Types
<1>3. slot' \in [Workers -> Scopes \cup {None}]
  BY DEF Push, Types, ScopeAssumption
<1>4. claimed' \in [Children -> BOOLEAN]
  BY DEF Push, Types
<1>. QED BY <1>1, <1>2, <1>3, <1>4 DEF Push, Pushes, Goto

LEMMA RunTyped ==
  ASSUME ScopeAssumption, Types, NEW w \in Workers,
         Run(w) \/ WakeJoiner(w) \/ Submit(w)
  PROVE  Types'
<1>1. CASE Run(w)
  <2>1. HasCall(w) /\ Call(w).op = "run"
    BY <1>1 DEF Run, In
  <2>. PICK n \in Children : n = Call(w).arg
    BY <2>1, CallTyped
  <2>. PICK s \in Scopes : s = ScopeOf[n]
    BY DEF ScopeAssumption
  <2>2. nodes' \in [Scopes -> Seq(Children)]
    <3>1. <<n>> \o nodes[s] \in Seq(Children)
      BY DEF Types
    <3>. QED BY <1>1, <3>1 DEF Run, Types
  <2>3. outstanding' \in [Scopes -> Nat]
    BY <1>1 DEF Run, Types
  <2>4. refs' \in [Children -> Int] /\ given' \subseteq Children /\ done' \subseteq given'
    BY <1>1 DEF Run, Types
  <2>5. pc' \in [Workers -> Places]
    <3>1. (IF closed[s] THEN "wake_joiner" ELSE "submit") \in Places
      BY DEF Places, LivePlaces, RunPlaces
    <3>. QED BY <1>1, <3>1, HelpersTyped DEF Run
  <2>6. aborted' \in BOOLEAN
    BY <1>1 DEF Run, Types
  <2>. QED BY <1>1, <2>2, <2>3, <2>4, <2>5, <2>6 DEF Run, Types, Places
<1>2. CASE WakeJoiner(w)
  <2>1. HasCall(w) /\ Call(w).op = "run"
    BY <1>2 DEF WakeJoiner, In
  <2>2. ScopeOf[Call(w).arg] \in Scopes
    BY <2>1, CallTyped DEF ScopeAssumption
  <2>3. "submit" \in Places
    BY DEF Places, LivePlaces, RunPlaces
  <2>4. pc' \in [Workers -> Places]
    BY <1>2, <2>2, <2>3, HelpersTyped DEF WakeJoiner
  <2>. QED BY <1>2, <2>4 DEF WakeJoiner, Types, Places, scopeVars, nodeVars, histVars
<1>3. CASE Submit(w)
  <2>1. HasCall(w) /\ Call(w).op = "run"
    BY <1>3 DEF Submit, In
  <2>. PICK n \in Children : n = Call(w).arg
    BY <2>1, CallTyped
  <2>2. "user" \in Places
    BY DEF Places, LivePlaces
  <2>3. pc' \in [Workers -> Places] /\ at' \in [Bodies -> Nat \ {0}]
    BY <1>3, <2>2, HelpersTyped DEF Submit
  <2>4. queue' \in [Groups -> SUBSET Children]
    BY <1>3 DEF Submit, Types
  <2>. QED BY <1>3, <2>3, <2>4 DEF Submit, Types, Places, scopeVars, histVars
<1>. QED BY <1>1, <1>2, <1>3

LEMMA TakeTyped ==
  ASSUME ScopeAssumption, Types, NEW w \in Workers, Take(w)
  PROVE  Types'
<1>1. PICK g \in Groups : \E n \in queue[g] :
        /\ w \in Member[g]
        /\ queue' = [queue EXCEPT ![g] = @ \ {n}]
        /\ \/ ~claimed[n] /\ Push(w, n) /\ UNCHANGED refs
           \/ claimed[n] /\ Release({n}) /\ UNCHANGED <<claimed, pc, stack, slot>>
  BY DEF Take
<1>2. PICK n \in queue[g] :
        /\ queue' = [queue EXCEPT ![g] = @ \ {n}]
        /\ \/ ~claimed[n] /\ Push(w, n) /\ UNCHANGED refs
           \/ claimed[n] /\ Release({n}) /\ UNCHANGED <<claimed, pc, stack, slot>>
  BY <1>1
<1>3. n \in Children /\ queue' \in [Groups -> SUBSET Children]
  BY <1>2 DEF Types
<1>4. pc[w] \in {"idle", "submit", "scan"}
  BY DEF Take, In
<1>5. /\ pc' \in [Workers -> Places] /\ stack' \in [Workers -> Seq(FrameType)]
      /\ slot' \in [Workers -> Scopes \cup {None}] /\ claimed' \in [Children -> BOOLEAN]
      /\ refs' \in [Children -> Int]
  <2>1. CASE Push(w, n) /\ UNCHANGED refs
    BY <1>3, <1>4, <2>1, PushTyped DEF Types
  <2>2. CASE Release({n}) /\ UNCHANGED <<claimed, pc, stack, slot>>
    BY <2>2, HelpersTyped DEF Types, Places
  <2>. QED BY <1>2, <2>1, <2>2
<1>. QED BY <1>3, <1>5 DEF Take, Types, Places, scopeVars, histVars

\* The children and workers that count are finitely many, and a count of 0 says there are none.
LEMMA CountBounds ==
  ASSUME ScopeAssumption, Types, CountInv, NEW s \in Scopes
  PROVE  /\ IsFiniteSet(Of(s, given \ done)) /\ IsFiniteSet(Completing(s))
         /\ Cardinality(Of(s, given \ done)) \in Nat /\ Cardinality(Completing(s)) \in Nat
         /\ outstanding[s] = Cardinality(Of(s, given \ done)) + Cardinality(Completing(s))
         /\ outstanding[s] = 0 => Of(s, given \ done) = {} /\ Completing(s) = {}
<1>1. IsFiniteSet(Of(s, given \ done))
  <2>1. Of(s, given \ done) \subseteq Children
    BY DEF Of, Types
  <2>. QED BY <2>1, FS_Subset DEF ScopeAssumption
<1>2. IsFiniteSet(Completing(s))
  <2>1. Completing(s) \subseteq Workers
    BY DEF Completing
  <2>. QED BY <2>1, FS_Subset DEF ScopeAssumption
<1>3. Cardinality(Of(s, given \ done)) \in Nat /\ Cardinality(Completing(s)) \in Nat
  BY <1>1, <1>2, FS_CardinalityType
<1>4. outstanding[s] = Cardinality(Of(s, given \ done)) + Cardinality(Completing(s))
  BY DEF CountInv, Counted
<1>5. ASSUME outstanding[s] = 0
      PROVE  Of(s, given \ done) = {} /\ Completing(s) = {}
  <2>1. Cardinality(Of(s, given \ done)) = 0 /\ Cardinality(Completing(s)) = 0
    BY <1>3, <1>4, <1>5
  <2>. QED BY <1>1, <1>2, <2>1, FS_EmptySet
<1>. QED BY <1>1, <1>2, <1>3, <1>4, <1>5

\* A worker that has returned from a child is at the frame of that child.
LEMMA EndTyped ==
  ASSUME ScopeAssumption, Types, Control, NEW w \in Workers, pc[w] \in EndPlaces
  PROVE  /\ stack[w] # <<>> /\ Body(w) \in Children /\ ScopeOf[Body(w)] \in Scopes
         /\ Body(w) # Root /\ ~Calling(Body(w))
<1>1. stack[w] # <<>>
  BY DEF Control, WorkerOK, EndPlaces
<1>2. Body(w) # Root /\ ~Calling(Body(w))
  BY <1>1, TopFits DEF Fits
<1>3. Body(w) \in Children
  BY <1>1, <1>2, TopTyped DEF Bodies
<1>. QED BY <1>1, <1>2, <1>3 DEF ScopeAssumption

LEMMA ExecutionTyped ==
  ASSUME ScopeAssumption, StackInv, RunsGiven, CountInv, NEW w \in Workers,
         Return(w) \/ Complete(w) \/ Completed(w)
  PROVE  Types'
<1>. USE DEF StackInv
<1>1. CASE Return(w)
  <2>1. Top(w) \in FrameType /\ Body(w) \in Bodies
    BY <1>1, TopTyped DEF Return
  <2>2. "idle" \in Places /\ "complete" \in Places
    BY DEF Places, EndPlaces
  <2>3. CASE /\ Body(w) = Root
             /\ stack' = [stack EXCEPT ![w] = <<>>]
             /\ Goto(w, "idle")
             /\ UNCHANGED <<slot, done>>
    <3>1. pc' \in [Workers -> Places]
      BY <2>2, <2>3, HelpersTyped
    <3>2. stack' \in [Workers -> Seq(FrameType)]
      <4>1. <<>> \in Seq(FrameType)
        OBVIOUS
      <4>. QED BY <2>3, <4>1 DEF Types
    <3>. QED BY <1>1, <2>3, <3>1, <3>2 DEF Return, Types, Places, scopeVars, nodeVars
  <2>4. CASE /\ Body(w) # Root
             /\ RestoreSlot(w)
             /\ done' = done \cup {Body(w)}
             /\ Goto(w, "complete")
             /\ UNCHANGED stack
    <3>1. pc' \in [Workers -> Places]
      BY <2>2, <2>4, HelpersTyped
    <3>2. slot' \in [Workers -> Scopes \cup {None}]
      BY <2>1, <2>4 DEF RestoreSlot, FrameType, Types
    <3>3. Body(w) \in given
      <4>1. PlaceIs(Body(w), "user")
        BY <1>1, TopAt DEF Return
      <4>. QED BY <2>1, <2>4, <4>1 DEF PlaceIs, LivePlaces, RunsGiven, Bodies
    <3>. QED BY <1>1, <2>4, <3>1, <3>2, <3>3 DEF Return, Types, Places, scopeVars, nodeVars
  <2>. QED BY <1>1, <2>3, <2>4 DEF Return
<1>2. CASE Complete(w)
  <2>1. pc[w] = "complete" /\ Body(w) \in Children /\ "completed" \in Places
    BY <1>2, EndTyped DEF Complete, EndPlaces, Places
  <2>. PICK s \in Scopes : s = ScopeOf[Body(w)]
    BY <2>1 DEF ScopeAssumption
  <2>2. /\ mutex' = [mutex EXCEPT ![s] = w]
        /\ KeepException(Body(w), s)
        /\ outstanding' = [outstanding EXCEPT ![s] = @ - 1]
    BY <1>2 DEF Complete
  <2>3. pc' \in [Workers -> Places]
    BY <1>2, <2>1, HelpersTyped DEF Complete
  <2>4. mutex' \in [Scopes -> Workers \cup {None}]
    BY <2>2 DEF Types
  <2>5. exception' \in [Scopes -> Children \cup {None}]
    BY <2>1, <2>2 DEF Types, KeepException
  <2>6. outstanding' \in [Scopes -> Nat]
    <3>1. w \in Completing(s)
      BY <2>1 DEF Completing
    <3>2. outstanding[s] # 0 /\ outstanding[s] \in Nat
      BY <3>1, CountBounds DEF Types
    <3>3. outstanding[s] - 1 \in Nat
      BY <3>2
    <3>. QED BY <2>2, <3>3 DEF Types
  <2>. QED BY <1>2, <2>3, <2>4, <2>5, <2>6 DEF Complete, Types, Places, nodeVars, histVars
<1>3. CASE Completed(w)
  <2>1. /\ pc[w] = "completed" /\ Body(w) \in Children /\ stack[w] # <<>>
        /\ Top(w) \in FrameType
    BY <1>3, EndTyped, TopTyped DEF Completed, EndPlaces
  <2>. PICK s \in Scopes : s = ScopeOf[Body(w)]
    BY <2>1 DEF ScopeAssumption
  <2>. PICK l \in Places : l = Top(w).back
    BY <2>1 DEF FrameType, Places, LivePlaces, RunPlaces, ScanPlaces
  <2>2. NotifyGoto(w, s, l) \/ Goto(w, l)
    BY <1>3 DEF Completed
  <2>3. pc' \in [Workers -> Places]
    BY <2>2, HelpersTyped
  <2>4. mutex' \in [Scopes -> Workers \cup {None}]
    BY <1>3 DEF Completed, Types
  <2>5. refs' \in [Children -> Int]
    BY <1>3, HelpersTyped DEF Completed
  <2>6. Pops(w)
    <3>1. stack' = [stack EXCEPT ![w] = SubSeq(@, 1, Len(@) - 1)]
      BY <1>3 DEF Completed
    <3>2. pc'[w] = l /\ Others(w)
      BY <2>2 DEF NotifyGoto, Goto, Others, Woken, Types
    <3>. QED BY <3>1, <3>2 DEF Pops
  <2>7. stack' \in [Workers -> Seq(FrameType)]
    <3>1. stack'[w] \in Seq(FrameType)
      BY <2>1, <2>6, PopFrames
    <3>. QED BY <1>3, <3>1 DEF Completed, Types
  <2>. QED BY <1>3, <2>3, <2>4, <2>5, <2>7 DEF Completed, Types, Places, histVars
<1>. QED BY <1>1, <1>2, <1>3

\* A worker inside a call of run or of a join.
LEMMA InCall ==
  ASSUME ScopeAssumption, Types, Control, NEW w \in Workers,
         pc[w] \in RunPlaces \cup ScanPlaces \cup WaitPlaces
  PROVE  /\ HasCall(w) /\ stack[w] # <<>> /\ Body(w) \in Bodies
         /\ Call(w) = CallOf(Body(w)) /\ at[Body(w)] \in DOMAIN Script[Body(w)]
         /\ pc[w] \in RunPlaces => Call(w).op = "run" /\ Call(w).arg \in Children
         /\ pc[w] \in ScanPlaces \cup WaitPlaces =>
              Call(w).op \in {"join", "block"} /\ Call(w).arg \in Scopes
<1>1. stack[w] # <<>>
  BY DEF Control, WorkerOK, RunPlaces, ScanPlaces, WaitPlaces
<1>2. Fits(Body(w), pc[w])
  BY <1>1, TopFits
<1>3. HasCall(w)
  BY <1>1, <1>2 DEF Fits, HasCall, Calling
<1>4. Call(w) = CallOf(Body(w))
  BY DEF Call, CallOf
<1>5. /\ pc[w] \in RunPlaces => Call(w).op = "run"
      /\ pc[w] \in ScanPlaces \cup WaitPlaces => Call(w).op \in {"join", "block"}
  BY <1>2, <1>4 DEF Fits
<1>. QED BY <1>1, <1>3, <1>4, <1>5, CallTyped

LEMMA JoinsTyped ==
  ASSUME ScopeAssumption, Types, Control, NEW w \in Workers,
         \/ JoinCall(w) \/ JoinTake(w) \/ JoinScan(w) \/ JoinRelease(w) \/ JoinLoad(w)
         \/ JoinCompare(w) \/ SpuriousWake(w)
  PROVE  Types'
<1>0. {"take", "scan", "load", "compare", "parked", "rethrow", "user"} \subseteq Places
  BY DEF Places, LivePlaces, ScanPlaces, WaitPlaces
<1>1. CASE JoinCall(w)
  <2>1. HasCall(w) /\ Call(w).arg \in Scopes
    BY <1>1, CallTyped DEF JoinCall, Joins
  <2>2. pc' \in [Workers -> Places]
    <3>1. (IF Call(w).op = "join" THEN "take" ELSE "load") \in Places
      BY <1>0
    <3>. QED BY <1>1, <3>1, HelpersTyped DEF JoinCall
  <2>3. closed' \in [Scopes -> BOOLEAN] /\ aborted' \in BOOLEAN
    BY <1>1 DEF JoinCall, Types
  <2>. QED BY <1>1, <2>2, <2>3 DEF JoinCall, Types, Places, nodeVars
<1>2. CASE JoinTake(w)
  <2>1. HasCall(w) /\ Call(w).arg \in Scopes /\ Body(w) \in Bodies
    BY <1>2, CallTyped DEF JoinTake, In
  <2>. PICK s \in Scopes : s = Call(w).arg
    BY <2>1
  <2>2. pc' \in [Workers -> Places]
    BY <1>0, <1>2, HelpersTyped DEF JoinTake
  <2>3. join' \in [Bodies -> JoinType]
    <3>1. [NoJoin EXCEPT !.list = nodes[s], !.todo = nodes[s], !.had = nodes[s] # <<>>] \in JoinType
      <4>1. nodes[s] \in Seq(Children)
        BY DEF Types
      <4>. QED BY <4>1 DEF NoJoin, JoinType
    <3>. QED BY <1>2, <2>1, <3>1 DEF JoinTake, Types
  <2>4. nodes' \in [Scopes -> Seq(Children)]
    <3>1. <<>> \in Seq(Children)
      OBVIOUS
    <3>. QED BY <1>2, <3>1 DEF JoinTake, Types
  <2>. QED BY <1>2, <2>2, <2>3, <2>4 DEF JoinTake, Types, Places, nodeVars, histVars
<1>3. CASE JoinScan(w)
  <2>1. HasCall(w) /\ Body(w) \in Bodies /\ pc[w] = "scan"
    BY <1>3, CallTyped DEF JoinScan, In
  <2>2. join[Body(w)] \in JoinType /\ join[Body(w)].todo # <<>>
    BY <1>3, <2>1 DEF JoinScan, Locals, Types
  <2>3. Head(join[Body(w)].todo) \in Children /\ Tail(join[Body(w)].todo) \in Seq(Children)
    BY <2>2, HeadTailProperties DEF JoinType
  <2>4. join' \in [Bodies -> JoinType]
    <3>1. [join[Body(w)] EXCEPT !.todo = Tail(join[Body(w)].todo)] \in JoinType
      BY <2>2, <2>3 DEF JoinType
    <3>2. join' = [join EXCEPT ![Body(w)] = [join[Body(w)] EXCEPT !.todo = Tail(join[Body(w)].todo)]]
      BY <1>3, <2>1 DEF JoinScan, Types
    <3>. QED BY <3>1, <3>2 DEF Types
  <2>5. /\ pc' \in [Workers -> Places] /\ stack' \in [Workers -> Seq(FrameType)]
        /\ slot' \in [Workers -> Scopes \cup {None}] /\ claimed' \in [Children -> BOOLEAN]
    <3>. PICK n \in Children : n = Head(Locals(w).todo)
      BY <2>3 DEF Locals
    <3>1. Push(w, n) \/ UNCHANGED <<claimed, pc, stack, slot>>
      BY <1>3 DEF JoinScan
    <3>. QED BY <2>1, <3>1, PushTyped DEF Types, Places
  <2>. QED BY <1>3, <2>4, <2>5 DEF JoinScan, Types, Places, scopeVars, histVars
<1>4. CASE JoinRelease(w)
  <2>1. HasCall(w) /\ Body(w) \in Bodies
    BY <1>4, CallTyped DEF JoinRelease, In
  <2>2. pc' \in [Workers -> Places] /\ refs' \in [Children -> Int]
    BY <1>0, <1>4, HelpersTyped DEF JoinRelease
  <2>3. join' \in [Bodies -> JoinType]
    <3>1. [join[Body(w)] EXCEPT !.list = <<>>] \in JoinType
      <4>1. join[Body(w)] \in JoinType /\ <<>> \in Seq(Children)
        BY <2>1 DEF Types
      <4>. QED BY <4>1 DEF JoinType
    <3>2. join' = [join EXCEPT ![Body(w)] = [join[Body(w)] EXCEPT !.list = <<>>]]
      BY <1>4, <2>1 DEF JoinRelease, Types
    <3>. QED BY <3>1, <3>2 DEF Types
  <2>. QED BY <1>4, <2>2, <2>3 DEF JoinRelease, Types, Places, scopeVars, histVars
<1>5. CASE JoinLoad(w)
  <2>1. Body(w) \in Bodies /\ Call(w).arg \in Scopes
    BY <1>5, InCall DEF JoinLoad, WaitPlaces
  <2>. PICK c \in Nat : c = outstanding[Call(w).arg]
    BY <2>1 DEF Types
  <2>2. pc' \in [Workers -> Places]
    BY <1>0, <1>5, HelpersTyped DEF JoinLoad
  <2>3. join' \in [Bodies -> JoinType]
    <3>1. [join[Body(w)] EXCEPT !.count = c] \in JoinType
      BY <2>1 DEF Types, JoinType
    <3>2. \/ join' = [join EXCEPT ![Body(w)] = [join[Body(w)] EXCEPT !.count = c]]
          \/ join' = join
      BY <1>5, <2>1 DEF JoinLoad, Types
    <3>. QED BY <3>1, <3>2 DEF Types
  <2>. QED BY <1>5, <2>2, <2>3 DEF JoinLoad, Types, Places, scopeVars, nodeVars, histVars
<1>6. CASE JoinCompare(w)
  <2>1. pc' \in [Workers -> Places]
    BY <1>0, <1>6, HelpersTyped DEF JoinCompare
  <2>. QED BY <1>6, <2>1 DEF JoinCompare, Types, Places, scopeVars, nodeVars, histVars
<1>7. CASE SpuriousWake(w)
  <2>1. pc' \in [Workers -> Places]
    BY <1>0, <1>7, HelpersTyped DEF SpuriousWake
  <2>. QED BY <1>7, <2>1 DEF SpuriousWake, Types, Places, scopeVars, nodeVars, histVars
<1>. QED BY <1>1, <1>2, <1>3, <1>4, <1>5, <1>6, <1>7

LEMMA OwnerTyped ==
  ASSUME ScopeAssumption, Types, Control, NEW w \in Workers,
         Rethrow(w) \/ Reset(w) \/ Destroy(w)
  PROVE  Types'
<1>1. CASE Rethrow(w)
  <2>1. Body(w) \in Bodies /\ Call(w).arg \in Scopes
    BY <1>1, InCall DEF Rethrow, WaitPlaces
  <2>2. "user" \in Places
    BY DEF Places, LivePlaces
  <2>3. pc' \in [Workers -> Places] /\ at' \in [Bodies -> Nat \ {0}]
    BY <1>1, <2>2, HelpersTyped DEF Rethrow
  <2>4. nodes' \in [Scopes -> Seq(Children)] /\ refs' \in [Children -> Int]
    <3>. PICK s \in Scopes : s = Call(w).arg
      BY <2>1
    <3>1. DropNodes(s) \/ UNCHANGED <<nodes, refs>>
      BY <1>1 DEF Rethrow
    <3>2. CASE DropNodes(s)
      BY <3>2, HelpersTyped
    <3>3. CASE UNCHANGED <<nodes, refs>>
      BY <3>3 DEF Types
    <3>. QED BY <3>1, <3>2, <3>3
  <2>5. join' \in [Bodies -> JoinType]
    <3>1. NoJoin \in JoinType
      <4>1. <<>> \in Seq(Children)
        OBVIOUS
      <4>. QED BY <4>1 DEF NoJoin, JoinType
    <3>. QED BY <1>1, <3>1 DEF Rethrow, Types
  <2>. QED BY <1>1, <2>3, <2>4, <2>5 DEF Rethrow, Types, Places, histVars
<1>2. CASE Reset(w)
  <2>1. Call(w).arg \in Scopes
    BY <1>2, CallTyped DEF Reset, In
  <2>2. at' \in [Bodies -> Nat \ {0}]
    BY <1>2, HelpersTyped DEF Reset
  <2>3. nodes' \in [Scopes -> Seq(Children)] /\ refs' \in [Children -> Int]
    BY <1>2, <2>1, HelpersTyped DEF Reset
  <2>4. /\ exception' \in [Scopes -> Children \cup {None}] /\ closed' \in [Scopes -> BOOLEAN]
        /\ given' \subseteq Children /\ done' \subseteq given' /\ aborted' \in BOOLEAN
    BY <1>2 DEF Reset, Types
  <2>. QED BY <1>2, <2>2, <2>3, <2>4 DEF Reset, Types
<1>3. CASE Destroy(w)
  <2>1. Call(w).arg \in Scopes
    BY <1>3, CallTyped DEF Destroy, In
  <2>2. at' \in [Bodies -> Nat \ {0}]
    BY <1>3, HelpersTyped DEF Destroy
  <2>3. nodes' \in [Scopes -> Seq(Children)] /\ refs' \in [Children -> Int]
    BY <1>3, <2>1, HelpersTyped DEF Destroy
  <2>4. destroyed' \subseteq Scopes /\ aborted' \in BOOLEAN
    BY <1>3, <2>1 DEF Destroy, Types
  <2>. QED BY <1>3, <2>2, <2>3, <2>4 DEF Destroy, Types
<1>. QED BY <1>1, <1>2, <1>3

-----------------------------------------------------------------------------
(* Every step keeps the stacks, and moves one body.                        *)

\* Body b goes to place l, the others stay.
Goes(b, l) == /\ \A c \in Bodies : c # b => Stays(c)
              /\ PlaceIs(b, l)'

\* Nobody returns from a child, counts it or leaves it.
EndsSame == \A v \in Workers : /\ pc'[v] = "complete"  <=> pc[v] = "complete"
                               /\ pc'[v] = "completed" <=> pc[v] = "completed"
                               /\ pc[v] \in EndPlaces => Body(v)' = Body(v)

LEMMA TopAtNext ==
  (Types /\ StackOnce)' => (\A w \in Workers : stack[w] # <<>> => PlaceIs(Body(w), pc[w]))'
BY TopAt, PTL

LEMMA MoveStep ==
  ASSUME StackInv, Types', NEW w \in Workers, stack[w] # <<>>, Moves(w),
         NEW b \in Bodies, b = Body(w), NEW l, l = pc'[w],
         \A c \in Bodies : c # b => at'[c] = at[c],
         \A v \in Workers \ {w} : slot'[v] = slot[v],
         Fits(b, l)',
         slot'[w] = IF l \in EndPlaces THEN Top(w).slot ELSE OwnSlot(b)
  PROVE  StackInv' /\ Goes(b, l)
<1>1. Body(w)' = b /\ stack'[w] # <<>>
  BY DEF Moves, Body, Top
<1>2. Fits(Body(w), pc[w])'
  BY <1>1
<1>3. Control' /\ StackOnce'
  BY <1>2, MoveControl DEF StackInv
<1>4. PlaceIs(b, l)'
  <2>1. (\A v \in Workers : stack[v] # <<>> => PlaceIs(Body(v), pc[v]))'
    BY <1>3, TopAtNext
  <2>2. PlaceIs(Body(w), pc[w])'
    BY <2>1, <1>1
  <2>. QED BY <2>2, <1>1
<1>. QED BY <1>3, <1>4, MoveStays DEF StackInv, Goes

\* A move between places outside the end of a child.
LEMMA PlainMove ==
  ASSUME StackInv, Types', NEW w \in Workers, stack[w] # <<>>, Moves(w),
         NEW b \in Bodies, b = Body(w), NEW l, l = pc'[w],
         pc[w] \notin EndPlaces, l \notin EndPlaces,
         \A c \in Bodies : c # b => at'[c] = at[c],
         slot' = slot, Fits(b, l)'
  PROVE  StackInv' /\ Goes(b, l) /\ EndsSame
<1>1. slot'[w] = OwnSlot(b)
  BY DEF StackInv, Control, WorkerOK
<1>2. EndsSame
  BY DEF EndsSame, Moves, Others, EndPlaces, Body, Top
<1>. QED BY <1>1, <1>2, MoveStep

LEMMA StackStutter ==
  ASSUME StackInv, Types', UNCHANGED <<pc, stack, slot, at>>
  PROVE  StackInv' /\ EndsSame /\ \A b \in Bodies : Stays(b)
<1>1. Control' /\ StackOnce'
  BY DEF StackInv, Control, StackOnce, WorkerOK, FrameOK, Fits, Calling, CallOf, OwnSlot, Place,
         Body, Top
<1>2. EndsSame
  BY DEF EndsSame, Body, Top
<1>3. \A b \in Bodies : Stays(b)
  BY DEF Stays, InRun, InScan, InJoin, AtEnd, Live, OnStack, IsAt, Place
<1>. QED BY <1>1, <1>2, <1>3 DEF StackInv

LEMMA PushStep ==
  ASSUME ScopeAssumption, StackInv, Types', NEW w \in Workers, NEW n \in Children,
         Push(w, n), ~OnStack(n), pc[w] \in {"idle", "submit", "scan"}, at' = at
  PROVE  StackInv' /\ Goes(n, "user") /\ EndsSame
<1>1. Pushes(w, n) /\ slot' = [slot EXCEPT ![w] = ScopeOf[n]]
  BY PushTyped DEF StackInv, Push
<1>2. Control' /\ StackOnce'
  BY <1>1, PushControl DEF StackInv
<1>3. stack'[w] # <<>> /\ pc'[w] = "user" /\ \A v \in Workers : v # w => stack'[v] = stack[v] /\ pc'[v] = pc[v]
  BY <1>1, PushFrames DEF StackInv
<1>4. Body(w)' = n
  <2>1. /\ Len(stack'[w]) = Len(stack[w]) + 1
        /\ stack'[w][Len(stack[w]) + 1].body = n
    BY <1>1, PushFrames DEF StackInv
  <2>. QED BY <2>1 DEF Body, Top
<1>5. PlaceIs(n, "user")'
  <2>1. (\A v \in Workers : stack[v] # <<>> => PlaceIs(Body(v), pc[v]))'
    BY <1>2, TopAtNext
  <2>2. PlaceIs(Body(w), pc[w])'
    BY <2>1, <1>3
  <2>. QED BY <2>2, <1>3, <1>4
<1>6. \A c \in Bodies : c # n => Stays(c)
  BY <1>1, PushStays DEF StackInv
<1>7. EndsSame
  BY <1>3 DEF EndsSame, EndPlaces, Body, Top
<1>. QED BY <1>2, <1>5, <1>6, <1>7 DEF StackInv, Goes

LEMMA RunStack ==
  ASSUME ScopeAssumption, StackInv, NEW w \in Workers, NEW b \in Bodies, b = Body(w),
         Run(w) \/ WakeJoiner(w)
  PROVE  /\ StackInv' /\ EndsSame
         /\ \E l \in RunPlaces : Goes(b, l)
<1>1. Types' /\ Types /\ Control
  BY RunTyped DEF StackInv
<1>2. stack[w] # <<>> /\ Calling(b) /\ CallOf(b).op = "run"
  BY <1>1, CallTyped DEF Run, WakeJoiner, In
<1>3. pc[w] \notin EndPlaces
  BY DEF Run, WakeJoiner, In, EndPlaces
<1>4. Moves(w) /\ pc'[w] \in RunPlaces
  BY <1>1 DEF Run, WakeJoiner, In, Moves, Others, Goto, NotifyGoto, Woken, Types, RunPlaces
<1>5. slot' = slot /\ at' = at
  BY DEF Run, WakeJoiner
<1>. PICK l \in RunPlaces : l = pc'[w]
  BY <1>4
<1>6. l \notin EndPlaces
  BY DEF RunPlaces, EndPlaces
<1>7. Fits(b, l)'
  BY <1>2, <1>5, <1>6 DEF Fits, RunPlaces, ScanPlaces, WaitPlaces, Calling, CallOf
<1>. QED BY <1>1, <1>2, <1>3, <1>4, <1>5, <1>6, <1>7, PlainMove

LEMMA SubmitStack ==
  ASSUME ScopeAssumption, StackInv, NEW w \in Workers, NEW b \in Bodies, b = Body(w),
         Submit(w) \/ Rethrow(w) \/ Reset(w) \/ Destroy(w)
  PROVE  /\ StackInv' /\ EndsSame /\ Goes(b, "user")
         /\ at' = [at EXCEPT ![b] = @ + 1]
<1>1. Types' /\ Types /\ Control
  BY RunTyped, OwnerTyped DEF StackInv
<1>2. stack[w] # <<>>
  <2>1. CASE Rethrow(w)
    BY <1>1, <2>1, InCall DEF Rethrow, WaitPlaces
  <2>2. CASE ~Rethrow(w)
    BY <1>1, <2>2, CallTyped DEF Submit, Reset, Destroy, In
  <2>. QED BY <2>1, <2>2
<1>3. pc[w] \notin EndPlaces
  BY DEF Submit, Rethrow, Reset, Destroy, In, EndPlaces
<1>4. Moves(w) /\ pc'[w] = "user"
  <2>1. CASE Submit(w) \/ Rethrow(w)
    BY <1>1, <2>1 DEF Submit, Rethrow, In, Moves, Others, Goto, Types
  <2>2. CASE Reset(w) \/ Destroy(w)
    BY <1>1, <2>2 DEF Reset, Destroy, In, Moves, Others
  <2>. QED BY <2>1, <2>2
<1>5. slot' = slot /\ at' = [at EXCEPT ![b] = @ + 1]
  BY DEF Submit, Rethrow, Reset, Destroy, Advance
<1>6. \A c \in Bodies : c # b => at'[c] = at[c]
  BY <1>1, <1>5 DEF Types
<1>7. Fits(b, "user")'
  BY DEF Fits, RunPlaces, ScanPlaces, WaitPlaces, EndPlaces
<1>8. "user" \notin EndPlaces
  BY DEF EndPlaces
<1>. QED BY <1>1, <1>2, <1>3, <1>4, <1>5, <1>6, <1>7, <1>8, PlainMove

LEMMA JoinStack ==
  ASSUME ScopeAssumption, StackInv, NEW w \in Workers, NEW b \in Bodies, b = Body(w),
         \/ JoinCall(w) \/ JoinTake(w) \/ JoinRelease(w) \/ JoinLoad(w) \/ JoinCompare(w)
         \/ SpuriousWake(w)
  PROVE  /\ StackInv' /\ EndsSame
         /\ \E l \in ScanPlaces \cup WaitPlaces :
              Goes(b, l) /\ (l = "rethrow" => JoinLoad(w) /\ outstanding[CallOf(b).arg] = 0)
<1>1. Types' /\ Types /\ Control
  BY JoinsTyped DEF StackInv
<1>2. stack[w] # <<>> /\ Calling(b) /\ CallOf(b).op \in {"join", "block"} /\ Call(w) = CallOf(b)
  <2>1. CASE JoinCall(w)
    BY <1>1, <2>1, CallTyped DEF JoinCall, Joins
  <2>2. CASE ~JoinCall(w)
    <3>1. pc[w] \in ScanPlaces \cup WaitPlaces
      BY <2>2 DEF JoinTake, JoinRelease, JoinLoad, JoinCompare, SpuriousWake, In, ScanPlaces,
                  WaitPlaces
    <3>. QED BY <1>1, <3>1, InCall DEF HasCall, Calling
  <2>. QED BY <2>1, <2>2
<1>3. pc[w] \notin EndPlaces
  BY DEF JoinCall, JoinTake, JoinRelease, JoinLoad, JoinCompare, SpuriousWake, In, EndPlaces
<1>4. /\ Moves(w) /\ pc'[w] \in ScanPlaces \cup WaitPlaces
      /\ pc'[w] = "rethrow" => JoinLoad(w) /\ outstanding[CallOf(b).arg] = 0
  <2>1. CASE JoinCall(w) \/ JoinTake(w) \/ JoinRelease(w)
    BY <1>1, <2>1 DEF JoinCall, JoinTake, JoinRelease, In, Moves, Others, Goto, Types, ScanPlaces,
                      WaitPlaces
  <2>2. CASE JoinLoad(w)
    BY <1>1, <1>2, <2>2 DEF JoinLoad, Moves, Others, Goto, Types, ScanPlaces, WaitPlaces
  <2>3. CASE JoinCompare(w) \/ SpuriousWake(w)
    BY <1>1, <2>3 DEF JoinCompare, SpuriousWake, Moves, Others, Goto, Types, ScanPlaces, WaitPlaces
  <2>. QED BY <2>1, <2>2, <2>3
<1>5. slot' = slot /\ at' = at
  BY DEF JoinCall, JoinTake, JoinRelease, JoinLoad, JoinCompare, SpuriousWake
<1>. PICK l \in ScanPlaces \cup WaitPlaces : l = pc'[w]
  BY <1>4
<1>6. l \notin EndPlaces
  BY DEF ScanPlaces, WaitPlaces, EndPlaces
<1>7. Fits(b, l)'
  BY <1>2, <1>5, <1>6 DEF Fits, RunPlaces, ScanPlaces, WaitPlaces, Calling, CallOf
<1>. QED BY <1>1, <1>2, <1>3, <1>4, <1>5, <1>6, <1>7, PlainMove

\* What a worker that returns from a child, discounts it or leaves it changes.
LEMMA EndStack ==
  ASSUME ScopeAssumption, StackInv, RunsGiven, CountInv, NEW w \in Workers,
         NEW b \in Bodies, b = Body(w), Return(w) \/ Complete(w)
  PROVE  /\ StackInv'
         /\ Return(w) /\ b = Root => Goes(b, "idle") /\ EndsSame
         /\ Return(w) /\ b # Root =>
              /\ Goes(b, "complete") /\ pc'[w] = "complete"
              /\ stack' = stack /\ \A v \in Workers \ {w} : pc'[v] = pc[v]
         /\ Complete(w) =>
              /\ Goes(b, "completed") /\ pc'[w] = "completed"
              /\ stack' = stack /\ \A v \in Workers \ {w} : pc'[v] = pc[v]
<1>1. Types' /\ Types /\ Control
  BY ExecutionTyped DEF StackInv
<1>2. CASE Return(w) /\ b = Root
  <2>1. /\ pc[w] = "user" /\ stack[w] # <<>> /\ stack' = [stack EXCEPT ![w] = <<>>]
        /\ pc' = [pc EXCEPT ![w] = "idle"] /\ slot' = slot /\ at' = at
    BY <1>2 DEF Return, Goto
  <2>2. /\ Control' /\ StackOnce'
        /\ \A c \in Bodies : IF c = Root THEN PlaceIs(c, "idle")' ELSE Stays(c)
    BY <1>2, <2>1, RootControl DEF StackInv
  <2>3. EndsSame
    BY <1>1, <2>1 DEF EndsSame, Types, EndPlaces, Body, Top
  <2>. QED BY <1>1, <1>2, <2>2, <2>3 DEF StackInv, Goes, Complete, Return
<1>3. CASE Return(w) /\ b # Root
  <2>1. /\ pc[w] = "user" /\ stack[w] # <<>> /\ stack' = stack /\ ~Calling(b)
        /\ pc' = [pc EXCEPT ![w] = "complete"] /\ slot' = [slot EXCEPT ![w] = Top(w).slot]
        /\ at' = at
    BY <1>3 DEF Return, Goto, RestoreSlot, HasCall, Calling
  <2>2. Moves(w) /\ pc'[w] = "complete" /\ \A v \in Workers \ {w} : pc'[v] = pc[v] /\ slot'[v] = slot[v]
    BY <1>1, <2>1 DEF Moves, Others, Types
  <2>3. Fits(b, "complete")' /\ "complete" \in EndPlaces
    BY <1>3, <2>1 DEF Fits, RunPlaces, ScanPlaces, WaitPlaces, EndPlaces, Calling
  <2>4. slot'[w] = Top(w).slot
    BY <1>1, <2>1 DEF Types
  <2>5. StackInv' /\ Goes(b, "complete")
    BY <1>1, <2>1, <2>2, <2>3, <2>4, MoveStep
  <2>. QED BY <1>3, <2>1, <2>2, <2>5 DEF Complete, Return
<1>4. CASE Complete(w)
  <2>1. /\ pc[w] = "complete" /\ stack' = stack /\ pc' = [pc EXCEPT ![w] = "completed"]
        /\ slot' = slot /\ at' = at
    BY <1>4 DEF Complete, Goto
  <2>2. stack[w] # <<>> /\ b # Root /\ ~Calling(b)
    BY <1>1, <2>1, EndTyped DEF EndPlaces
  <2>3. Moves(w) /\ pc'[w] = "completed" /\ \A v \in Workers \ {w} : pc'[v] = pc[v]
    BY <1>1, <2>1 DEF Moves, Others, Types
  <2>4. Fits(b, "completed")' /\ "completed" \in EndPlaces
    BY <2>1, <2>2 DEF Fits, RunPlaces, ScanPlaces, WaitPlaces, EndPlaces, Calling
  <2>5. slot'[w] = Top(w).slot
    BY <2>1, <2>2 DEF StackInv, Control, WorkerOK, EndPlaces
  <2>6. StackInv' /\ Goes(b, "completed")
    BY <1>1, <2>1, <2>2, <2>3, <2>4, <2>5, MoveStep
  <2>. QED BY <1>4, <2>1, <2>3, <2>6 DEF Complete, Return
<1>. QED BY <1>2, <1>3, <1>4

LEMMA CompletedPops ==
  ASSUME Types, NEW w \in Workers, Completed(w)
  PROVE  Pops(w)
<1>1. stack' = [stack EXCEPT ![w] = SubSeq(@, 1, Len(@) - 1)]
  BY DEF Completed
<1>2. \/ NotifyGoto(w, ScopeOf[Body(w)], Top(w).back)
      \/ Goto(w, Top(w).back)
  BY DEF Completed
<1>3. pc'[w] = Top(w).back /\ Others(w)
  BY <1>2 DEF NotifyGoto, Goto, Others, Woken, Types
<1>. QED BY <1>1, <1>3 DEF Pops

LEMMA CompletedStack ==
  ASSUME ScopeAssumption, StackInv, RunsGiven, CountInv, NEW w \in Workers,
         NEW b \in Bodies, b = Body(w), Completed(w)
  PROVE  /\ StackInv' /\ Goes(b, "idle")
         /\ \A v \in Workers : pc'[v] = "complete" <=> pc[v] = "complete"
         /\ \A v \in Workers : pc'[v] = "completed" <=> pc[v] = "completed" /\ v # w
         /\ \A v \in Workers \ {w} : pc[v] \in EndPlaces => Body(v)' = Body(v)
<1>1. Types' /\ Types /\ Control
  BY ExecutionTyped DEF StackInv
<1>2. /\ pc[w] = "completed" /\ Body(w) \in Children /\ stack[w] # <<>>
      /\ Top(w) \in FrameType
  BY <1>1, EndTyped, TopTyped DEF Completed, EndPlaces
<1>3. Pops(w)
  BY <1>1, CompletedPops
<1>4. at' = at /\ slot' = slot
  BY DEF Completed
<1>5. Control' /\ StackOnce'
  BY <1>2, <1>3, <1>4, PopControl DEF StackInv
<1>6. Goes(b, "idle")
  BY <1>2, <1>3, PopStays DEF StackInv, Goes
<1>7. pc'[w] \in {"idle", "submit", "scan"}
  BY <1>2, <1>3 DEF Pops, FrameType
<1>8. \A v \in Workers \ {w} : /\ stack'[v] = stack[v]
                               /\ pc'[v] = pc[v] \/ (pc[v] = "parked" /\ pc'[v] = "compare")
  BY <1>2, <1>3, PopFrames DEF StackInv, Pops, Others
<1>. QED BY <1>1, <1>2, <1>5, <1>6, <1>7, <1>8 DEF StackInv, EndPlaces, Body, Top

-----------------------------------------------------------------------------
(* What a step keeps of the invariants on children and scopes when it      *)
(* leaves their variables alone.                                           *)

\* The places that matter to the invariants are kept.
AllStay == \A b \in Bodies : Stays(b)

LEMMA FreshKept ==
  ASSUME ScopeAssumption, Fresh, at' = at,
         \A n \in Children : Known(n)' => Known(n),
         \A b \in Bodies : InRun(b) => InRun(b)'
  PROVE  Fresh'
<1>. SUFFICES ASSUME NEW b \in Bodies, NEW i \in DOMAIN Script[b], Script[b][i].op = "run",
                     i > at'[b] \/ (i = at'[b] /\ ~InRun(b)')
              PROVE  ~Known(Script[b][i].arg)'
  BY DEF Fresh
<1>1. i > at[b] \/ (i = at[b] /\ ~InRun(b))
  OBVIOUS
<1>2. ~Known(Script[b][i].arg)
  BY <1>1 DEF Fresh
<1>3. Script[b][i].arg \in Children
  BY ScriptTyped
<1>. PICK n \in Children : n = Script[b][i].arg
  BY <1>3
<1>4. ~Known(n)'
  BY <1>2
<1>. QED BY <1>4

LEMMA RunsKept ==
  ASSUME RunsGiven, given' = given, done' = done, \A n \in Children : claimed[n] => claimed'[n],
         Children \subseteq Bodies, done \subseteq Children,
         \A b \in Bodies : (OnStack(b)' => OnStack(b)) /\ (Live(b)' => Live(b)),
         \A v \in Workers : pc'[v] = "complete" => pc[v] = "complete" /\ Body(v)' = Body(v)
  PROVE  RunsGiven'
<1>1. \A n \in Children : (OnStack(n)' => claimed'[n]) /\ (Live(n)' => n \in given' \ done')
  BY DEF RunsGiven
<1>2. \A n \in done' : claimed'[n]
  BY DEF RunsGiven
<1>3. \A w \in Workers : pc'[w] = "complete" => Body(w)' \in done'
  BY DEF RunsGiven
<1>. QED BY <1>1, <1>2, <1>3 DEF RunsGiven

LEMMA CountKept ==
  ASSUME CountInv, outstanding' = outstanding,
         \A s \in Scopes : Of(s, given' \ done') = Of(s, given \ done),
         \A v \in Workers : /\ pc'[v] = "complete" <=> pc[v] = "complete"
                            /\ pc[v] = "complete" => Body(v)' = Body(v)
  PROVE  CountInv'
<1>1. ASSUME NEW s \in Scopes PROVE Counted(s)'
  <2>1. Counted(s)
    BY DEF CountInv
  <2>2. Completing(s)' = Completing(s)
    BY DEF Completing
  <2>. QED BY <2>1, <2>2 DEF Counted, Of
<1>. QED BY <1>1 DEF CountInv

LEMMA MutexKept ==
  ASSUME MutexInv, mutex' = mutex,
         \A v \in Workers : /\ pc'[v] = "completed" <=> pc[v] = "completed"
                            /\ pc[v] = "completed" => Body(v)' = Body(v)
  PROVE  MutexInv'
<1>1. ASSUME NEW s \in Scopes, NEW w \in Workers
      PROVE  mutex'[s] = w <=> pc'[w] = "completed" /\ ScopeOf[Body(w)'] = s
  BY DEF MutexInv
<1>. QED BY <1>1 DEF MutexInv

LEMMA ExceptionKept ==
  ASSUME ExceptionInv, exception' = exception, done' = done,
         \A v \in Workers : /\ pc'[v] = "complete" <=> pc[v] = "complete"
                            /\ pc[v] = "complete" => Body(v)' = Body(v)
  PROVE  ExceptionInv'
<1>1. ASSUME NEW s \in Scopes
      PROVE  /\ exception'[s] # None <=> Seen(s)' # {}
             /\ exception'[s] \in Of(s, done') \cup {None}
  <2>1. Seen(s)' = Seen(s)
    BY DEF Seen, Of
  <2>. QED BY <2>1 DEF ExceptionInv
<1>. QED BY <1>1 DEF ExceptionInv, Of

LEMMA DestroyedKept ==
  ASSUME ScopeAssumption, Types, DestroyedInv, destroyed' = destroyed,
         \A s \in destroyed : mutex'[s] = None,
         \A b \in Bodies : at'[b] \in Nat /\ at'[b] >= at[b]
  PROVE  DestroyedInv'
<1>1. ASSUME NEW s \in destroyed, NEW k \in DOMAIN Script[Owner[s]], k >= at'[Owner[s]]
      PROVE  ~Uses(Script[Owner[s]][k], s)
  <2>1. Owner[s] \in Bodies
    BY DEF ScopeAssumption, Types
  <2>2. Script[Owner[s]] \in Seq(Op) /\ at[Owner[s]] \in Nat /\ at'[Owner[s]] \in Nat
    BY <2>1 DEF ScopeAssumption, Types
  <2>3. k \in Nat
    BY <2>2, LenProperties
  <2>4. k >= at[Owner[s]]
    BY <1>1, <2>1, <2>2, <2>3
  <2>. QED BY <2>4 DEF DestroyedInv
<1>. QED BY <1>1 DEF DestroyedInv

LEMMA ClosedKept ==
  ASSUME ScopeAssumption, ClosedInv, at' = at,
         \A s \in Scopes : closed'[s] => closed[s],
         \A b \in Bodies : InJoin(b) => InJoin(b)'
  PROVE  ClosedInv'
<1>1. ASSUME NEW s \in Scopes, closed'[s]
      PROVE  \/ Closed(s, at'[Owner[s]])
             \/ InJoin(Owner[s])' /\ IsJoin(CallOf(Owner[s])', s)
  <2>1. Owner[s] \in Bodies
    BY DEF ScopeAssumption
  <2>. QED BY <1>1, <2>1 DEF ClosedInv, CallOf
<1>. QED BY <1>1 DEF ClosedInv

LEMMA RestKept ==
  ASSUME ScopeAssumption, RestInv, at' = at, destroyed' = destroyed,
         \A s \in Scopes : outstanding[s] = 0 => outstanding'[s] = 0,
         \A b \in Bodies : (InRun(b)' <=> InRun(b)) /\ (AtEnd(b)' => AtEnd(b))
  PROVE  RestInv'
<1>1. ASSUME NEW s \in Scopes, AtRest(s)'
      PROVE  outstanding'[s] = 0
  <2>1. Owner[s] \in Bodies
    BY DEF ScopeAssumption
  <2>2. Giving(s)' <=> Giving(s)
    BY <2>1 DEF Giving, CallOf
  <2>3. Ending(s)' => Ending(s)
    BY <2>1 DEF Ending, CallOf
  <2>4. AtRest(s)
    BY <1>1, <2>2, <2>3 DEF AtRest
  <2>. QED BY <2>4 DEF RestInv
<1>. QED BY <1>1 DEF RestInv

\* The invariants are kept by a step that leaves their variables alone.
LEMMA QuietKept ==
  ASSUME ScopeAssumption, ScopeInv, EndsSame, ListsKnown',
         UNCHANGED <<at, outstanding, exception, mutex, destroyed, given, done, claimed>>,
         \A b \in Bodies : /\ InRun(b)' <=> InRun(b)
                           /\ OnStack(b)' => OnStack(b)
                           /\ Live(b)' => Live(b)
  PROVE  /\ ChildInv' /\ MutexInv' /\ DestroyedInv' /\ ExceptionInv'
         /\ (\A b \in Bodies : AtEnd(b)' => AtEnd(b)) => RestInv'
         /\ closed' = closed /\ (\A b \in Bodies : InJoin(b) => InJoin(b)') => ClosedInv'
<1>. USE DEF ScopeInv, StackInv, ChildInv, RuleInv
<1>1. Fresh'
  <2>1. \A n \in Children : Known(n)' => Known(n)
    BY DEF Known
  <2>. QED BY <2>1, FreshKept
<1>2. RunsGiven'
  <2>1. \A v \in Workers : pc'[v] = "complete" => pc[v] = "complete" /\ Body(v)' = Body(v)
    BY DEF EndsSame, EndPlaces
  <2>2. Children \subseteq Bodies /\ done \subseteq Children
    BY DEF Bodies, Types
  <2>3. \A n \in Children : claimed[n] => claimed'[n]
    OBVIOUS
  <2>. QED BY <2>1, <2>2, <2>3, RunsKept
<1>3. \A v \in Workers : /\ pc'[v] = "complete" <=> pc[v] = "complete"
                         /\ pc'[v] = "completed" <=> pc[v] = "completed"
                         /\ pc[v] = "complete" => Body(v)' = Body(v)
                         /\ pc[v] = "completed" => Body(v)' = Body(v)
  BY DEF EndsSame, EndPlaces
<1>4. CountInv'
  <2>1. \A s \in Scopes : Of(s, given' \ done') = Of(s, given \ done)
    OBVIOUS
  <2>. QED BY <1>3, <2>1, CountKept
<1>5. MutexInv'
  BY <1>3, MutexKept
<1>6. ExceptionInv'
  BY <1>3, ExceptionKept
<1>7. DestroyedInv'
  <2>1. \A s \in destroyed : mutex'[s] = None
    BY DEF DestroyedInv
  <2>2. \A b \in Bodies : at'[b] \in Nat /\ at'[b] >= at[b]
    BY DEF Types
  <2>. QED BY <2>1, <2>2, DestroyedKept
<1>8. ASSUME \A b \in Bodies : AtEnd(b)' => AtEnd(b)
      PROVE  RestInv'
  <2>1. \A s \in Scopes : outstanding[s] = 0 => outstanding'[s] = 0
    OBVIOUS
  <2>. QED BY <1>8, <2>1, RestKept
<1>9. ASSUME closed' = closed, \A b \in Bodies : InJoin(b) => InJoin(b)'
      PROVE  ClosedInv'
  BY <1>9, ClosedKept
<1>. QED BY <1>1, <1>2, <1>4, <1>5, <1>6, <1>7, <1>8, <1>9

-----------------------------------------------------------------------------
(* The steps.                                                              *)

\* A node that is listed stays known.
LEMMA ListsKept ==
  ASSUME ListsKnown, at' = at, \A n : Known(n) => Known(n)',
         \A b \in Bodies : InRun(b)' => InRun(b),
         \A g \in Groups : queue'[g] \subseteq queue[g],
         \A s \in Scopes : Members(nodes'[s]) \subseteq Members(nodes[s]),
         \A b \in Bodies : \A n \in Members(join'[b].list) \cup Members(join'[b].todo) : Known(n)
  PROVE  ListsKnown'
<1>1. \A b \in Bodies : InRun(b)' => Known(CallOf(b).arg)'
  <2>1. \A b \in Bodies : CallOf(b)' = CallOf(b)
    BY DEF CallOf
  <2>2. ASSUME NEW b \in Bodies, InRun(b)' PROVE Known(CallOf(b).arg)'
    <3>. PICK n : n = CallOf(b).arg
      OBVIOUS
    <3>1. Known(n)
      BY <2>2 DEF ListsKnown
    <3>2. Known(n)'
      BY <3>1
    <3>. QED BY <3>2, <2>1 DEF Known
  <2>. QED BY <2>2
<1>2. \A g \in Groups : \A n \in queue'[g] : Known(n)'
  BY DEF ListsKnown
<1>3. \A s \in Scopes : \A n \in Members(nodes'[s]) : Known(n)'
  BY DEF ListsKnown
<1>4. \A b \in Bodies : \A n \in Members(join'[b].list) \cup Members(join'[b].todo) : Known(n)'
  OBVIOUS
<1>. QED BY <1>1, <1>2, <1>3, <1>4 DEF ListsKnown, Members

LEMMA WakeJoinerKeeps ==
  ASSUME ScopeAssumption, ScopeInv, NEW w \in Workers, WakeJoiner(w)
  PROVE  ScopeInv'
<1>1. Types /\ Control /\ stack[w] # <<>> /\ pc[w] = "wake_joiner"
  BY CallTyped DEF ScopeInv, StackInv, WakeJoiner, In
<1>. PICK b \in Bodies : b = Body(w)
  BY <1>1, TopTyped
<1>2. StackInv' /\ EndsSame /\ \E l \in RunPlaces : Goes(b, l)
  BY RunStack DEF ScopeInv
<1>3. PlaceIs(b, "wake_joiner")
  BY <1>1, TopAt DEF ScopeInv, StackInv
<1>4. AllStay
  BY <1>2, <1>3 DEF Goes, AllStay, Stays, PlaceIs, RunPlaces, ScanPlaces, WaitPlaces, LivePlaces, EndPlaces
<1>5. UNCHANGED <<at, outstanding, exception, mutex, destroyed, given, done, claimed, closed,
                  queue, nodes, join, aborted>>
  BY DEF WakeJoiner, scopeVars, nodeVars, histVars
<1>6. ListsKnown'
  <2>1. \A n : Known(n) => Known(n)'
    BY <1>5 DEF Known
  <2>2. \A c \in Bodies : \A n \in Members(join'[c].list) \cup Members(join'[c].todo) : Known(n)
    BY <1>5 DEF ScopeInv, ChildInv, ListsKnown
  <2>. QED BY <1>4, <1>5, <2>1, <2>2, ListsKept DEF ScopeInv, ChildInv, AllStay, Stays
<1>7. ChildInv' /\ RuleInv'
  <2>1. NeverAborts'
    BY <1>5 DEF ScopeInv, RuleInv, NeverAborts
  <2>. QED BY <1>2, <1>4, <1>5, <1>6, <2>1, QuietKept DEF AllStay, Stays, RuleInv
<1>. QED BY <1>2, <1>7 DEF ScopeInv

\* The rules for the owner of scope s.
LEMMA RulesOf ==
  ASSUME ScopeAssumption, NEW s \in Scopes
  PROVE  /\ Owner[s] \in Bodies
         /\ Owner[s] \in Children => ScopeOf[Owner[s]] # s
         /\ \A i \in DOMAIN Script[Owner[s]] :
              /\ Gives(Script[Owner[s]][i], s) => ~Closed(s, i)
              /\ IsEnd(Script[Owner[s]][i], s) => Settled(s, i)
              /\ Script[Owner[s]][i] = [op |-> "destroy", arg |-> s] =>
                   \A k \in DOMAIN Script[Owner[s]] : k > i => ~Uses(Script[Owner[s]][k], s)
<1>1. Owner[s] \in Bodies
  BY DEF ScopeAssumption
<1>2. LexicalAssumption
  BY DEF ScopeAssumption
<1>. QED BY <1>1, <1>2 DEF LexicalAssumption

\* A join is called by the owner of the scope, and so are reset and the destructor.
LEMMA OwnersCall ==
  ASSUME ScopeAssumption, NEW b \in Bodies, NEW i \in DOMAIN Script[b], NEW s \in Scopes,
         IsJoin(Script[b][i], s) \/ IsEnd(Script[b][i], s)
  PROVE  b = Owner[s]
BY DEF ScopeAssumption, LexicalAssumption

LEMMA JoinsKeep ==
  ASSUME ScopeAssumption, ScopeInv, NEW w \in Workers,
         \/ JoinCall(w) \/ JoinTake(w) \/ JoinRelease(w) \/ JoinLoad(w) \/ JoinCompare(w)
         \/ SpuriousWake(w)
  PROVE  ScopeInv'
<1>1. Types /\ Control /\ StackOnce
  BY DEF ScopeInv, StackInv
<1>2. /\ stack[w] # <<>> /\ pc[w] \in {"user"} \cup ScanPlaces \cup WaitPlaces
      /\ Call(w).op \in {"join", "block"} /\ Call(w).arg \in Scopes
      /\ Body(w) \in Bodies /\ at[Body(w)] \in DOMAIN Script[Body(w)]
      /\ Call(w) = Script[Body(w)][at[Body(w)]]
  <2>1. CASE JoinCall(w)
    BY <1>1, <2>1, CallTyped DEF JoinCall, Joins, Call
  <2>2. CASE ~JoinCall(w)
    <3>1. pc[w] \in ScanPlaces \cup WaitPlaces
      BY <2>2 DEF JoinTake, JoinRelease, JoinLoad, JoinCompare, SpuriousWake, In, ScanPlaces,
                  WaitPlaces
    <3>. QED BY <1>1, <3>1, InCall DEF Call
  <2>. QED BY <2>1, <2>2
<1>. PICK b \in Bodies : b = Body(w)
  BY <1>2
<1>. PICK s \in Scopes : s = Call(w).arg
  BY <1>2
<1>3. /\ StackInv' /\ EndsSame
      /\ \E l \in ScanPlaces \cup WaitPlaces :
           Goes(b, l) /\ (l = "rethrow" => JoinLoad(w) /\ outstanding[CallOf(b).arg] = 0)
  BY JoinStack DEF ScopeInv
<1>. PICK l \in ScanPlaces \cup WaitPlaces :
       Goes(b, l) /\ (l = "rethrow" => JoinLoad(w) /\ outstanding[CallOf(b).arg] = 0)
  BY <1>3
<1>4. PlaceIs(b, pc[w]) /\ PlaceIs(b, l)' /\ \A c \in Bodies : c # b => Stays(c)
  BY <1>1, <1>2, TopAt DEF Goes
<1>5. /\ ~InRun(b) /\ OnStack(b) /\ Live(b)
      /\ ~InRun(b)' /\ OnStack(b)' /\ Live(b)' /\ InJoin(b)'
      /\ AtEnd(b)' <=> l = "rethrow"
  BY <1>2, <1>4 DEF PlaceIs, RunPlaces, ScanPlaces, WaitPlaces, LivePlaces, EndPlaces
<1>6. \A c \in Bodies : /\ InRun(c)' <=> InRun(c)
                        /\ OnStack(c)' => OnStack(c)
                        /\ Live(c)' => Live(c)
                        /\ InJoin(c) => InJoin(c)'
  BY <1>4, <1>5 DEF Stays
<1>7. UNCHANGED <<at, outstanding, exception, mutex, destroyed, given, done, claimed, queue>>
  BY DEF JoinCall, JoinTake, JoinRelease, JoinLoad, JoinCompare, SpuriousWake, scopeVars, nodeVars,
         histVars
<1>8. ListsKnown'
  <2>1. \A n : Known(n) => Known(n)'
    BY <1>7 DEF Known
  <2>2. \A t \in Scopes : Members(nodes'[t]) \subseteq Members(nodes[t])
    <3>1. CASE JoinTake(w)
      BY <1>1, <3>1 DEF JoinTake, Types, Members
    <3>2. CASE ~JoinTake(w)
      BY <3>2 DEF JoinCall, JoinRelease, JoinLoad, JoinCompare, SpuriousWake, scopeVars
    <3>. QED BY <3>1, <3>2
  <2>3. \A c \in Bodies : \A n \in Members(join'[c].list) \cup Members(join'[c].todo) : Known(n)
    <3>1. CASE JoinTake(w)
      <4>1. join' = [join EXCEPT ![b] = [NoJoin EXCEPT !.list = nodes[s], !.todo = nodes[s], !.had = nodes[s] # <<>>]]
        BY <3>1 DEF JoinTake
      <4>2. join'[b].list = nodes[s] /\ join'[b].todo = nodes[s] /\ \A c \in Bodies : c # b => join'[c] = join[c]
        BY <1>1, <4>1 DEF Types, NoJoin
      <4>. QED BY <4>2 DEF ScopeInv, ChildInv, ListsKnown
    <3>2. CASE JoinRelease(w)
      <4>1. join' = [join EXCEPT ![b].list = <<>>]
        BY <3>2 DEF JoinRelease
      <4>2. join'[b].list = <<>> /\ join'[b].todo = join[b].todo /\ \A c \in Bodies : c # b => join'[c] = join[c]
        BY <1>1, <4>1 DEF Types, JoinType
      <4>3. Members(<<>>) = {}
        BY DEF Members
      <4>. QED BY <4>2, <4>3 DEF ScopeInv, ChildInv, ListsKnown
    <3>3. CASE JoinLoad(w)
      <4>. PICK k \in Nat : k = outstanding[s]
        BY <1>1 DEF Types
      <4>1. join' = join \/ join' = [join EXCEPT ![b] = [join[b] EXCEPT !.count = k]]
        BY <1>1, <3>3 DEF JoinLoad, Types
      <4>2. /\ [join[b] EXCEPT !.count = k].list = join[b].list
            /\ [join[b] EXCEPT !.count = k].todo = join[b].todo
        BY <1>1 DEF Types, JoinType
      <4>3. \A c \in Bodies : join'[c].list = join[c].list /\ join'[c].todo = join[c].todo
        BY <1>1, <4>1, <4>2 DEF Types
      <4>. QED BY <4>3 DEF ScopeInv, ChildInv, ListsKnown
    <3>4. CASE join' = join
      BY <3>4 DEF ScopeInv, ChildInv, ListsKnown
    <3>. QED BY <3>1, <3>2, <3>3, <3>4 DEF JoinCall, JoinCompare, SpuriousWake
  <2>. QED BY <1>6, <1>7, <2>1, <2>2, <2>3, ListsKept DEF ScopeInv, ChildInv
<1>9. ChildInv' /\ MutexInv' /\ DestroyedInv' /\ ExceptionInv'
  BY <1>3, <1>6, <1>7, <1>8, QuietKept
<1>10. RestInv'
  <2>1. ASSUME NEW t \in Scopes, AtRest(t)' PROVE outstanding'[t] = 0
    <3>1. Owner[t] \in Bodies
      BY DEF ScopeAssumption
    <3>2. Giving(t)' <=> Giving(t)
      BY <1>6, <1>7, <3>1 DEF Giving, CallOf
    <3>3. CASE ~Ending(t)'
      BY <1>7, <2>1, <3>2, <3>3 DEF AtRest, ScopeInv, RuleInv, RestInv
    <3>4. CASE Ending(t)' /\ Owner[t] # b
      <4>1. Ending(t)
        BY <1>4, <1>7, <3>1, <3>4 DEF Ending, Stays, CallOf
      <4>. QED BY <1>7, <4>1 DEF AtRest, ScopeInv, RuleInv, RestInv
    <3>5. CASE Ending(t)' /\ Owner[t] = b
      <4>1. l = "rethrow" /\ CallOf(b).arg = t
        BY <1>5, <1>7, <3>5 DEF Ending, CallOf
      <4>. QED BY <1>7, <4>1
    <3>. QED BY <3>3, <3>4, <3>5
  <2>. QED BY <2>1 DEF RestInv
<1>11. ClosedInv' /\ NeverAborts'
  <2>1. CASE JoinCall(w)
    <3>1. IsJoin(CallOf(b), s) /\ CallOf(b) = Script[b][at[b]]
      BY <1>2 DEF IsJoin, CallOf
    <3>2. b = Owner[s]
      BY <1>2, <3>1, OwnersCall
    <3>3. ASSUME NEW t \in Scopes, closed'[t]
          PROVE  \/ Closed(t, at'[Owner[t]])
                 \/ InJoin(Owner[t])' /\ IsJoin(CallOf(Owner[t])', t)
      <4>1. CASE t = s
        BY <1>5, <1>7, <3>1, <3>2, <4>1 DEF CallOf
      <4>2. CASE t # s
        <5>1. closed[t] /\ Owner[t] \in Bodies
          BY <1>1, <2>1, <3>3, <4>2 DEF JoinCall, Types, ScopeAssumption
        <5>. QED BY <1>6, <1>7, <5>1 DEF ScopeInv, RuleInv, ClosedInv, CallOf
      <4>. QED BY <4>1, <4>2
    <3>4. slot[w] # s
      <4>1. slot[w] = OwnSlot(b)
        <5>1. WorkerOK(w) /\ pc[w] = "user"
          BY <1>1, <2>1 DEF Control, JoinCall
        <5>. QED BY <1>2, <5>1 DEF WorkerOK, EndPlaces
      <4>2. b \in Children => ScopeOf[b] # s
        BY <3>2, RulesOf
      <4>3. None # s
        BY DEF ScopeAssumption
      <4>. QED BY <4>1, <4>2, <4>3 DEF OwnSlot, Bodies
    <3>5. aborted' = aborted
      BY <1>1, <2>1, <3>4 DEF JoinCall, Types
    <3>. QED BY <3>3, <3>5 DEF ClosedInv, NeverAborts, ScopeInv, RuleInv
  <2>2. CASE ~JoinCall(w)
    <3>1. closed' = closed /\ aborted' = aborted
      BY <2>2 DEF JoinTake, JoinRelease, JoinLoad, JoinCompare, SpuriousWake, scopeVars, histVars
    <3>2. ClosedInv'
      BY <1>3, <1>6, <1>7, <1>8, <3>1, QuietKept
    <3>. QED BY <3>1, <3>2 DEF ScopeInv, RuleInv, NeverAborts
  <2>. QED BY <2>1, <2>2
<1>. QED BY <1>3, <1>9, <1>10, <1>11 DEF ScopeInv, RuleInv

LEMMA RunKeeps ==
  ASSUME ScopeAssumption, ScopeInv, NEW w \in Workers, Run(w)
  PROVE  ScopeInv'
<1>1. Types /\ Control /\ StackOnce /\ CountInv /\ RunsGiven
  BY DEF ScopeInv, StackInv, ChildInv
<1>2. HasCall(w) /\ Call(w).op = "run" /\ pc[w] = "user"
  BY DEF Run, In
<1>3. /\ stack[w] # <<>> /\ Body(w) \in Bodies /\ Call(w).arg \in Children
      /\ at[Body(w)] \in DOMAIN Script[Body(w)] /\ Call(w) = CallOf(Body(w))
      /\ Call(w) \in Op
  BY <1>1, <1>2, CallTyped
<1>. PICK b \in Bodies : b = Body(w)
  BY <1>3
<1>. PICK n \in Children : n = Call(w).arg
  BY <1>3
<1>. PICK s \in Scopes : s = ScopeOf[n]
  BY DEF ScopeAssumption
<1>4. /\ mutex[s] = None
      /\ aborted' = (aborted \/ (closed[s] /\ slot[w] # s))
      /\ nodes' = [nodes EXCEPT ![s] = <<n>> \o @]
      /\ outstanding' = [outstanding EXCEPT ![s] = @ + 1]
      /\ given' = given \cup {n}
      /\ UNCHANGED <<closed, exception, mutex, claimed, queue, at, slot, join, done, destroyed>>
  BY DEF Run
<1>5. StackInv' /\ EndsSame /\ \E l \in RunPlaces : Goes(b, l)
  BY RunStack DEF ScopeInv
<1>6. PlaceIs(b, "user") /\ (\E l \in RunPlaces : PlaceIs(b, l)') /\ \A c \in Bodies : c # b => Stays(c)
  BY <1>1, <1>2, <1>3, <1>5, TopAt DEF Goes
<1>7. /\ ~InRun(b) /\ ~InJoin(b) /\ ~AtEnd(b) /\ Live(b) /\ OnStack(b)
      /\ InRun(b)' /\ ~InJoin(b)' /\ ~AtEnd(b)' /\ Live(b)' /\ OnStack(b)'
  BY <1>6 DEF PlaceIs, RunPlaces, ScanPlaces, WaitPlaces, LivePlaces, EndPlaces
<1>8. CallOf(b) = Script[b][at[b]] /\ CallOf(b).op = "run" /\ CallOf(b).arg = n /\ Gives(CallOf(b), s)
  BY <1>2, <1>3 DEF CallOf, Gives
\* The call has not given n before.
<1>9. n \notin given /\ ~claimed[n] /\ n \notin done
  <2>1. ~Known(n)
    BY <1>3, <1>7, <1>8 DEF ScopeInv, ChildInv, Fresh
  <2>. QED BY <1>1, <2>1 DEF Known, Types
\* The caller is the owner of the scope, or one of its children, which counts.
<1>10. b = Owner[s] \/ (b \in Children /\ ScopeOf[b] = s)
  BY <1>3, <1>8 DEF ScopeAssumption, LexicalAssumption
<1>11. b \in Children /\ ScopeOf[b] = s => outstanding[s] # 0
  <2>1. b \in Children /\ ScopeOf[b] = s => b \in Of(s, given \ done)
    BY <1>1, <1>7 DEF RunsGiven, Of
  <2>. QED BY <1>1, <2>1, CountBounds
<1>12. Fresh'
  <2>. SUFFICES ASSUME NEW c \in Bodies, NEW j \in DOMAIN Script[c], Script[c][j].op = "run",
                       j > at[c] \/ (j = at[c] /\ ~InRun(c)')
                PROVE  ~Known(Script[c][j].arg)'
    BY <1>4 DEF Fresh
  <2>1. InRun(c) => InRun(c)'
    BY <1>6, <1>7 DEF Stays
  <2>2. ~Known(Script[c][j].arg)
    BY <2>1 DEF ScopeInv, ChildInv, Fresh
  <2>3. Script[c][j].arg # n
    <3>1. SUFFICES ASSUME Script[c][j].arg = n PROVE FALSE
      OBVIOUS
    <3>2. Script[c][j] = Script[b][at[b]]
      BY <1>3, <1>8, <3>1, ScriptTyped DEF Op
    <3>3. c = b /\ j = at[b]
      BY <1>3, <1>8, <3>2 DEF ScopeAssumption
    <3>4. at[b] \in Nat
      BY <1>1 DEF Types
    <3>. QED BY <1>7, <3>3, <3>4
  <2>. PICK m : m = Script[c][j].arg
    OBVIOUS
  <2>4. ~Known(m)'
    BY <1>4, <2>2, <2>3 DEF Known
  <2>. QED BY <2>4
<1>13. \A m : Known(m) => Known(m)'
  BY <1>4 DEF Known
<1>14. ListsKnown'
  <2>1. ASSUME NEW c \in Bodies, InRun(c)' PROVE Known(CallOf(c).arg)'
    <3>0. CallOf(c)' = CallOf(c)
      BY <1>4 DEF CallOf
    <3>1. CASE c = b
      BY <1>4, <1>8, <3>0, <3>1 DEF Known
    <3>2. CASE c # b
      <4>. PICK m : m = CallOf(c).arg
        OBVIOUS
      <4>1. Known(m)
        BY <1>6, <2>1, <3>2 DEF Stays, ScopeInv, ChildInv, ListsKnown
      <4>2. Known(m)'
        BY <1>13, <4>1
      <4>. QED BY <3>0, <4>2 DEF Known
    <3>. QED BY <3>1, <3>2
  <2>2. \A g \in Groups : \A m \in queue'[g] : Known(m)'
    BY <1>4, <1>13 DEF ScopeInv, ChildInv, ListsKnown
  <2>3. ASSUME NEW t \in Scopes, NEW m \in Members(nodes'[t]) PROVE Known(m)'
    <3>1. CASE t # s
      BY <1>1, <1>4, <1>13, <2>3, <3>1 DEF Types, ScopeInv, ChildInv, ListsKnown
    <3>2. CASE t = s
      <4>1. nodes[s] \in Seq(Children) /\ nodes'[s] = <<n>> \o nodes[s]
        BY <1>1, <1>4 DEF Types
      <4>2. m = n \/ m \in Members(nodes[s])
        BY <2>3, <3>2, <4>1 DEF Members
      <4>3. Known(n)'
        BY <1>4 DEF Known
      <4>. QED BY <1>13, <4>2, <4>3 DEF ScopeInv, ChildInv, ListsKnown
    <3>. QED BY <3>1, <3>2
  <2>4. \A c \in Bodies : \A m \in Members(join'[c].list) \cup Members(join'[c].todo) : Known(m)'
    BY <1>4, <1>13 DEF ScopeInv, ChildInv, ListsKnown
  <2>. QED BY <2>1, <2>2, <2>3, <2>4 DEF ListsKnown, Members
<1>15. RunsGiven'
  <2>1. \A m \in Children : /\ OnStack(m)' => OnStack(m)
                            /\ Live(m)' => Live(m)
    BY <1>6, <1>7 DEF Stays, Bodies
  <2>2. \A v \in Workers : pc'[v] = "complete" => pc[v] = "complete" /\ Body(v)' = Body(v)
    BY <1>5 DEF EndsSame, EndPlaces
  <2>. QED BY <1>1, <1>4, <2>1, <2>2 DEF RunsGiven
<1>16. CountInv'
  <2>1. ASSUME NEW t \in Scopes PROVE Counted(t)'
    <3>1. Completing(t)' = Completing(t)
      BY <1>5 DEF EndsSame, EndPlaces, Completing
    <3>2. /\ IsFiniteSet(Of(t, given \ done)) /\ Cardinality(Of(t, given \ done)) \in Nat
          /\ Cardinality(Completing(t)) \in Nat
          /\ outstanding[t] = Cardinality(Of(t, given \ done)) + Cardinality(Completing(t))
      BY <1>1, CountBounds
    <3>3. CASE t = s
      <4>1. Of(s, given' \ done') = Of(s, given \ done) \cup {n} /\ n \notin Of(s, given \ done)
        BY <1>4, <1>9 DEF Of
      <4>2. Cardinality(Of(s, given' \ done')) = Cardinality(Of(s, given \ done)) + 1
        BY <3>2, <3>3, <4>1, FS_AddElement
      <4>3. outstanding'[s] = outstanding[s] + 1
        BY <1>1, <1>4 DEF Types
      <4>. QED BY <3>1, <3>2, <3>3, <4>2, <4>3 DEF Counted, Of
    <3>4. CASE t # s
      <4>1. Of(t, given' \ done') = Of(t, given \ done)
        BY <1>4, <3>4 DEF Of
      <4>2. outstanding'[t] = outstanding[t]
        BY <1>1, <1>4, <3>4 DEF Types
      <4>. QED BY <3>1, <3>2, <4>1, <4>2 DEF Counted, Of
    <3>. QED BY <3>3, <3>4
  <2>. QED BY <2>1 DEF CountInv
<1>17. MutexInv' /\ ExceptionInv'
  <2>1. \A v \in Workers : /\ pc'[v] = "complete" <=> pc[v] = "complete"
                           /\ pc'[v] = "completed" <=> pc[v] = "completed"
                           /\ pc[v] = "complete" => Body(v)' = Body(v)
                           /\ pc[v] = "completed" => Body(v)' = Body(v)
    BY <1>5 DEF EndsSame, EndPlaces
  <2>. QED BY <1>4, <2>1, MutexKept, ExceptionKept DEF ScopeInv, RuleInv
<1>18. DestroyedInv'
  <2>1. \A t \in destroyed : mutex'[t] = None
    BY <1>4 DEF ScopeInv, RuleInv, DestroyedInv
  <2>2. \A c \in Bodies : at'[c] \in Nat /\ at'[c] >= at[c]
    BY <1>1, <1>4 DEF Types
  <2>. QED BY <1>1, <1>4, <2>1, <2>2, DestroyedKept DEF ScopeInv, RuleInv
<1>19. ClosedInv' /\ NeverAborts'
  <2>1. ClosedInv'
    BY <1>4, <1>6, <1>7, ClosedKept DEF Stays, ScopeInv, RuleInv
  <2>2. ~(closed[s] /\ slot[w] # s)
    <3>1. SUFFICES ASSUME closed[s], slot[w] # s PROVE FALSE
      OBVIOUS
    <3>2. slot[w] = OwnSlot(b)
      <4>1. WorkerOK(w)
        BY <1>1 DEF Control
      <4>. QED BY <1>2, <1>3, <4>1 DEF WorkerOK, EndPlaces
    <3>3. b = Owner[s]
      <4>1. Root \notin Children
        BY DEF ScopeAssumption
      <4>. QED BY <1>10, <3>1, <3>2, <4>1 DEF OwnSlot
    <3>4. Closed(s, at[b])
      BY <1>7, <3>1, <3>3 DEF ScopeInv, RuleInv, ClosedInv
    <3>. QED BY <1>3, <1>8, <3>3, <3>4, RulesOf
  <2>. QED BY <1>4, <2>1, <2>2 DEF NeverAborts, ScopeInv, RuleInv
<1>20. RestInv'
  <2>1. ASSUME NEW t \in Scopes, AtRest(t)' PROVE outstanding'[t] = 0
    <3>1. Owner[t] \in Bodies
      BY DEF ScopeAssumption
    <3>2. Ending(t)' => Ending(t)
      BY <1>4, <1>6, <1>7, <3>1 DEF Ending, Stays, CallOf
    <3>3. CASE t # s
      <4>1. Giving(t) => Giving(t)'
        BY <1>4, <1>6, <1>7, <3>1 DEF Giving, Stays, CallOf
      <4>2. Giving(t)' => Giving(t)
        <5>1. Owner[t] = b => ~Gives(CallOf(b), t)
          BY <1>8, <3>3 DEF Gives
        <5>. QED BY <1>4, <1>6, <3>1, <5>1 DEF Giving, Stays, CallOf
      <4>3. AtRest(t)
        BY <1>4, <2>1, <3>2, <4>1, <4>2 DEF AtRest
      <4>4. outstanding'[t] = outstanding[t]
        BY <1>1, <1>4, <3>3 DEF Types
      <4>. QED BY <4>3, <4>4 DEF ScopeInv, RuleInv, RestInv
    <3>4. CASE t = s /\ b = Owner[s]
      <4>1. Giving(s)' /\ ~Ending(s)'
        BY <1>4, <1>7, <1>8, <3>4 DEF Giving, Ending, CallOf
      <4>2. s \notin destroyed
        <5>1. at[b] >= at[b]
          BY <1>1 DEF Types
        <5>. QED BY <1>3, <1>8, <3>4, <5>1 DEF ScopeInv, RuleInv, DestroyedInv, Uses
      <4>. QED BY <1>4, <2>1, <3>4, <4>1, <4>2 DEF AtRest
    <3>5. CASE t = s /\ b # Owner[s]
      <4>1. Giving(s)' <=> Giving(s)
        BY <1>4, <1>6, <3>1, <3>5 DEF Giving, Stays, CallOf
      <4>2. AtRest(s)
        BY <1>4, <2>1, <3>2, <3>5, <4>1 DEF AtRest
      <4>3. outstanding[s] = 0
        BY <4>2 DEF ScopeInv, RuleInv, RestInv
      <4>. QED BY <1>10, <1>11, <3>5, <4>3
    <3>. QED BY <3>3, <3>4, <3>5
  <2>. QED BY <2>1 DEF RestInv
<1>. QED BY <1>5, <1>12, <1>14, <1>15, <1>16, <1>17, <1>18, <1>19, <1>20 DEF ScopeInv, ChildInv, RuleInv

\* What the call at i does to whether the scope is settled, and closed.
LEMMA SettledStep ==
  ASSUME NEW s \in Scopes, NEW i \in Nat \ {0}, Settled(s, i + 1)
  PROVE  \/ IsJoin(Script[Owner[s]][i], s)
         \/ Settled(s, i) /\ ~Gives(Script[Owner[s]][i], s)
<1>1. PICK j \in 0 .. i : /\ j = 0 \/ IsJoin(Script[Owner[s]][j], s)
                          /\ \A k \in (j + 1) .. i : ~Gives(Script[Owner[s]][k], s)
  BY DEF Settled
<1>2. CASE j = i
  BY <1>1, <1>2
<1>3. CASE j # i
  <2>1. j \in 0 .. (i - 1) /\ i \in (j + 1) .. i /\ (j + 1) .. (i - 1) \subseteq (j + 1) .. i
    BY <1>3
  <2>2. ~Gives(Script[Owner[s]][i], s)
    BY <1>1, <2>1
  <2>3. Settled(s, i)
    BY <1>1, <2>1 DEF Settled
  <2>. QED BY <2>2, <2>3
<1>. QED BY <1>2, <1>3

LEMMA ClosedStep ==
  ASSUME NEW s \in Scopes, NEW i \in Nat \ {0},
         \/ IsJoin(Script[Owner[s]][i], s)
         \/ Closed(s, i) /\ ~IsReset(Script[Owner[s]][i], s)
  PROVE  Closed(s, i + 1)
<1>1. CASE IsJoin(Script[Owner[s]][i], s)
  <2>1. i \in 1 .. ((i + 1) - 1) /\ (i + 1) .. ((i + 1) - 1) = {}
    OBVIOUS
  <2>. QED BY <1>1, <2>1 DEF Closed
<1>2. CASE Closed(s, i) /\ ~IsReset(Script[Owner[s]][i], s)
  <2>1. PICK j \in 1 .. (i - 1) : /\ IsJoin(Script[Owner[s]][j], s)
                                  /\ \A k \in (j + 1) .. (i - 1) : ~IsReset(Script[Owner[s]][k], s)
    BY <1>2 DEF Closed
  <2>2. j \in 1 .. ((i + 1) - 1) /\ \A k \in (j + 1) .. ((i + 1) - 1) : k \in (j + 1) .. (i - 1) \/ k = i
    OBVIOUS
  <2>. QED BY <1>2, <2>1, <2>2 DEF Closed
<1>. QED BY <1>1, <1>2

\* What a body that is through with its call keeps.
LEMMA AdvanceKeeps ==
  ASSUME ScopeAssumption, ScopeInv, NEW b \in Bodies, at[b] \in DOMAIN Script[b],
         at' = [at EXCEPT ![b] = @ + 1], Goes(b, "user"), outstanding' = outstanding,
         \A n \in Children : Known(n)' => Known(n),
         \A t \in Scopes : /\ closed'[t] => closed[t] /\ ~IsReset(CallOf(b), t)
                           /\ t \in destroyed' => t \in destroyed \/ outstanding[t] = 0
                           /\ Owner[t] = b /\ IsJoin(CallOf(b), t) => outstanding[t] = 0
  PROVE  Fresh' /\ ClosedInv' /\ RestInv'
<1>1. Types
  BY DEF ScopeInv, StackInv
<1>2. at'[b] = at[b] + 1 /\ at[b] \in Nat \ {0} /\ \A c \in Bodies : c # b => at'[c] = at[c]
  BY <1>1 DEF Types
<1>3. /\ ~InRun(b)' /\ ~InJoin(b)' /\ ~AtEnd(b)'
      /\ \A c \in Bodies : c # b => Stays(c)
  BY DEF Goes, PlaceIs, RunPlaces, ScanPlaces, WaitPlaces
<1>4. Fresh'
  <2>. SUFFICES ASSUME NEW c \in Bodies, NEW j \in DOMAIN Script[c], Script[c][j].op = "run",
                       j > at'[c] \/ (j = at'[c] /\ ~InRun(c)')
                PROVE  ~Known(Script[c][j].arg)'
    BY DEF Fresh
  <2>1. j > at[c] \/ (j = at[c] /\ ~InRun(c))
    <3>1. CASE c = b
      <4>1. j \in Nat
        BY LenProperties DEF ScopeAssumption
      <4>. QED BY <1>2, <3>1, <4>1
    <3>2. CASE c # b
      BY <1>2, <1>3, <3>2 DEF Stays
    <3>. QED BY <3>1, <3>2
  <2>. PICK n \in Children : n = Script[c][j].arg
    BY ScriptTyped
  <2>2. ~Known(n)
    BY <2>1 DEF ScopeInv, ChildInv, Fresh
  <2>3. ~Known(n)'
    BY <2>2
  <2>. QED BY <2>3
<1>5. ASSUME NEW t \in Scopes, closed'[t]
      PROVE  \/ Closed(t, at'[Owner[t]])
             \/ InJoin(Owner[t])' /\ IsJoin(CallOf(Owner[t])', t)
  <2>1. Owner[t] \in Bodies /\ closed[t]
    BY <1>5 DEF ScopeAssumption
  <2>2. CASE Owner[t] = b
    <3>1. ~IsReset(CallOf(b), t)
      BY <1>5
    <3>2. Closed(t, at[b]) \/ IsJoin(CallOf(b), t)
      BY <2>1, <2>2 DEF ScopeInv, RuleInv, ClosedInv
    <3>3. Closed(t, at[b] + 1)
      BY <1>2, <2>2, <3>1, <3>2, ClosedStep DEF CallOf
    <3>. QED BY <1>2, <2>2, <3>3
  <2>3. CASE Owner[t] # b
    BY <1>2, <1>3, <2>1, <2>3 DEF ScopeInv, RuleInv, ClosedInv, Stays, CallOf
  <2>. QED BY <2>2, <2>3
<1>6. ASSUME NEW t \in Scopes, AtRest(t)'
      PROVE  outstanding'[t] = 0
  <2>1. Owner[t] \in Bodies
    BY DEF ScopeAssumption
  <2>2. SUFFICES ASSUME t \notin destroyed' PROVE outstanding[t] = 0
    BY DEF ScopeInv, RuleInv, RestInv, AtRest
  <2>3. CASE Owner[t] = b
    <3>1. Settled(t, at[b] + 1)
      BY <1>2, <1>3, <1>6, <2>2, <2>3 DEF AtRest, Ending
    <3>2. \/ IsJoin(CallOf(b), t)
          \/ Settled(t, at[b]) /\ ~Gives(CallOf(b), t)
      BY <1>2, <2>3, <3>1, SettledStep DEF CallOf
    <3>3. CASE IsJoin(CallOf(b), t)
      BY <2>3, <3>3
    <3>4. CASE Settled(t, at[b]) /\ ~Gives(CallOf(b), t)
      BY <2>3, <3>4 DEF ScopeInv, RuleInv, RestInv, AtRest, Giving
    <3>. QED BY <3>2, <3>3, <3>4
  <2>4. CASE Owner[t] # b
    <3>1. at'[Owner[t]] = at[Owner[t]] /\ CallOf(Owner[t])' = CallOf(Owner[t]) /\ Stays(Owner[t])
      BY <1>2, <1>3, <2>1, <2>4 DEF CallOf
    <3>2. Giving(t) <=> Giving(t)'
      BY <3>1 DEF Giving, Stays
    <3>3. Ending(t) <=> Ending(t)'
      BY <3>1 DEF Ending, Stays
    <3>4. AtRest(t)
      BY <1>6, <2>2, <3>1, <3>2, <3>3 DEF AtRest
    <3>. QED BY <3>4 DEF ScopeInv, RuleInv, RestInv
  <2>. QED BY <2>3, <2>4
<1>7. ClosedInv'
  BY <1>5 DEF ClosedInv
<1>8. RestInv'
  BY <1>6 DEF RestInv
<1>. QED BY <1>4, <1>7, <1>8

LEMMA SubmitKeeps ==
  ASSUME ScopeAssumption, ScopeInv, NEW w \in Workers, Submit(w)
  PROVE  ScopeInv'
<1>1. Types /\ Control /\ StackOnce
  BY DEF ScopeInv, StackInv
<1>2. HasCall(w) /\ Call(w).op = "run" /\ pc[w] = "submit"
  BY DEF Submit, In
<1>3. /\ stack[w] # <<>> /\ Body(w) \in Bodies /\ Call(w).arg \in Children
      /\ at[Body(w)] \in DOMAIN Script[Body(w)] /\ Call(w) = CallOf(Body(w))
  BY <1>1, <1>2, CallTyped
<1>. PICK b \in Bodies : b = Body(w)
  BY <1>3
<1>. PICK n \in Children : n = Call(w).arg
  BY <1>3
<1>4. /\ queue' = [queue EXCEPT ![GroupOf[n]] = @ \cup {n}]
      /\ UNCHANGED <<nodes, outstanding, closed, exception, mutex, claimed, join, given, done,
                     destroyed, aborted>>
  BY DEF Submit, scopeVars, histVars
<1>5. StackInv' /\ EndsSame /\ Goes(b, "user") /\ at' = [at EXCEPT ![b] = @ + 1]
  BY SubmitStack DEF ScopeInv
<1>6. PlaceIs(b, "submit") /\ PlaceIs(b, "user")' /\ \A c \in Bodies : c # b => Stays(c)
  BY <1>1, <1>2, <1>3, <1>5, TopAt DEF Goes
<1>7. InRun(b) /\ OnStack(b) /\ Live(b) /\ ~InRun(b)'
  BY <1>6 DEF PlaceIs, RunPlaces, ScanPlaces, WaitPlaces, LivePlaces, EndPlaces
<1>8. \A m : Known(m)' <=> Known(m)
  BY <1>4 DEF Known
<1>9. Fresh' /\ ClosedInv' /\ RestInv'
  <2>1. \A t \in Scopes : ~IsReset(CallOf(b), t) /\ ~IsJoin(CallOf(b), t)
    BY <1>2, <1>3 DEF IsReset, IsJoin
  <2>. QED BY <1>3, <1>4, <1>5, <1>8, <2>1, AdvanceKeeps
<1>10. ListsKnown'
  <2>1. \A c \in Bodies : InRun(c)' => Known(CallOf(c).arg)'
    <3>1. ASSUME NEW c \in Bodies, InRun(c)' PROVE Known(CallOf(c).arg)'
      <4>1. c # b /\ InRun(c)
        BY <1>6, <1>7, <3>1 DEF Stays
      <4>2. CallOf(c)' = CallOf(c)
        BY <1>1, <1>5, <4>1 DEF CallOf, Types
      <4>. PICK m : m = CallOf(c).arg
        OBVIOUS
      <4>3. Known(m)'
        BY <1>8, <4>1 DEF ScopeInv, ChildInv, ListsKnown
      <4>. QED BY <4>2, <4>3 DEF Known
    <3>. QED BY <3>1
  <2>2. ASSUME NEW g \in Groups, NEW m \in queue'[g] PROVE Known(m)'
    <3>1. m \in queue[g] \/ m = n
      BY <1>1, <1>4, <2>2 DEF Types
    <3>2. Known(n)
      BY <1>3, <1>7 DEF ScopeInv, ChildInv, ListsKnown
    <3>. QED BY <1>8, <3>1, <3>2 DEF ScopeInv, ChildInv, ListsKnown
  <2>3. /\ \A t \in Scopes : \A m \in Members(nodes'[t]) : Known(m)'
        /\ \A c \in Bodies : \A m \in Members(join'[c].list) \cup Members(join'[c].todo) : Known(m)'
    BY <1>4, <1>8 DEF ScopeInv, ChildInv, ListsKnown
  <2>. QED BY <2>1, <2>2, <2>3 DEF ListsKnown, Members
<1>11. RunsGiven'
  <2>1. Children \subseteq Bodies /\ done \subseteq Children
    BY <1>1 DEF Types, Bodies
  <2>2. \A c \in Bodies : (OnStack(c)' => OnStack(c)) /\ (Live(c)' => Live(c))
    BY <1>6, <1>7 DEF Stays
  <2>3. \A v \in Workers : pc'[v] = "complete" => pc[v] = "complete" /\ Body(v)' = Body(v)
    BY <1>5 DEF EndsSame, EndPlaces
  <2>4. \A m \in Children : claimed[m] => claimed'[m]
    BY <1>4
  <2>. QED BY <1>4, <2>1, <2>2, <2>3, <2>4, RunsKept DEF ScopeInv, ChildInv
<1>12. CountInv' /\ MutexInv' /\ ExceptionInv'
  <2>1. \A v \in Workers : /\ pc'[v] = "complete" <=> pc[v] = "complete"
                           /\ pc'[v] = "completed" <=> pc[v] = "completed"
                           /\ pc[v] = "complete" => Body(v)' = Body(v)
                           /\ pc[v] = "completed" => Body(v)' = Body(v)
    BY <1>5 DEF EndsSame, EndPlaces
  <2>2. \A s \in Scopes : Of(s, given' \ done') = Of(s, given \ done)
    BY <1>4
  <2>. QED BY <1>4, <2>1, <2>2, CountKept, MutexKept, ExceptionKept DEF ScopeInv, ChildInv, RuleInv
<1>13. DestroyedInv'
  <2>1. \A s \in destroyed : mutex'[s] = None
    BY <1>4 DEF ScopeInv, RuleInv, DestroyedInv
  <2>2. \A c \in Bodies : at'[c] \in Nat /\ at'[c] >= at[c]
    BY <1>1, <1>5 DEF Types
  <2>. QED BY <1>1, <1>4, <2>1, <2>2, DestroyedKept DEF ScopeInv, RuleInv
<1>14. NeverAborts'
  BY <1>4 DEF ScopeInv, RuleInv, NeverAborts
<1>. QED BY <1>5, <1>9, <1>10, <1>11, <1>12, <1>13, <1>14 DEF ScopeInv, ChildInv, RuleInv

\* The owner of a scope leaves a join, resets the scope or destroys it: what all of them keep,
\* and why the count is 0.
LEMMA OwnerKeeps ==
  ASSUME ScopeAssumption, ScopeInv, NEW w \in Workers, Rethrow(w) \/ Reset(w) \/ Destroy(w),
         NEW b \in Bodies, b = Body(w), NEW s \in Scopes, s = Call(w).arg
  PROVE  /\ b = Owner[s] /\ CallOf(b) = Call(w) /\ at[b] \in DOMAIN Script[b]
         /\ outstanding[s] = 0 /\ Of(s, given \ done) = {} /\ Completing(s) = {}
         /\ StackInv' /\ EndsSame /\ at' = [at EXCEPT ![b] = @ + 1]
         /\ \A c \in Bodies : (OnStack(c)' => OnStack(c)) /\ (Live(c)' => Live(c))
         /\ Fresh' /\ ClosedInv' /\ RestInv' /\ ListsKnown' /\ MutexInv'
<1>1. Types /\ Control /\ StackOnce /\ CountInv
  BY DEF ScopeInv, StackInv, ChildInv
<1>2. /\ stack[w] # <<>> /\ at[b] \in DOMAIN Script[b] /\ Call(w) = CallOf(b)
      /\ CallOf(b) = Script[b][at[b]]
  <2>1. CASE Rethrow(w)
    BY <1>1, <2>1, InCall DEF Rethrow, WaitPlaces, CallOf
  <2>2. CASE Reset(w) \/ Destroy(w)
    BY <1>1, <2>2, CallTyped DEF Reset, Destroy, In, CallOf
  <2>. QED BY <2>1, <2>2
<1>3. /\ Rethrow(w) => pc[w] = "rethrow" /\ IsJoin(CallOf(b), s)
      /\ Reset(w) => pc[w] = "user" /\ IsEnd(CallOf(b), s) /\ CallOf(b).op = "reset"
      /\ Destroy(w) => pc[w] = "user" /\ IsEnd(CallOf(b), s) /\ CallOf(b).op = "destroy"
  <2>1. Rethrow(w) => pc[w] = "rethrow" /\ IsJoin(CallOf(b), s)
    <3>1. Rethrow(w) => pc[w] = "rethrow"
      BY DEF Rethrow
    <3>2. pc[w] = "rethrow" => Call(w).op \in {"join", "block"}
      BY <1>1, InCall DEF WaitPlaces
    <3>. QED BY <1>2, <3>1, <3>2 DEF IsJoin
  <2>. QED BY <1>2, <2>1 DEF Reset, Destroy, In, IsEnd
<1>4. b = Owner[s]
  BY <1>2, <1>3, OwnersCall
<1>5. StackInv' /\ EndsSame /\ Goes(b, "user") /\ at' = [at EXCEPT ![b] = @ + 1]
  BY SubmitStack DEF ScopeInv
<1>6. PlaceIs(b, pc[w]) /\ PlaceIs(b, "user")' /\ \A c \in Bodies : c # b => Stays(c)
  BY <1>1, <1>2, <1>5, TopAt DEF Goes
<1>7. /\ ~InRun(b) /\ OnStack(b) /\ Live(b) /\ ~InRun(b)'
      /\ Rethrow(w) => AtEnd(b)
  BY <1>3, <1>6 DEF PlaceIs, RunPlaces, ScanPlaces, WaitPlaces, LivePlaces, EndPlaces
<1>8. outstanding[s] = 0
  <2>1. CASE Rethrow(w)
    BY <1>2, <1>4, <1>7, <2>1 DEF ScopeInv, RuleInv, RestInv, AtRest, Ending
  <2>2. CASE Reset(w) \/ Destroy(w)
    <3>1. Settled(s, at[b])
      BY <1>2, <1>3, <1>4, <2>2, RulesOf
    <3>. QED BY <1>4, <1>7, <3>1 DEF ScopeInv, RuleInv, RestInv, AtRest, Giving
  <2>. QED BY <2>1, <2>2
<1>9. Of(s, given \ done) = {} /\ Completing(s) = {}
  BY <1>1, <1>8, CountBounds
<1>10. outstanding' = outstanding /\ claimed' = claimed /\ queue' = queue /\ mutex' = mutex
  BY DEF Rethrow, Reset, Destroy
<1>11. \A n : Known(n)' <=> Known(n)
  <2>1. CASE Reset(w)
    <3>1. ASSUME NEW n \in given, ScopeOf[n] = s PROVE claimed[n]
      <4>1. n \in done
        BY <1>9, <3>1 DEF Of
      <4>. QED BY <4>1 DEF ScopeInv, ChildInv, RunsGiven
    <3>2. given' = {n \in given : ScopeOf[n] # s}
      BY <2>1 DEF Reset
    <3>. QED BY <1>10, <3>1, <3>2 DEF Known
  <2>2. CASE ~Reset(w)
    BY <1>10, <2>2 DEF Rethrow, Destroy, histVars, Known
  <2>. QED BY <2>1, <2>2
<1>12. Fresh' /\ ClosedInv' /\ RestInv'
  <2>1. ASSUME NEW t \in Scopes
        PROVE  /\ closed'[t] => closed[t] /\ ~IsReset(CallOf(b), t)
               /\ t \in destroyed' => t \in destroyed \/ outstanding[t] = 0
               /\ Owner[t] = b /\ IsJoin(CallOf(b), t) => outstanding[t] = 0
    <3>1. IsJoin(CallOf(b), t) => t = s
      BY <1>2 DEF IsJoin
    <3>2. closed'[t] => closed[t] /\ ~IsReset(CallOf(b), t)
      <4>1. CASE Reset(w)
        <5>1. closed' = [closed EXCEPT ![s] = FALSE]
          BY <4>1 DEF Reset
        <5>. QED BY <1>1, <1>2, <5>1 DEF Types, IsReset
      <4>2. CASE ~Reset(w)
        BY <1>3, <4>2 DEF Rethrow, Destroy, IsReset, IsJoin
      <4>. QED BY <4>1, <4>2
    <3>3. t \in destroyed' => t \in destroyed \/ t = s
      BY DEF Rethrow, Reset, Destroy, histVars
    <3>. QED BY <1>8, <3>1, <3>2, <3>3
  <2>. QED BY <1>2, <1>5, <1>10, <1>11, <2>1, AdvanceKeeps
<1>13. ListsKnown'
  <2>1. \A c \in Bodies : InRun(c)' => Known(CallOf(c).arg)'
    <3>1. ASSUME NEW c \in Bodies, InRun(c)' PROVE Known(CallOf(c).arg)'
      <4>1. c # b /\ InRun(c)
        BY <1>6, <1>7, <3>1 DEF Stays
      <4>2. CallOf(c)' = CallOf(c)
        BY <1>1, <1>5, <4>1 DEF CallOf, Types
      <4>. PICK m : m = CallOf(c).arg
        OBVIOUS
      <4>3. Known(m)'
        BY <1>11, <4>1 DEF ScopeInv, ChildInv, ListsKnown
      <4>. QED BY <4>2, <4>3 DEF Known
    <3>. QED BY <3>1
  <2>2. \A g \in Groups : \A m \in queue'[g] : Known(m)'
    BY <1>10, <1>11 DEF ScopeInv, ChildInv, ListsKnown
  <2>3. ASSUME NEW t \in Scopes, NEW m \in Members(nodes'[t]) PROVE Known(m)'
    <3>1. nodes' = nodes \/ nodes' = [nodes EXCEPT ![s] = <<>>]
      BY DEF Rethrow, Reset, Destroy, DropNodes
    <3>2. m \in Members(nodes[t])
      <4>1. nodes'[t] = nodes[t] \/ nodes'[t] = <<>>
        BY <1>1, <3>1 DEF Types
      <4>2. Members(<<>>) = {}
        BY DEF Members
      <4>. QED BY <2>3, <4>1, <4>2
    <3>. QED BY <1>11, <3>2 DEF ScopeInv, ChildInv, ListsKnown
  <2>4. ASSUME NEW c \in Bodies, NEW m \in Members(join'[c].list) \cup Members(join'[c].todo)
        PROVE  Known(m)'
    <3>1. join' = join \/ join' = [join EXCEPT ![b] = NoJoin]
      BY DEF Rethrow, Reset, Destroy
    <3>2. join'[c] = join[c] \/ join'[c] = NoJoin
      BY <1>1, <3>1 DEF Types
    <3>3. Members(NoJoin.list) \cup Members(NoJoin.todo) = {}
      BY DEF NoJoin, Members
    <3>4. m \in Members(join[c].list) \cup Members(join[c].todo)
      BY <2>4, <3>2, <3>3
    <3>. QED BY <1>11, <3>4 DEF ScopeInv, ChildInv, ListsKnown
  <2>. QED BY <2>1, <2>2, <2>3, <2>4 DEF ListsKnown, Members
<1>14. MutexInv'
  <2>1. \A v \in Workers : /\ pc'[v] = "completed" <=> pc[v] = "completed"
                           /\ pc[v] = "completed" => Body(v)' = Body(v)
    BY <1>5 DEF EndsSame, EndPlaces
  <2>. QED BY <1>10, <2>1, MutexKept DEF ScopeInv, RuleInv
<1>15. \A c \in Bodies : (OnStack(c)' => OnStack(c)) /\ (Live(c)' => Live(c))
  BY <1>6, <1>7 DEF Stays
<1>. QED BY <1>2, <1>4, <1>5, <1>8, <1>9, <1>12, <1>13, <1>14, <1>15

LEMMA RethrowKeeps ==
  ASSUME ScopeAssumption, ScopeInv, NEW w \in Workers, Rethrow(w) \/ Reset(w) \/ Destroy(w)
  PROVE  ScopeInv'
<1>1. Types /\ Control /\ StackOnce /\ CountInv /\ RunsGiven
  BY DEF ScopeInv, StackInv, ChildInv
<1>2. Call(w).arg \in Scopes /\ Body(w) \in Bodies
  <2>1. CASE Rethrow(w)
    BY <1>1, <2>1, InCall DEF Rethrow, WaitPlaces
  <2>2. CASE Reset(w) \/ Destroy(w)
    BY <1>1, <2>2, CallTyped DEF Reset, Destroy, In
  <2>. QED BY <2>1, <2>2
<1>. PICK b \in Bodies : b = Body(w)
  BY <1>2
<1>. PICK s \in Scopes : s = Call(w).arg
  BY <1>2
<1>3. /\ b = Owner[s] /\ CallOf(b) = Call(w) /\ at[b] \in DOMAIN Script[b]
      /\ outstanding[s] = 0 /\ Of(s, given \ done) = {} /\ Completing(s) = {}
      /\ StackInv' /\ EndsSame /\ at' = [at EXCEPT ![b] = @ + 1]
      /\ \A c \in Bodies : (OnStack(c)' => OnStack(c)) /\ (Live(c)' => Live(c))
      /\ Fresh' /\ ClosedInv' /\ RestInv' /\ ListsKnown' /\ MutexInv'
  BY OwnerKeeps
<1>4. outstanding' = outstanding /\ claimed' = claimed /\ queue' = queue /\ mutex' = mutex
  BY DEF Rethrow, Reset, Destroy
<1>5. \A v \in Workers : /\ pc'[v] = "complete" <=> pc[v] = "complete"
                         /\ pc[v] = "complete" => Body(v)' = Body(v)
  BY <1>3 DEF EndsSame, EndPlaces
<1>6. \/ given' = given /\ done' = done
      \/ /\ Reset(w)
         /\ given' = {n \in given : ScopeOf[n] # s} /\ done' = {n \in done : ScopeOf[n] # s}
  BY DEF Rethrow, Reset, Destroy, histVars
<1>7. RunsGiven'
  <2>1. ASSUME NEW n \in Children PROVE (OnStack(n)' => claimed'[n]) /\ (Live(n)' => n \in given' \ done')
    <3>1. OnStack(n)' => claimed'[n]
      BY <1>1, <1>3, <1>4 DEF RunsGiven, Bodies
    <3>2. Live(n)' => n \in given \ done
      BY <1>1, <1>3 DEF RunsGiven, Bodies
    <3>3. n \in given \ done => n \in given' \ done'
      BY <1>3, <1>6 DEF Of
    <3>. QED BY <3>1, <3>2, <3>3
  <2>2. \A n \in done' : claimed'[n]
    BY <1>1, <1>4, <1>6 DEF RunsGiven
  <2>3. ASSUME NEW v \in Workers, pc'[v] = "complete" PROVE Body(v)' \in done'
    <3>1. pc[v] = "complete" /\ Body(v)' = Body(v) /\ Body(v) \in done
      BY <1>1, <1>5, <2>3 DEF RunsGiven
    <3>2. ScopeOf[Body(v)] # s
      BY <1>3, <3>1 DEF Completing
    <3>. QED BY <1>6, <3>1, <3>2
  <2>. QED BY <2>1, <2>2, <2>3 DEF RunsGiven
<1>8. CountInv'
  <2>1. \A t \in Scopes : Of(t, given' \ done') = Of(t, given \ done)
    BY <1>3, <1>6 DEF Of
  <2>. QED BY <1>1, <1>4, <1>5, <2>1, CountKept
<1>9. ExceptionInv'
  <2>1. CASE Reset(w)
    <3>1. exception' = [exception EXCEPT ![s] = None] /\ done' = {n \in done : ScopeOf[n] # s}
      BY <2>1 DEF Reset
    <3>2. ASSUME NEW t \in Scopes
          PROVE  /\ exception'[t] # None <=> Seen(t)' # {}
                 /\ exception'[t] \in Of(t, done') \cup {None}
      <4>1. CASE t = s
        <5>1. exception'[s] = None /\ Of(s, done') = {}
          BY <1>1, <3>1 DEF Types, Of
        <5>2. Seen(s)' = {}
          BY <5>1 DEF Seen, Of
        <5>. QED BY <4>1, <5>1, <5>2
      <4>2. CASE t # s
        <5>1. exception'[t] = exception[t] /\ Of(t, done') = Of(t, done)
          BY <1>1, <3>1, <4>2 DEF Types, Of
        <5>2. Seen(t)' = Seen(t)
          BY <1>5, <5>1 DEF Seen, Of
        <5>. QED BY <5>1, <5>2 DEF ScopeInv, RuleInv, ExceptionInv
      <4>. QED BY <4>1, <4>2
    <3>. QED BY <3>2 DEF ExceptionInv, Of
  <2>2. CASE ~Reset(w)
    <3>1. exception' = exception /\ done' = done
      BY <2>2 DEF Rethrow, Destroy, histVars
    <3>. QED BY <1>5, <3>1, ExceptionKept DEF ScopeInv, RuleInv
  <2>. QED BY <2>1, <2>2
<1>10. DestroyedInv'
  <2>1. \A c \in Bodies : at'[c] \in Nat /\ at'[c] >= at[c]
    BY <1>1, <1>3 DEF Types
  <2>2. CASE ~Destroy(w)
    <3>1. destroyed' = destroyed
      BY <2>2 DEF Rethrow, Reset, histVars
    <3>2. \A t \in destroyed : mutex'[t] = None
      BY <1>4 DEF ScopeInv, RuleInv, DestroyedInv
    <3>. QED BY <1>1, <2>1, <3>1, <3>2, DestroyedKept DEF ScopeInv, RuleInv
  <2>3. CASE Destroy(w)
    <3>1. destroyed' = destroyed \cup {s} /\ mutex[s] = None
      BY <2>3 DEF Destroy
    <3>2. ASSUME NEW t \in Scopes, NEW k \in DOMAIN Script[Owner[t]], k >= at'[Owner[t]],
                 t \in destroyed'
          PROVE  ~Uses(Script[Owner[t]][k], t)
      <4>1. Owner[t] \in Bodies /\ k \in Nat
        BY LenProperties DEF ScopeAssumption
      <4>2. CASE t = s
        <5>1. at'[b] = at[b] + 1 /\ at[b] \in Nat
          BY <1>1, <1>3 DEF Types
        <5>2. k > at[b]
          BY <1>3, <3>2, <4>1, <4>2, <5>1
        <5>3. Script[b][at[b]].op = "destroy" /\ Script[b][at[b]].arg = s
          BY <1>3, <2>3 DEF Destroy, In, CallOf
        <5>4. Script[b][at[b]] \in Op
          BY <1>3, ScriptTyped
        <5>5. Script[b][at[b]] = [op |-> "destroy", arg |-> s]
          BY <5>3, <5>4 DEF Op
        <5>. QED BY <1>3, <4>2, <5>2, <5>5, RulesOf
      <4>3. CASE t # s
        <5>1. t \in destroyed
          BY <3>1, <3>2, <4>3
        <5>2. at[Owner[t]] \in Nat /\ at'[Owner[t]] \in Nat /\ at'[Owner[t]] >= at[Owner[t]]
          BY <1>1, <2>1, <4>1 DEF Types
        <5>3. k >= at[Owner[t]]
          BY <3>2, <4>1, <5>2
        <5>. QED BY <5>1, <5>3 DEF ScopeInv, RuleInv, DestroyedInv
      <4>. QED BY <4>2, <4>3
    <3>3. \A t \in destroyed' : t \in Scopes /\ mutex'[t] = None
      BY <1>1, <1>4, <3>1 DEF ScopeInv, RuleInv, DestroyedInv, Types
    <3>. QED BY <3>2, <3>3 DEF DestroyedInv
  <2>. QED BY <2>2, <2>3
<1>11. NeverAborts'
  <2>1. aborted' = aborted
    BY <1>1, <1>3 DEF Rethrow, Reset, Destroy, histVars, Types
  <2>. QED BY <2>1 DEF ScopeInv, RuleInv, NeverAborts
<1>. QED BY <1>3, <1>7, <1>8, <1>9, <1>10, <1>11 DEF ScopeInv, ChildInv, RuleInv

\* Nobody is at a place when it is on no stack.
LEMMA OffStack ==
  ASSUME NEW b, ~OnStack(b)
  PROVE  ~InRun(b) /\ ~InJoin(b) /\ ~AtEnd(b) /\ ~Live(b)
BY DEF OnStack, InRun, InJoin, AtEnd, Live, IsAt, LivePlaces, EndPlaces, RunPlaces, ScanPlaces,
       WaitPlaces

\* A worker begins to execute child n.
LEMMA PushKeeps ==
  ASSUME ScopeAssumption, ScopeInv, Types', NEW w \in Workers, NEW n \in Children,
         Known(n), ~claimed[n], Push(w, n), pc[w] \in {"idle", "submit", "scan"},
         UNCHANGED <<scopeVars, at, histVars>>,
         \A g \in Groups : queue'[g] \subseteq queue[g],
         \A b \in Bodies : \A m \in Members(join'[b].list) \cup Members(join'[b].todo) : Known(m)
  PROVE  ScopeInv'
<1>1. Types /\ Control /\ StackOnce /\ RunsGiven
  BY DEF ScopeInv, StackInv, ChildInv
<1>2. n \in given \ done /\ ~OnStack(n) /\ n \in Bodies
  BY <1>1 DEF Known, RunsGiven, Bodies
<1>3. StackInv' /\ Goes(n, "user") /\ EndsSame
  BY <1>2, PushStep DEF ScopeInv
<1>4. ~InRun(n) /\ ~InJoin(n) /\ ~AtEnd(n) /\ ~Live(n)
  BY <1>2, OffStack
<1>5. ~InRun(n)' /\ ~InJoin(n)' /\ ~AtEnd(n)' /\ \A c \in Bodies : c # n => Stays(c)
  BY <1>3 DEF Goes, PlaceIs, RunPlaces, ScanPlaces, WaitPlaces
<1>6. /\ \A m \in Children : claimed'[m] <=> claimed[m] \/ m = n
      /\ \A m : m \notin Children => (claimed'[m] <=> claimed[m])
  BY <1>1 DEF Push, Types
<1>7. UNCHANGED <<nodes, outstanding, closed, exception, mutex, given, done, destroyed, aborted, at>>
  BY DEF scopeVars, histVars
<1>8. \A m : Known(m)' <=> Known(m)
  BY <1>2, <1>6, <1>7 DEF Known
<1>9. Fresh'
  <2>1. \A c \in Bodies : InRun(c) => InRun(c)'
    BY <1>4, <1>5 DEF Stays
  <2>. QED BY <1>7, <1>8, <2>1, FreshKept DEF ScopeInv, ChildInv
<1>10. ListsKnown'
  <2>1. \A c \in Bodies : InRun(c)' => InRun(c)
    BY <1>5 DEF Stays
  <2>2. \A t \in Scopes : Members(nodes'[t]) \subseteq Members(nodes[t])
    BY <1>7
  <2>. QED BY <1>7, <1>8, <2>1, <2>2, ListsKept DEF ScopeInv, ChildInv
<1>11. RunsGiven'
  <2>1. ASSUME NEW m \in Children PROVE (OnStack(m)' => claimed'[m]) /\ (Live(m)' => m \in given' \ done')
    <3>1. CASE m = n
      BY <1>2, <1>6, <1>7, <3>1
    <3>2. CASE m # n
      <4>1. (OnStack(m)' => OnStack(m)) /\ (Live(m)' => Live(m))
        BY <1>5, <3>2 DEF Stays, Bodies
      <4>. QED BY <1>1, <1>6, <1>7, <4>1 DEF RunsGiven
    <3>. QED BY <3>1, <3>2
  <2>2. \A m \in done' : claimed'[m]
    BY <1>1, <1>6, <1>7 DEF RunsGiven
  <2>3. \A v \in Workers : pc'[v] = "complete" => Body(v)' \in done'
    BY <1>1, <1>3, <1>7 DEF RunsGiven, EndsSame, EndPlaces
  <2>. QED BY <2>1, <2>2, <2>3 DEF RunsGiven
<1>12. CountInv' /\ MutexInv' /\ ExceptionInv'
  <2>1. \A v \in Workers : /\ pc'[v] = "complete" <=> pc[v] = "complete"
                           /\ pc'[v] = "completed" <=> pc[v] = "completed"
                           /\ pc[v] = "complete" => Body(v)' = Body(v)
                           /\ pc[v] = "completed" => Body(v)' = Body(v)
    BY <1>3 DEF EndsSame, EndPlaces
  <2>2. \A s \in Scopes : Of(s, given' \ done') = Of(s, given \ done)
    BY <1>7
  <2>. QED BY <1>7, <2>1, <2>2, CountKept, MutexKept, ExceptionKept DEF ScopeInv, ChildInv, RuleInv
<1>13. DestroyedInv'
  <2>1. \A s \in destroyed : mutex'[s] = None
    BY <1>7 DEF ScopeInv, RuleInv, DestroyedInv
  <2>2. \A c \in Bodies : at'[c] \in Nat /\ at'[c] >= at[c]
    BY <1>1, <1>7 DEF Types
  <2>. QED BY <1>1, <1>7, <2>1, <2>2, DestroyedKept DEF ScopeInv, RuleInv
<1>14. RestInv'
  <2>1. \A c \in Bodies : (InRun(c)' <=> InRun(c)) /\ (AtEnd(c)' => AtEnd(c))
    BY <1>4, <1>5 DEF Stays
  <2>2. \A s \in Scopes : outstanding[s] = 0 => outstanding'[s] = 0
    BY <1>7
  <2>. QED BY <1>7, <2>1, <2>2, RestKept DEF ScopeInv, RuleInv
<1>15. ClosedInv'
  <2>1. \A c \in Bodies : InJoin(c) => InJoin(c)'
    BY <1>4, <1>5 DEF Stays
  <2>. QED BY <1>7, <2>1, ClosedKept DEF ScopeInv, RuleInv
<1>16. NeverAborts'
  BY <1>7 DEF ScopeInv, RuleInv, NeverAborts
<1>. QED BY <1>3, <1>9, <1>10, <1>11, <1>12, <1>13, <1>14, <1>15, <1>16 DEF ScopeInv, ChildInv, RuleInv

\* A worker passes a node by that somebody has claimed.
LEMMA PassKeeps ==
  ASSUME ScopeAssumption, ScopeInv, Types',
         UNCHANGED <<scopeVars, claimed, pc, stack, slot, at, histVars>>,
         \A g \in Groups : queue'[g] \subseteq queue[g],
         \A b \in Bodies : \A m \in Members(join'[b].list) \cup Members(join'[b].todo) : Known(m)
  PROVE  ScopeInv'
<1>1. StackInv' /\ EndsSame /\ \A b \in Bodies : Stays(b)
  BY StackStutter DEF ScopeInv
<1>2. UNCHANGED <<nodes, outstanding, closed, exception, mutex, given, done, destroyed, aborted, at, claimed>>
  BY DEF scopeVars, histVars
<1>3. ListsKnown'
  <2>1. \A m : Known(m) => Known(m)'
    BY <1>2 DEF Known
  <2>2. \A t \in Scopes : Members(nodes'[t]) \subseteq Members(nodes[t])
    BY <1>2
  <2>. QED BY <1>1, <1>2, <2>1, <2>2, ListsKept DEF ScopeInv, ChildInv, Stays
<1>4. ChildInv' /\ MutexInv' /\ DestroyedInv' /\ ExceptionInv' /\ RestInv' /\ ClosedInv'
  BY <1>1, <1>2, <1>3, QuietKept DEF Stays
<1>5. NeverAborts'
  BY <1>2 DEF ScopeInv, RuleInv, NeverAborts
<1>. QED BY <1>1, <1>4, <1>5 DEF ScopeInv, RuleInv

LEMMA TakeKeeps ==
  ASSUME ScopeAssumption, ScopeInv, NEW w \in Workers, Take(w)
  PROVE  ScopeInv'
<1>1. Types /\ Types'
  BY TakeTyped DEF ScopeInv, StackInv
<1>2. PICK g \in Groups : \E n \in queue[g] :
        /\ queue' = [queue EXCEPT ![g] = @ \ {n}]
        /\ \/ ~claimed[n] /\ Push(w, n) /\ UNCHANGED refs
           \/ claimed[n] /\ Release({n}) /\ UNCHANGED <<claimed, pc, stack, slot>>
  BY DEF Take
<1>3. PICK n \in queue[g] :
        /\ queue' = [queue EXCEPT ![g] = @ \ {n}]
        /\ \/ ~claimed[n] /\ Push(w, n) /\ UNCHANGED refs
           \/ claimed[n] /\ Release({n}) /\ UNCHANGED <<claimed, pc, stack, slot>>
  BY <1>2
<1>4. n \in Children /\ Known(n) /\ \A h \in Groups : queue'[h] \subseteq queue[h]
  BY <1>1, <1>3 DEF Types, ScopeInv, ChildInv, ListsKnown
<1>5. pc[w] \in {"idle", "submit", "scan"} /\ UNCHANGED <<scopeVars, at, join, histVars>>
  BY DEF Take, In
<1>6. \A b \in Bodies : \A m \in Members(join'[b].list) \cup Members(join'[b].todo) : Known(m)
  BY <1>5 DEF ScopeInv, ChildInv, ListsKnown
<1>7. CASE ~claimed[n] /\ Push(w, n)
  BY <1>1, <1>4, <1>5, <1>6, <1>7, PushKeeps
<1>8. CASE UNCHANGED <<claimed, pc, stack, slot>>
  BY <1>1, <1>4, <1>5, <1>6, <1>8, PassKeeps
<1>. QED BY <1>3, <1>7, <1>8

\* A joiner takes the next node of its list.
LEMMA ScanStep ==
  ASSUME ScopeAssumption, ScopeInv, NEW w \in Workers, JoinScan(w)
  PROVE  /\ pc[w] = "scan" /\ Body(w) \in Bodies
         /\ Head(join[Body(w)].todo) \in Members(join[Body(w)].todo)
         /\ Head(join[Body(w)].todo) \in Children
         /\ Known(Head(join[Body(w)].todo))
         /\ \A c \in Bodies : /\ join'[c].list = join[c].list
                              /\ Members(join'[c].todo) \subseteq Members(join[c].todo)
<1>1. Types
  BY DEF ScopeInv, StackInv
<1>2. HasCall(w) /\ pc[w] = "scan" /\ Body(w) \in Bodies
  BY <1>1, CallTyped DEF JoinScan, In
<1>. PICK b \in Bodies : b = Body(w)
  BY <1>2
<1>3. join[b] \in JoinType /\ join[b].todo \in Seq(Children) /\ join[b].todo # <<>>
  BY <1>1 DEF JoinScan, Locals, Types, JoinType
<1>. PICK n \in Children : n = Head(join[b].todo)
  BY <1>3, HeadTailProperties
<1>4. Members(Tail(join[b].todo)) \subseteq Members(join[b].todo) /\ n \in Members(join[b].todo)
  <2>1. DOMAIN join[b].todo = 1 .. Len(join[b].todo) /\ Len(join[b].todo) \in Nat \ {0}
    BY <1>3, LenProperties, EmptySeq
  <2>2. n = join[b].todo[1] /\ 1 \in DOMAIN join[b].todo
    BY <1>3, <2>1
  <2>3. /\ Tail(join[b].todo) \in Seq(Children) /\ Len(Tail(join[b].todo)) = Len(join[b].todo) - 1
        /\ \A i \in 1 .. Len(Tail(join[b].todo)) : Tail(join[b].todo)[i] = join[b].todo[i + 1]
    BY <1>3, HeadTailProperties
  <2>4. \A i \in DOMAIN Tail(join[b].todo) : /\ i + 1 \in DOMAIN join[b].todo
                                             /\ Tail(join[b].todo)[i] = join[b].todo[i + 1]
    BY <2>1, <2>3, LenProperties
  <2>. QED BY <2>2, <2>4 DEF Members
<1>5. Known(n)
  BY <1>4 DEF ScopeInv, ChildInv, ListsKnown
<1>6. join' = [join EXCEPT ![b] = [join[b] EXCEPT !.todo = Tail(join[b].todo)]]
  BY <1>1 DEF JoinScan, Types
<1>7. /\ [join[b] EXCEPT !.todo = Tail(join[b].todo)].list = join[b].list
      /\ [join[b] EXCEPT !.todo = Tail(join[b].todo)].todo = Tail(join[b].todo)
  BY <1>3 DEF JoinType
<1>8. ASSUME NEW c \in Bodies
      PROVE  /\ join'[c].list = join[c].list
             /\ Members(join'[c].todo) \subseteq Members(join[c].todo)
  BY <1>1, <1>4, <1>6, <1>7 DEF Types
<1>. QED BY <1>2, <1>4, <1>5, <1>8

LEMMA JoinScanKeeps ==
  ASSUME ScopeAssumption, ScopeInv, NEW w \in Workers, JoinScan(w)
  PROVE  ScopeInv'
<1>1. Types'
  BY JoinsTyped DEF ScopeInv, StackInv
<1>2. /\ pc[w] = "scan" /\ Body(w) \in Bodies
      /\ Head(join[Body(w)].todo) \in Children /\ Known(Head(join[Body(w)].todo))
      /\ \A c \in Bodies : /\ join'[c].list = join[c].list
                           /\ Members(join'[c].todo) \subseteq Members(join[c].todo)
  BY ScanStep
<1>. PICK n \in Children : n = Head(join[Body(w)].todo)
  BY <1>2
<1>3. /\ UNCHANGED <<scopeVars, at, histVars>> /\ \A g \in Groups : queue'[g] \subseteq queue[g]
      /\ \/ ~claimed[n] /\ Push(w, n)
         \/ UNCHANGED <<claimed, pc, stack, slot>>
  BY DEF JoinScan, Locals
<1>4. \A c \in Bodies : \A m \in Members(join'[c].list) \cup Members(join'[c].todo) : Known(m)
  BY <1>2 DEF ScopeInv, ChildInv, ListsKnown
<1>5. CASE ~claimed[n] /\ Push(w, n)
  BY <1>1, <1>2, <1>3, <1>4, <1>5, PushKeeps
<1>6. CASE UNCHANGED <<claimed, pc, stack, slot>>
  BY <1>1, <1>3, <1>4, <1>6, PassKeeps
<1>. QED BY <1>3, <1>5, <1>6

\* The steps that end a child leave the lists, the calls and the owners alone.
LEMMA EndsQuiet ==
  ASSUME ScopeAssumption, ScopeInv, NEW b \in Bodies, NEW l \in {"idle"} \cup EndPlaces,
         Goes(b, l), ~InRun(b), ~InJoin(b), at' = at,
         UNCHANGED <<nodes, closed, given, claimed, queue, join, destroyed>>,
         \A s \in Scopes : outstanding[s] = 0 => outstanding'[s] = 0,
         \A s \in destroyed : mutex'[s] = None
  PROVE  Fresh' /\ ListsKnown' /\ ClosedInv' /\ RestInv' /\ DestroyedInv'
<1>1. ~InRun(b)' /\ ~InJoin(b)' /\ ~AtEnd(b)' /\ \A c \in Bodies : c # b => Stays(c)
  BY DEF Goes, PlaceIs, RunPlaces, ScanPlaces, WaitPlaces, EndPlaces
<1>2. \A n : Known(n)' <=> Known(n)
  BY DEF Known
<1>3. \A c \in Bodies : /\ InRun(c)' <=> InRun(c)
                        /\ AtEnd(c)' => AtEnd(c)
                        /\ InJoin(c) => InJoin(c)'
  BY <1>1 DEF Stays
<1>4. Fresh'
  BY <1>2, <1>3, FreshKept DEF ScopeInv, ChildInv
<1>5. ListsKnown'
  <2>1. \A c \in Bodies : \A n \in Members(join'[c].list) \cup Members(join'[c].todo) : Known(n)
    BY DEF ScopeInv, ChildInv, ListsKnown
  <2>2. /\ \A g \in Groups : queue'[g] \subseteq queue[g]
        /\ \A s \in Scopes : Members(nodes'[s]) \subseteq Members(nodes[s])
    OBVIOUS
  <2>. QED BY <1>2, <1>3, <2>1, <2>2, ListsKept DEF ScopeInv, ChildInv
<1>6. ClosedInv'
  BY <1>3, ClosedKept DEF ScopeInv, RuleInv
<1>7. RestInv'
  BY <1>3, RestKept DEF ScopeInv, RuleInv
<1>8. DestroyedInv'
  <2>1. \A c \in Bodies : at'[c] \in Nat /\ at'[c] >= at[c]
    BY DEF ScopeInv, StackInv, Types
  <2>. QED BY <2>1, DestroyedKept DEF ScopeInv, StackInv, RuleInv
<1>. QED BY <1>4, <1>5, <1>6, <1>7, <1>8

LEMMA ReturnKeeps ==
  ASSUME ScopeAssumption, ScopeInv, NEW w \in Workers, Return(w)
  PROVE  ScopeInv'
<1>1. Types /\ Control /\ StackOnce /\ RunsGiven /\ CountInv /\ StackInv
  BY DEF ScopeInv, StackInv, ChildInv
<1>2. pc[w] = "user" /\ stack[w] # <<>> /\ Body(w) \in Bodies
  BY <1>1, TopTyped DEF Return
<1>. PICK b \in Bodies : b = Body(w)
  BY <1>2
<1>3. OnStack(b) /\ Live(b) /\ ~InRun(b) /\ ~InJoin(b)
  <2>1. PlaceIs(b, "user")
    BY <1>1, <1>2, TopAt
  <2>. QED BY <2>1 DEF PlaceIs, LivePlaces, RunPlaces, ScanPlaces, WaitPlaces
<1>4. UNCHANGED <<nodes, outstanding, closed, exception, mutex, refs, claimed, queue, at, join,
                  given, destroyed, aborted>>
  BY DEF Return, scopeVars, nodeVars
<1>5. \A s \in destroyed : mutex'[s] = None
  BY <1>4 DEF ScopeInv, RuleInv, DestroyedInv
<1>6. NeverAborts'
  BY <1>4 DEF ScopeInv, RuleInv, NeverAborts
<1>7. CASE b = Root
  <2>1. StackInv' /\ Goes(b, "idle") /\ EndsSame
    BY <1>1, <1>7, EndStack
  <2>2. done' = done
    BY <1>7 DEF Return
  <2>3. ListsKnown'
    BY <1>3, <1>4, <1>5, <2>1, EndsQuiet
  <2>4. \A c \in Bodies : /\ InRun(c)' <=> InRun(c)
                          /\ OnStack(c)' => OnStack(c)
                          /\ Live(c)' => Live(c)
                          /\ AtEnd(c)' => AtEnd(c)
                          /\ InJoin(c) => InJoin(c)'
    BY <1>3, <2>1 DEF Goes, PlaceIs, Stays, RunPlaces, ScanPlaces, WaitPlaces
  <2>5. ChildInv' /\ MutexInv' /\ DestroyedInv' /\ ExceptionInv' /\ RestInv' /\ ClosedInv'
    BY <1>4, <2>1, <2>2, <2>3, <2>4, QuietKept
  <2>. QED BY <1>6, <2>1, <2>5 DEF ScopeInv, RuleInv
<1>8. CASE b # Root
  <2>1. /\ StackInv' /\ Goes(b, "complete") /\ pc'[w] = "complete" /\ stack' = stack
        /\ \A v \in Workers \ {w} : pc'[v] = pc[v]
    BY <1>1, <1>8, EndStack
  <2>2. b \in Children /\ done' = done \cup {b}
    BY <1>8 DEF Return, Bodies
  <2>3. b \in given /\ b \notin done /\ claimed[b]
    BY <1>1, <1>3, <2>2 DEF RunsGiven
  <2>4. \A v \in Workers : /\ Body(v)' = Body(v)
                           /\ pc'[v] = "complete" <=> pc[v] = "complete" \/ v = w
                           /\ pc'[v] = "completed" <=> pc[v] = "completed"
    BY <1>2, <2>1 DEF Body, Top
  <2>5. Fresh' /\ ListsKnown' /\ ClosedInv' /\ RestInv' /\ DestroyedInv'
    BY <1>3, <1>4, <1>5, <2>1, EndsQuiet DEF EndPlaces
  <2>6. RunsGiven'
    <3>1. ASSUME NEW n \in Children
          PROVE  (OnStack(n)' => claimed'[n]) /\ (Live(n)' => n \in given' \ done')
      <4>1. CASE n = b
        <5>1. ~Live(b)'
          BY <2>1 DEF Goes, PlaceIs, LivePlaces, RunPlaces, ScanPlaces, WaitPlaces
        <5>. QED BY <1>4, <2>3, <4>1, <5>1
      <4>2. CASE n # b
        <5>1. (OnStack(n)' => OnStack(n)) /\ (Live(n)' => Live(n))
          BY <2>1, <4>2 DEF Goes, Stays, Bodies
        <5>. QED BY <1>1, <1>4, <2>2, <4>2, <5>1 DEF RunsGiven
      <4>. QED BY <4>1, <4>2
    <3>2. \A n \in done' : claimed'[n]
      BY <1>1, <1>4, <2>2, <2>3 DEF RunsGiven
    <3>3. \A v \in Workers : pc'[v] = "complete" => Body(v)' \in done'
      BY <1>1, <2>2, <2>4 DEF RunsGiven
    <3>. QED BY <3>1, <3>2, <3>3 DEF RunsGiven
  <2>7. CountInv'
    <3>1. ASSUME NEW s \in Scopes PROVE Counted(s)'
      <4>. DEFINE cs == Of(s, given \ done)
                  ws == Completing(s)
      <4>1. /\ IsFiniteSet(cs) /\ IsFiniteSet(ws) /\ Cardinality(cs) \in Nat /\ Cardinality(ws) \in Nat
            /\ outstanding[s] = Cardinality(cs) + Cardinality(ws)
        BY <1>1, CountBounds
      <4>2. CASE ScopeOf[b] = s
        <5>1. Of(s, given' \ done') = cs \ {b} /\ b \in cs
          BY <1>4, <2>2, <2>3, <4>2 DEF Of
        <5>2. Completing(s)' = ws \cup {w} /\ w \notin ws
          BY <1>2, <2>4, <4>2 DEF Completing
        <5>3. /\ Cardinality(cs \ {b}) = Cardinality(cs) - 1
              /\ Cardinality(ws \cup {w}) = Cardinality(ws) + 1
          BY <4>1, <5>1, <5>2, FS_AddElement, FS_RemoveElement
        <5>4. /\ Cardinality(Of(s, given \ done))' = Cardinality(cs) - 1
              /\ Cardinality(Completing(s))' = Cardinality(ws) + 1
          BY <5>1, <5>2, <5>3 DEF Of
        <5>5. outstanding'[s] = (Cardinality(cs) - 1) + (Cardinality(ws) + 1)
          BY <1>4, <4>1
        <5>. QED BY <5>4, <5>5 DEF Counted
      <4>3. CASE ScopeOf[b] # s
        <5>1. Of(s, given \ done)' = cs
          BY <1>4, <2>2, <4>3 DEF Of
        <5>2. Completing(s)' = ws
          BY <2>4, <4>3 DEF Completing
        <5>. QED BY <1>4, <4>1, <5>1, <5>2 DEF Counted
      <4>. QED BY <4>2, <4>3
    <3>. QED BY <3>1 DEF CountInv
  <2>8. MutexInv'
    BY <1>4, <2>4, MutexKept DEF ScopeInv, RuleInv
  <2>9. ExceptionInv'
    <3>1. ASSUME NEW s \in Scopes
          PROVE  /\ exception'[s] # None <=> Seen(s)' # {}
                 /\ exception'[s] \in Of(s, done') \cup {None}
      <4>1. Seen(s)' = Seen(s)
        BY <2>2, <2>3, <2>4 DEF Seen, Of
      <4>2. Of(s, done) \subseteq Of(s, done')
        BY <2>2 DEF Of
      <4>. QED BY <1>4, <4>1, <4>2 DEF ScopeInv, RuleInv, ExceptionInv
    <3>. QED BY <3>1 DEF ExceptionInv, Of
  <2>. QED BY <1>6, <2>1, <2>5, <2>6, <2>7, <2>8, <2>9 DEF ScopeInv, ChildInv, RuleInv
<1>. QED BY <1>7, <1>8

LEMMA CompleteKeeps ==
  ASSUME ScopeAssumption, ScopeInv, NEW w \in Workers, Complete(w)
  PROVE  ScopeInv'
<1>1. Types /\ Control /\ StackOnce /\ RunsGiven /\ CountInv /\ StackInv
  BY DEF ScopeInv, StackInv, ChildInv
<1>2. pc[w] = "complete" /\ stack[w] # <<>> /\ Body(w) \in Children /\ ScopeOf[Body(w)] \in Scopes
  BY <1>1, EndTyped DEF Complete, EndPlaces
<1>. PICK b \in Bodies : b = Body(w)
  BY <1>2 DEF Bodies
<1>. PICK s \in Scopes : s = ScopeOf[b]
  BY <1>2
<1>3. b \in Children /\ b \in done /\ ~InRun(b) /\ ~InJoin(b) /\ OnStack(b)
  <2>1. PlaceIs(b, "complete")
    BY <1>1, <1>2, TopAt
  <2>. QED BY <1>1, <1>2, <2>1 DEF PlaceIs, RunsGiven, RunPlaces, ScanPlaces, WaitPlaces, LivePlaces, EndPlaces
<1>4. /\ StackInv' /\ Goes(b, "completed") /\ pc'[w] = "completed" /\ stack' = stack
      /\ \A v \in Workers \ {w} : pc'[v] = pc[v]
  BY <1>1, EndStack
<1>5. /\ mutex[s] = None /\ mutex' = [mutex EXCEPT ![s] = w]
      /\ KeepException(b, s) /\ outstanding' = [outstanding EXCEPT ![s] = @ - 1]
      /\ UNCHANGED <<nodes, closed, refs, claimed, queue, at, join, given, done, destroyed, aborted>>
  BY DEF Complete, nodeVars, histVars
<1>6. \A v \in Workers : /\ Body(v)' = Body(v)
                         /\ pc'[v] = "complete" <=> pc[v] = "complete" /\ v # w
                         /\ pc'[v] = "completed" <=> pc[v] = "completed" \/ v = w
  BY <1>2, <1>4 DEF Body, Top
<1>7. w \in Completing(s) /\ outstanding[s] # 0
  <2>1. w \in Completing(s)
    BY <1>2 DEF Completing
  <2>. QED BY <1>1, <2>1, CountBounds
<1>8. s \notin destroyed
  BY <1>7 DEF ScopeInv, RuleInv, RestInv, AtRest
<1>9. \A t \in Scopes : outstanding[t] = 0 => outstanding'[t] = 0
  BY <1>1, <1>5, <1>7 DEF Types
<1>10. \A t \in destroyed : mutex'[t] = None
  BY <1>1, <1>5, <1>8 DEF ScopeInv, RuleInv, DestroyedInv, Types
<1>11. Fresh' /\ ListsKnown' /\ ClosedInv' /\ RestInv' /\ DestroyedInv'
  BY <1>3, <1>4, <1>5, <1>9, <1>10, EndsQuiet DEF EndPlaces
<1>12. RunsGiven'
  <2>1. ASSUME NEW n \in Children
        PROVE  (OnStack(n)' => claimed'[n]) /\ (Live(n)' => n \in given' \ done')
    <3>1. CASE n = b
      <4>1. ~Live(b)'
        BY <1>4 DEF Goes, PlaceIs, LivePlaces, RunPlaces, ScanPlaces, WaitPlaces
      <4>. QED BY <1>1, <1>3, <1>5, <3>1, <4>1 DEF RunsGiven
    <3>2. CASE n # b
      <4>1. (OnStack(n)' => OnStack(n)) /\ (Live(n)' => Live(n))
        BY <1>4, <3>2 DEF Goes, Stays, Bodies
      <4>. QED BY <1>1, <1>5, <4>1 DEF RunsGiven
    <3>. QED BY <3>1, <3>2
  <2>2. \A n \in done' : claimed'[n]
    BY <1>1, <1>5 DEF RunsGiven
  <2>3. \A v \in Workers : pc'[v] = "complete" => Body(v)' \in done'
    BY <1>1, <1>5, <1>6 DEF RunsGiven
  <2>. QED BY <2>1, <2>2, <2>3 DEF RunsGiven
<1>13. CountInv'
  <2>1. ASSUME NEW t \in Scopes PROVE Counted(t)'
    <3>. DEFINE cs == Of(t, given \ done)
                ws == Completing(t)
    <3>1. /\ IsFiniteSet(ws) /\ Cardinality(cs) \in Nat /\ Cardinality(ws) \in Nat
          /\ outstanding[t] = Cardinality(cs) + Cardinality(ws)
      BY <1>1, CountBounds
    <3>2. Of(t, given \ done)' = cs
      BY <1>5 DEF Of
    <3>3. CASE t = s
      <4>1. Completing(t)' = ws \ {w} /\ w \in ws
        BY <1>2, <1>6, <3>3 DEF Completing
      <4>2. Cardinality(ws \ {w}) = Cardinality(ws) - 1
        BY <3>1, <4>1, FS_RemoveElement
      <4>3. Cardinality(Completing(t))' = Cardinality(ws) - 1
        BY <4>1, <4>2
      <4>4. outstanding'[t] = Cardinality(cs) + (Cardinality(ws) - 1)
        BY <1>1, <1>5, <3>1, <3>3 DEF Types
      <4>. QED BY <3>2, <4>3, <4>4 DEF Counted
    <3>4. CASE t # s
      <4>1. Completing(t)' = ws
        BY <1>6, <3>4 DEF Completing
      <4>2. outstanding'[t] = outstanding[t]
        BY <1>1, <1>5, <3>4 DEF Types
      <4>. QED BY <3>1, <3>2, <4>1, <4>2 DEF Counted
    <3>. QED BY <3>3, <3>4
  <2>. QED BY <2>1 DEF CountInv
<1>14. MutexInv'
  <2>1. ASSUME NEW t \in Scopes, NEW v \in Workers
        PROVE  mutex'[t] = v <=> pc'[v] = "completed" /\ ScopeOf[Body(v)'] = t
    <3>1. mutex[t] = v <=> pc[v] = "completed" /\ ScopeOf[Body(v)] = t
      BY DEF ScopeInv, RuleInv, MutexInv
    <3>2. v # None
      BY DEF ScopeAssumption
    <3>3. mutex'[t] = IF t = s THEN w ELSE mutex[t]
      BY <1>1, <1>5 DEF Types
    <3>. QED BY <1>2, <1>5, <1>6, <3>1, <3>2, <3>3
  <2>. QED BY <2>1 DEF MutexInv
<1>15. ExceptionInv'
  <2>1. ASSUME NEW v \in Workers, pc[v] = "complete", v # w PROVE Body(v) # b
    <3>1. stack[v] # <<>>
      BY <1>1, <2>1, EndTyped DEF EndPlaces
    <3>2. Len(stack[v]) \in DOMAIN stack[v] /\ Len(stack[w]) \in DOMAIN stack[w]
      BY <1>1, <1>2, <3>1, TopTyped
    <3>. QED BY <1>1, <2>1, <3>2 DEF StackOnce, Body, Top
  <2>2. ASSUME NEW t \in Scopes
        PROVE  /\ exception'[t] # None <=> Seen(t)' # {}
               /\ exception'[t] \in Of(t, done') \cup {None}
    <3>1. /\ exception[t] # None <=> Seen(t) # {}
          /\ exception[t] \in Of(t, done) \cup {None}
      BY DEF ScopeInv, RuleInv, ExceptionInv
    <3>2. Of(t, done') = Of(t, done) /\ b # None
      BY <1>5 DEF ScopeAssumption
    <3>3. CASE t = s /\ b \in Throws
      <4>1. b \in Of(t, done)
        BY <1>3, <3>3 DEF Of
      <4>2. b \in Seen(t)'
        BY <1>3, <1>5, <1>6, <2>1, <3>3 DEF Seen, Of
      <4>3. exception'[t] = IF exception[t] = None THEN b ELSE exception[t]
        BY <1>1, <1>5, <3>3 DEF KeepException, Types
      <4>. QED BY <3>1, <3>2, <4>1, <4>2, <4>3
    <3>4. CASE t # s \/ b \notin Throws
      <4>1. exception'[t] = exception[t]
        BY <1>1, <1>5, <3>4 DEF KeepException, Types
      <4>2. b \notin Of(t, done) \cap Throws
        BY <3>4 DEF Of
      <4>3. Seen(t)' = Seen(t)
        BY <1>2, <1>5, <1>6, <4>2 DEF Seen, Of
      <4>. QED BY <3>1, <3>2, <4>1, <4>3
    <3>. QED BY <3>3, <3>4
  <2>. QED BY <2>2 DEF ExceptionInv, Of
<1>16. NeverAborts'
  BY <1>5 DEF ScopeInv, RuleInv, NeverAborts
<1>. QED BY <1>4, <1>11, <1>12, <1>13, <1>14, <1>15, <1>16 DEF ScopeInv, ChildInv, RuleInv

LEMMA CompletedKeeps ==
  ASSUME ScopeAssumption, ScopeInv, NEW w \in Workers, Completed(w)
  PROVE  ScopeInv'
<1>1. Types /\ Control /\ StackOnce /\ RunsGiven /\ CountInv /\ StackInv
  BY DEF ScopeInv, StackInv, ChildInv
<1>2. pc[w] = "completed" /\ stack[w] # <<>> /\ Body(w) \in Children /\ ScopeOf[Body(w)] \in Scopes
  BY <1>1, EndTyped DEF Completed, EndPlaces
<1>. PICK b \in Bodies : b = Body(w)
  BY <1>2 DEF Bodies
<1>. PICK s \in Scopes : s = ScopeOf[b]
  BY <1>2
<1>3. ~InRun(b) /\ ~InJoin(b)
  <2>1. PlaceIs(b, "completed")
    BY <1>1, <1>2, TopAt
  <2>. QED BY <2>1 DEF PlaceIs, RunPlaces, ScanPlaces, WaitPlaces
<1>4. /\ StackInv' /\ Goes(b, "idle")
      /\ \A v \in Workers : pc'[v] = "complete" <=> pc[v] = "complete"
      /\ \A v \in Workers : pc'[v] = "completed" <=> pc[v] = "completed" /\ v # w
      /\ \A v \in Workers \ {w} : pc[v] \in EndPlaces => Body(v)' = Body(v)
  BY <1>1, CompletedStack
<1>5. /\ mutex' = [mutex EXCEPT ![s] = None]
      /\ UNCHANGED <<nodes, outstanding, closed, exception, claimed, queue, at, join, given, done,
                     destroyed, aborted>>
  BY DEF Completed, histVars
<1>6. \A t \in destroyed : mutex'[t] = None
  BY <1>1, <1>5 DEF ScopeInv, RuleInv, DestroyedInv, Types
<1>7. Fresh' /\ ListsKnown' /\ ClosedInv' /\ RestInv' /\ DestroyedInv'
  BY <1>3, <1>4, <1>5, <1>6, EndsQuiet
<1>8. \A v \in Workers : /\ pc'[v] = "complete" <=> pc[v] = "complete"
                         /\ pc[v] = "complete" => Body(v)' = Body(v)
  BY <1>2, <1>4 DEF EndPlaces
<1>9. RunsGiven'
  <2>1. \A c \in Bodies : (OnStack(c)' => OnStack(c)) /\ (Live(c)' => Live(c))
    BY <1>4 DEF Goes, PlaceIs, Stays, LivePlaces, EndPlaces, RunPlaces, ScanPlaces, WaitPlaces
  <2>2. Children \subseteq Bodies /\ done \subseteq Children
    BY <1>1 DEF Bodies, Types
  <2>3. \A n \in Children : claimed[n] => claimed'[n]
    BY <1>5
  <2>. QED BY <1>1, <1>5, <1>8, <2>1, <2>2, <2>3, RunsKept
<1>10. CountInv'
  <2>1. \A t \in Scopes : Of(t, given' \ done') = Of(t, given \ done)
    BY <1>5
  <2>. QED BY <1>1, <1>5, <1>8, <2>1, CountKept
<1>11. ExceptionInv'
  BY <1>5, <1>8, ExceptionKept DEF ScopeInv, RuleInv
<1>12. MutexInv'
  <2>0. mutex[s] = w
    BY <1>2 DEF ScopeInv, RuleInv, MutexInv
  <2>1. ASSUME NEW t \in Scopes, NEW v \in Workers
        PROVE  mutex'[t] = v <=> pc'[v] = "completed" /\ ScopeOf[Body(v)'] = t
    <3>1. mutex[t] = v <=> pc[v] = "completed" /\ ScopeOf[Body(v)] = t
      BY DEF ScopeInv, RuleInv, MutexInv
    <3>2. v # None
      BY DEF ScopeAssumption
    <3>3. mutex'[t] = IF t = s THEN None ELSE mutex[t]
      BY <1>1, <1>5 DEF Types
    <3>4. pc'[v] = "completed" => Body(v)' = Body(v)
      BY <1>4 DEF EndPlaces
    <3>. QED BY <1>2, <1>4, <2>0, <3>1, <3>2, <3>3, <3>4
  <2>. QED BY <2>1 DEF MutexInv
<1>13. NeverAborts'
  BY <1>5 DEF ScopeInv, RuleInv, NeverAborts
<1>. QED BY <1>4, <1>7, <1>9, <1>10, <1>11, <1>12, <1>13 DEF ScopeInv, ChildInv, RuleInv

-----------------------------------------------------------------------------
(* The theorems.                                                           *)

LEMMA InitKeeps ==
  ASSUME ScopeAssumption, Init
  PROVE  ScopeInv
<1>1. Caller \in Workers /\ Root \notin Children /\ None \notin Workers /\ Root \in Bodies
  BY DEF ScopeAssumption, Bodies
<1>2. /\ \A w \in Workers \ {Caller} : stack[w] = <<>> /\ pc[w] = "idle"
      /\ stack[Caller] = <<[body |-> Root, back |-> "idle", slot |-> None]>>
      /\ pc[Caller] = "user"
      /\ \A w \in Workers : slot[w] = None
  BY <1>1 DEF Init
<1>3. /\ stack[Caller] \in Seq(FrameType) /\ Len(stack[Caller]) = 1 /\ DOMAIN stack[Caller] = {1}
      /\ stack[Caller][1] = [body |-> Root, back |-> "idle", slot |-> None]
      /\ \A w \in Workers \ {Caller} : stack[w] \in Seq(FrameType) /\ DOMAIN stack[w] = {}
      /\ stack[Caller] # <<>>
  <2>1. [body |-> Root, back |-> "idle", slot |-> None] \in FrameType
    BY <1>1 DEF FrameType
  <2>2. stack[Caller] \in Seq(FrameType) /\ Len(stack[Caller]) = 1
    BY <1>2, <2>1
  <2>3. DOMAIN stack[Caller] = {1} /\ stack[Caller] # <<>>
    <3>1. DOMAIN stack[Caller] = 1 .. 1
      BY <2>2, LenProperties
    <3>2. 1 .. 1 = {1}
      OBVIOUS
    <3>. QED BY <2>2, <3>1, <3>2
  <2>4. stack[Caller][1] = [body |-> Root, back |-> "idle", slot |-> None]
    BY <1>2
  <2>5. \A w \in Workers \ {Caller} : stack[w] \in Seq(FrameType) /\ DOMAIN stack[w] = {}
    <3>1. <<>> \in Seq(FrameType) /\ DOMAIN <<>> = {}
      OBVIOUS
    <3>. QED BY <1>2, <3>1
  <2>. QED BY <2>2, <2>3, <2>4, <2>5
<1>4. Types
  <2>1. nodes \in [Scopes -> Seq(Children)]
    BY DEF Init
  <2>2. NoJoin \in JoinType
    BY DEF NoJoin, JoinType
  <2>3. join \in [Bodies -> JoinType]
    BY <2>2 DEF Init
  <2>4. stack \in [Workers -> Seq(FrameType)]
    <3>1. \A w \in Workers : stack[w] \in Seq(FrameType)
      BY <1>3
    <3>. QED BY <3>1 DEF Init
  <2>5. pc \in [Workers -> {"idle"} \cup LivePlaces \cup EndPlaces]
    BY DEF Init, LivePlaces
  <2>6. /\ outstanding \in [Scopes -> Nat] /\ closed \in [Scopes -> BOOLEAN]
        /\ exception \in [Scopes -> Children \cup {None}]
        /\ mutex \in [Scopes -> Workers \cup {None}]
    BY DEF Init
  <2>7. /\ refs \in [Children -> Int] /\ claimed \in [Children -> BOOLEAN]
        /\ queue \in [Groups -> SUBSET Children]
    BY DEF Init
  <2>8. at \in [Bodies -> Nat \ {0}] /\ slot \in [Workers -> Scopes \cup {None}]
    BY DEF Init
  <2>9. /\ given \subseteq Children /\ done \subseteq given /\ destroyed \subseteq Scopes
        /\ aborted \in BOOLEAN
    BY DEF Init
  <2>. QED BY <2>1, <2>3, <2>4, <2>5, <2>6, <2>7, <2>8, <2>9 DEF Types
<1>5. Place(<<Caller, 1>>) = "user"
  BY <1>2, <1>3 DEF Place
<1>6. Control
  <2>1. ASSUME NEW w \in Workers PROVE WorkerOK(w)
    <3>1. CASE w = Caller
      <4>1. Body(w) = Root
        BY <1>3, <3>1 DEF Body, Top
      <4>. QED BY <1>2, <1>3, <3>1, <4>1 DEF WorkerOK, OwnSlot, EndPlaces
    <3>2. CASE w # Caller
      BY <1>2, <3>2 DEF WorkerOK
    <3>. QED BY <3>1, <3>2
  <2>2. ASSUME NEW w \in Workers, NEW i \in DOMAIN stack[w] PROVE FrameOK(w, i)
    <3>1. w = Caller /\ i = 1
      BY <1>3
    <3>2. Fits(Root, "user")
      BY DEF Fits, RunPlaces, ScanPlaces, WaitPlaces, EndPlaces
    <3>. QED BY <1>3, <1>5, <3>1, <3>2 DEF FrameOK
  <2>. QED BY <2>1, <2>2 DEF Control
<1>7. StackOnce
  BY <1>3 DEF StackOnce
<1>8. \A b \in Bodies : \A P : IsAt(b, P) => b = Root /\ "user" \in P
  BY <1>3, <1>5 DEF IsAt
<1>9. \A b \in Bodies : ~InRun(b) /\ (OnStack(b) => b = Root) /\ (Live(b) => b = Root)
  BY <1>8 DEF InRun, OnStack, Live, RunPlaces
<1>10. \A n \in Children : ~Known(n)
  BY DEF Init, Known
<1>11. Fresh
  BY <1>10, ScriptTyped DEF Fresh
<1>12. ListsKnown
  <2>1. Members(<<>>) = {}
    BY DEF Members
  <2>2. /\ \A g \in Groups : queue[g] = {}
        /\ \A s \in Scopes : Members(nodes[s]) = {}
        /\ \A b \in Bodies : Members(join[b].list) = {} /\ Members(join[b].todo) = {}
    BY <2>1 DEF Init, NoJoin
  <2>. QED BY <1>9, <2>2 DEF ListsKnown
<1>13. \A w \in Workers : pc[w] \notin EndPlaces
  BY <1>2 DEF EndPlaces
<1>14. RunsGiven
  <2>1. done = {} /\ Children \subseteq Bodies
    BY DEF Init, Bodies
  <2>. QED BY <1>1, <1>9, <1>13, <2>1 DEF RunsGiven, EndPlaces
<1>15. CountInv
  <2>1. ASSUME NEW s \in Scopes PROVE Counted(s)
    <3>1. Of(s, given \ done) = {} /\ outstanding[s] = 0
      BY DEF Init, Of
    <3>2. Completing(s) = {}
      BY <1>13 DEF Completing, EndPlaces
    <3>. QED BY <3>1, <3>2, FS_EmptySet DEF Counted
  <2>. QED BY <2>1 DEF CountInv
<1>16. RestInv /\ DestroyedInv /\ ClosedInv /\ NeverAborts
  BY DEF Init, RestInv, DestroyedInv, ClosedInv, NeverAborts
<1>17. MutexInv
  BY <1>1, <1>13 DEF Init, MutexInv, EndPlaces
<1>18. ExceptionInv
  BY DEF Init, ExceptionInv, Seen, Of
<1>. QED BY <1>4, <1>6, <1>7, <1>11, <1>12, <1>14, <1>15, <1>16, <1>17, <1>18
         DEF ScopeInv, StackInv, ChildInv, RuleInv

LEMMA StutterKeeps ==
  ASSUME ScopeAssumption, ScopeInv, UNCHANGED vars
  PROVE  ScopeInv'
<1>1. UNCHANGED <<nodes, outstanding, closed, exception, mutex, refs, claimed, queue, pc, stack, at,
                  slot, join, given, done, destroyed, aborted>>
  BY DEF vars
<1>2. Types'
  BY <1>1 DEF ScopeInv, StackInv, Types
<1>3. \A b \in Bodies : \A m \in Members(join'[b].list) \cup Members(join'[b].todo) : Known(m)
  BY <1>1 DEF ScopeInv, ChildInv, ListsKnown
<1>4. UNCHANGED <<scopeVars, claimed, pc, stack, slot, at, histVars>>
  BY <1>1 DEF scopeVars, histVars
<1>5. \A g \in Groups : queue'[g] \subseteq queue[g]
  BY <1>1
<1>. QED BY <1>2, <1>3, <1>4, <1>5, PassKeeps

\* The stacks, the children and the scopes stay right: ScopeInv is an inductive invariant.
THEOREM ScopeCorrect == ScopeAssumption /\ Spec => []ScopeInv
<1>. SUFFICES ASSUME ScopeAssumption PROVE Spec => []ScopeInv
  OBVIOUS
<1>1. Init => ScopeInv
  BY InitKeeps
<1>2. ScopeInv /\ [Next]_vars => ScopeInv'
  <2>. SUFFICES ASSUME ScopeInv, [Next]_vars PROVE ScopeInv'
    OBVIOUS
  <2>1. CASE UNCHANGED vars
    BY <2>1, StutterKeeps
  <2>2. CASE Finished
    BY <2>2, StutterKeeps DEF Finished
  <2>3. ASSUME NEW w \in Workers, Step(w) \/ SpuriousWake(w) PROVE ScopeInv'
    <3>1. CASE Run(w)
      BY <3>1, RunKeeps
    <3>2. CASE WakeJoiner(w)
      BY <3>2, WakeJoinerKeeps
    <3>3. CASE Submit(w)
      BY <3>3, SubmitKeeps
    <3>4. CASE Take(w)
      BY <3>4, TakeKeeps
    <3>5. CASE Return(w)
      BY <3>5, ReturnKeeps
    <3>6. CASE Complete(w)
      BY <3>6, CompleteKeeps
    <3>7. CASE Completed(w)
      BY <3>7, CompletedKeeps
    <3>8. CASE JoinScan(w)
      BY <3>8, JoinScanKeeps
    <3>9. CASE \/ JoinCall(w) \/ JoinTake(w) \/ JoinRelease(w) \/ JoinLoad(w) \/ JoinCompare(w)
               \/ SpuriousWake(w)
      BY <3>9, JoinsKeep
    <3>10. CASE Rethrow(w) \/ Reset(w) \/ Destroy(w)
      BY <3>10, RethrowKeeps
    <3>. QED BY <2>3, <3>1, <3>2, <3>3, <3>4, <3>5, <3>6, <3>7, <3>8, <3>9, <3>10 DEF Step
  <2>. QED BY <2>1, <2>2, <2>3 DEF Next
<1>. QED BY <1>1, <1>2, PTL DEF Spec

\* A join returns when all children of its scope have returned, those that descendants gave it
\* during the join too, and rethrows if and only if one of them threw (complete_one counts
\* down and keeps the first exception; join leaves its loop at outstanding_ = 0).
THEOREM JoinTheorem == ScopeAssumption /\ Spec => []JoinComplete
<1>. SUFFICES ASSUME ScopeAssumption PROVE Spec => []JoinComplete
  OBVIOUS
<1>0. Spec => []ScopeInv
  BY ScopeCorrect
<1>1. ASSUME ScopeInv PROVE JoinComplete
  <2>0. Types /\ Control /\ StackOnce /\ CountInv
    BY <1>1 DEF ScopeInv, StackInv, ChildInv
  <2>. SUFFICES ASSUME NEW w \in Workers, pc[w] = "rethrow", NEW s, s = Call(w).arg
                PROVE  /\ Of(s, given) \subseteq done
                       /\ exception[s] # None <=> Of(s, done) \cap Throws # {}
                       /\ exception[s] \in Of(s, done) \cup {None}
    BY DEF JoinComplete
  <2>1. /\ stack[w] # <<>> /\ Body(w) \in Bodies /\ Call(w) = CallOf(Body(w))
        /\ at[Body(w)] \in DOMAIN Script[Body(w)]
        /\ Call(w).op \in {"join", "block"} /\ s \in Scopes
    BY <1>1, <2>0, InCall DEF WaitPlaces
  <2>2. Body(w) = Owner[s]
    BY <1>1, <2>1, OwnersCall DEF IsJoin, CallOf
  <2>3. AtEnd(Body(w))
    BY <2>0, <2>1, TopAt DEF PlaceIs
  <2>4. outstanding[s] = 0
    BY <1>1, <2>1, <2>2, <2>3 DEF Ending, AtRest, ScopeInv, RuleInv, RestInv
  <2>5. Of(s, given \ done) = {} /\ Completing(s) = {}
    BY <1>1, <2>0, <2>1, <2>4, CountBounds
  <2>6. Of(s, given) \subseteq done
    BY <2>5 DEF Of
  <2>7. Seen(s) = Of(s, done) \cap Throws
    BY <2>5 DEF Seen, Of, Completing
  <2>8. /\ exception[s] # None <=> Seen(s) # {}
        /\ exception[s] \in Of(s, done) \cup {None}
    BY <1>1, <2>1 DEF ScopeInv, RuleInv, ExceptionInv
  <2>. QED BY <2>6, <2>7, <2>8
<1>2. ScopeInv => JoinComplete
  BY <1>1
<1>. QED BY <1>0, <1>2, PTL

\* Nobody touches a scope that its owner has destroyed: neither a child that discounts itself,
\* notifies or unlocks in complete_one, nor a call of run that still has to notify.
THEOREM AliveTheorem == ScopeAssumption /\ Spec => []ScopeAlive
<1>. SUFFICES ASSUME ScopeAssumption PROVE Spec => []ScopeAlive
  OBVIOUS
<1>0. Spec => []ScopeInv
  BY ScopeCorrect
<1>1. ASSUME ScopeInv PROVE ScopeAlive
  <2>0. Types /\ Control /\ StackOnce /\ CountInv /\ RunsGiven /\ RestInv /\ MutexInv /\ DestroyedInv
    BY <1>1 DEF ScopeInv, StackInv, ChildInv, RuleInv
  <2>1. ASSUME NEW w \in Workers, pc[w] \in EndPlaces PROVE ScopeOf[Body(w)] \notin destroyed
    <3>. PICK s \in Scopes : s = ScopeOf[Body(w)]
      BY <1>1, <2>0, <2>1, EndTyped
    <3>1. CASE pc[w] = "complete"
      <4>1. w \in Completing(s)
        BY <3>1 DEF Completing
      <4>2. outstanding[s] # 0
        BY <1>1, <2>0, <4>1, CountBounds
      <4>. QED BY <2>0, <4>2 DEF RestInv, AtRest
    <3>2. CASE pc[w] = "completed"
      <4>1. mutex[s] = w /\ w # None
        BY <1>1, <2>0, <3>2 DEF MutexInv, ScopeAssumption
      <4>. QED BY <2>0, <4>1 DEF DestroyedInv
    <3>. QED BY <2>1, <3>1, <3>2 DEF EndPlaces
  <2>2. ASSUME NEW w \in Workers, pc[w] = "wake_joiner" PROVE ScopeOf[Call(w).arg] \notin destroyed
    <3>1. /\ stack[w] # <<>> /\ Body(w) \in Bodies /\ Call(w) = CallOf(Body(w))
          /\ at[Body(w)] \in DOMAIN Script[Body(w)] /\ Call(w).op = "run" /\ Call(w).arg \in Children
      BY <1>1, <2>0, <2>2, InCall DEF RunPlaces
    <3>. PICK b \in Bodies : b = Body(w)
      BY <3>1
    <3>. PICK s \in Scopes : s = ScopeOf[Call(w).arg]
      BY <1>1, <3>1 DEF ScopeAssumption
    <3>2. Gives(Script[b][at[b]], s)
      BY <3>1 DEF Gives, CallOf
    <3>3. b = Owner[s] \/ (b \in Children /\ ScopeOf[b] = s)
      BY <1>1, <3>1, <3>2 DEF ScopeAssumption, LexicalAssumption
    <3>4. CASE b = Owner[s]
      <4>1. at[b] >= at[b]
        BY <2>0 DEF Types
      <4>. QED BY <2>0, <3>1, <3>2, <3>4, <4>1 DEF DestroyedInv, Uses
    <3>5. CASE b \in Children /\ ScopeOf[b] = s
      <4>1. Live(b)
        BY <2>0, <2>2, <3>1, TopAt DEF PlaceIs, LivePlaces, RunPlaces
      <4>2. b \in Of(s, given \ done)
        BY <2>0, <3>5, <4>1 DEF RunsGiven, Of
      <4>3. outstanding[s] # 0
        BY <1>1, <2>0, <4>2, CountBounds
      <4>. QED BY <2>0, <4>3 DEF RestInv, AtRest
    <3>. QED BY <3>3, <3>4, <3>5
  <2>. QED BY <2>1, <2>2 DEF ScopeAlive, EndPlaces
<1>2. ScopeInv => ScopeAlive
  BY <1>1
<1>. QED BY <1>0, <1>2, PTL

\* The assertions of run, join, reset and the destructor hold: what scope_execution_slot says
\* of the running child is right, also after nested joins and inline runs.
THEOREM AbortTheorem == ScopeAssumption /\ Spec => []NeverAborts
<1>1. ScopeInv => NeverAborts
  BY DEF ScopeInv, RuleInv
<1>. QED BY <1>1, ScopeCorrect, PTL

-----------------------------------------------------------------------------
(* What a step keeps of the invariants on references.                      *)

LEMMA SubmittedSame ==
  ASSUME \A b \in Bodies : /\ InRun(b)' <=> InRun(b)
                           /\ InRun(b) => at'[b] = at[b]
  PROVE  \A n : Submitted(n)' <=> Submitted(n)
BY DEF Submitted, CallOf

LEMMA ListsOnceKept ==
  ASSUME ListOnce, \A s \in Scopes : Members(nodes'[s]) \subseteq Members(nodes[s]),
         \A b \in Bodies : Members(join'[b].list) \subseteq Members(join[b].list)
  PROVE  ListOnce'
<1>1. ASSUME NEW s \in Scopes, NEW n \in Members(nodes'[s])
      PROVE  ScopeOf[n] = s /\ \A b \in Bodies : n \notin Members(join'[b].list)
  BY DEF ListOnce
<1>2. ASSUME NEW a \in Bodies, NEW b \in Bodies, NEW n \in Members(join'[a].list),
             n \in Members(join'[b].list)
      PROVE  a = b
  BY <1>2 DEF ListOnce
<1>. QED BY <1>1, <1>2 DEF ListOnce, Members

LEMMA LambdaKept ==
  ASSUME ScopeAssumption, LambdaOnce, \A g \in Groups : queue'[g] \subseteq queue[g],
         \A n \in Children : (Submitted(n)' => Submitted(n)) /\ (Held(n)' => Held(n))
  PROVE  LambdaOnce'
<1>1. \A n \in Children : GroupOf[n] \in Groups
  BY DEF ScopeAssumption, Bodies
<1>2. ASSUME NEW n \in Children
      PROVE  /\ \A g \in Groups : n \in queue'[g] => g = GroupOf[n]
             /\ n \in queue'[GroupOf[n]] => ~Submitted(n)' /\ ~Held(n)'
             /\ Submitted(n)' => ~Held(n)'
  BY <1>1 DEF LambdaOnce
<1>. QED BY <1>2 DEF LambdaOnce

\* The list of a body matters only while it waits below a child it executes.
LEMMA ScansKept ==
  ASSUME StackInv, ScansOwn, NEW w \in Workers, stack[w] # <<>>, stack' = stack,
         \A b \in Bodies : b # Body(w) => join'[b].list = join[b].list
  PROVE  ScansOwn'
<1>. SUFFICES ASSUME NEW v \in Workers, NEW i \in DOMAIN stack[v], ~ByLambda(stack[v][i])
              PROVE  stack[v][i].body \in Members(join'[stack[v][i - 1].body].list)
  BY DEF ScansOwn, Members
<1>1. Types /\ Control /\ StackOnce
  BY DEF StackInv
<1>2. stack[v] \in Seq(FrameType) /\ i \in 1 .. Len(stack[v]) /\ Len(stack[v]) \in Nat
  BY <1>1, LenProperties DEF Types
<1>3. i # 1
  BY <1>1 DEF Control, FrameOK, ByLambda
<1>4. i - 1 \in DOMAIN stack[v] /\ i - 1 # Len(stack[v])
  BY <1>2, <1>3, LenProperties
<1>5. stack[v][i - 1].body \in Bodies
  BY <1>1, <1>4, Stacked DEF FrameType
<1>6. stack[v][i - 1].body # Body(w)
  BY <1>1, <1>4, TopTyped DEF StackOnce, Body, Top
<1>. QED BY <1>5, <1>6 DEF ScansOwn

LEMMA RefQuiet ==
  ASSUME ScopeAssumption, ScopeInv, RefInv, UNCHANGED <<nodes, refs, queue, stack, at>>,
         \A c \in Bodies : /\ InRun(c)' <=> InRun(c)
                           /\ InScan(c) => InScan(c)'
                           /\ join'[c].list = join[c].list
                           /\ Members(join'[c].todo) \subseteq Members(join[c].todo)
  PROVE  RefInv'
<1>1. \A n : (Submitted(n)' <=> Submitted(n)) /\ (Held(n)' <=> Held(n))
  <2>1. \A n : Submitted(n)' <=> Submitted(n)
    BY SubmittedSame
  <2>. QED BY <2>1 DEF Held
<1>2. ListOnce'
  BY ListsOnceKept DEF RefInv
<1>3. ListsScanned'
  <2>1. ASSUME NEW b \in Bodies
        PROVE  /\ join'[b].list # <<>> => InScan(b)'
               /\ Members(join'[b].todo) \subseteq Members(join'[b].list)
    BY DEF RefInv, ListsScanned
  <2>. QED BY <2>1 DEF ListsScanned, Members
<1>4. LambdaOnce'
  BY <1>1, LambdaKept DEF RefInv
<1>5. ScansOwn'
  <2>1. ASSUME NEW v \in Workers, NEW i \in DOMAIN stack[v], ~ByLambda(stack[v][i])
        PROVE  stack[v][i].body \in Members(join'[stack[v][i - 1].body].list)
    <3>1. stack[v] \in Seq(FrameType) /\ i \in 1 .. Len(stack[v]) /\ Len(stack[v]) \in Nat
      BY LenProperties DEF ScopeInv, StackInv, Types
    <3>2. i # 1
      BY <2>1 DEF ScopeInv, StackInv, Control, FrameOK, ByLambda
    <3>3. i - 1 \in DOMAIN stack[v]
      BY <3>1, <3>2, LenProperties
    <3>4. stack[v][i - 1].body \in Bodies
      BY <3>3, Stacked DEF FrameType, ScopeInv, StackInv
    <3>. QED BY <2>1, <3>4 DEF RefInv, ScansOwn
  <2>. QED BY <2>1 DEF ScansOwn, Members
<1>6. RefsExact'
  <2>1. ASSUME NEW n \in Children PROVE RefOK(n)'
    <3>1. Listed(n)' <=> Listed(n)
      BY DEF Listed
    <3>2. Lambda(n)' <=> Lambda(n)
      BY <1>1 DEF Lambda
    <3>. QED BY <3>1, <3>2 DEF RefInv, RefsExact, RefOK
  <2>. QED BY <2>1 DEF RefsExact
<1>. QED BY <1>2, <1>3, <1>4, <1>5, <1>6 DEF RefInv

\* The steps that leave lists, lambdas and frames alone.
LEMMA RefsOfMoves ==
  ASSUME ScopeAssumption, ScopeInv, RefInv, NEW w \in Workers,
         \/ WakeJoiner(w) \/ JoinCall(w) \/ JoinLoad(w) \/ JoinCompare(w) \/ SpuriousWake(w)
         \/ Return(w) /\ Body(w) # Root
         \/ Complete(w)
  PROVE  RefInv'
<1>1. Types /\ Control /\ StackOnce /\ RunsGiven /\ CountInv /\ StackInv
  BY DEF ScopeInv, StackInv, ChildInv
<1>2. stack[w] # <<>> /\ Body(w) \in Bodies
  <2>1. CASE WakeJoiner(w)
    BY <1>1, <2>1, CallTyped DEF WakeJoiner, In
  <2>2. CASE JoinCall(w)
    BY <1>1, <2>2, CallTyped DEF JoinCall, Joins
  <2>3. CASE JoinLoad(w) \/ JoinCompare(w) \/ SpuriousWake(w)
    BY <1>1, <2>3, InCall DEF JoinLoad, JoinCompare, SpuriousWake, WaitPlaces
  <2>4. CASE Return(w)
    BY <1>1, <2>4, TopTyped DEF Return
  <2>5. CASE Complete(w)
    BY <1>1, <2>5, EndTyped DEF Complete, EndPlaces, Bodies
  <2>. QED BY <2>1, <2>2, <2>3, <2>4, <2>5
<1>. PICK b \in Bodies : b = Body(w)
  BY <1>2
<1>3. PlaceIs(b, pc[w])
  BY <1>1, <1>2, TopAt
<1>4. \E l : Goes(b, l) /\ (l \in RunPlaces <=> WakeJoiner(w))
  <2>1. CASE WakeJoiner(w)
    BY <1>1, <2>1, RunStack
  <2>2. CASE JoinCall(w) \/ JoinLoad(w) \/ JoinCompare(w) \/ SpuriousWake(w)
    <3>1. \E l \in ScanPlaces \cup WaitPlaces : Goes(b, l)
      BY <1>1, <2>2, JoinStack
    <3>2. ~WakeJoiner(w)
      BY <2>2 DEF JoinCall, JoinLoad, JoinCompare, SpuriousWake, WakeJoiner, In
    <3>. QED BY <3>1, <3>2 DEF ScanPlaces, WaitPlaces, RunPlaces
  <2>3. CASE (Return(w) /\ b # Root) \/ Complete(w)
    <3>1. Goes(b, "complete") \/ Goes(b, "completed")
      BY <1>1, <2>3, EndStack
    <3>2. ~WakeJoiner(w)
      BY <2>3 DEF Return, Complete, WakeJoiner, In
    <3>. QED BY <3>1, <3>2 DEF RunPlaces
  <2>. QED BY <2>1, <2>2, <2>3
<1>5. /\ pc[w] \in RunPlaces <=> WakeJoiner(w)
      /\ pc[w] # "scan"
  BY DEF WakeJoiner, JoinCall, JoinLoad, JoinCompare, SpuriousWake, Return, Complete, In, RunPlaces
<1>6. \A c \in Bodies : (InRun(c)' <=> InRun(c)) /\ (InScan(c) => InScan(c)')
  BY <1>3, <1>4, <1>5 DEF Goes, Stays, PlaceIs
<1>7. UNCHANGED <<nodes, refs, queue, stack, at>>
  BY DEF WakeJoiner, JoinCall, JoinLoad, JoinCompare, SpuriousWake, Return, Complete, scopeVars,
         nodeVars
<1>8. ASSUME NEW c \in Bodies
      PROVE  join'[c].list = join[c].list /\ join'[c].todo = join[c].todo
  <2>1. CASE join' = join
    BY <2>1
  <2>2. ASSUME NEW k, join' = [join EXCEPT ![b].count = k]
        PROVE  join'[c].list = join[c].list /\ join'[c].todo = join[c].todo
    <3>1. join[c] \in JoinType
      BY <1>1 DEF Types
    <3>. QED BY <1>1, <2>2, <3>1 DEF Types, JoinType
  <2>. QED BY <2>1, <2>2 DEF WakeJoiner, JoinCall, JoinLoad, JoinCompare, SpuriousWake, Return,
                             Complete
<1>. QED BY <1>6, <1>7, <1>8, RefQuiet

\* A frame that leaves its stack.
LEMMA FramesKept ==
  ASSUME StackInv', ScansOwn, join' = join,
         \A v \in Workers : \A i \in DOMAIN stack'[v] : /\ i \in DOMAIN stack[v]
                                                        /\ stack'[v][i] = stack[v][i]
  PROVE  ScansOwn' /\ \A n : Held(n)' => Held(n)
<1>1. ASSUME NEW v \in Workers, NEW i \in DOMAIN stack'[v], ~ByLambda(stack'[v][i])
      PROVE  stack'[v][i].body \in Members(join'[stack'[v][i - 1].body].list)
  <2>1. i # 1
    BY <1>1 DEF StackInv, Control, FrameOK, ByLambda
  <2>2. stack'[v] \in Seq(FrameType)
    BY DEF StackInv, Types
  <2>3. i - 1 \in DOMAIN stack'[v]
    BY <2>1, <2>2, LenProperties
  <2>. QED BY <1>1, <2>3 DEF ScansOwn
<1>2. ASSUME NEW n, Held(n)' PROVE Held(n)
  BY <1>2 DEF Held
<1>. QED BY <1>1, <1>2 DEF ScansOwn, Members

LEMMA RefsOfRoot ==
  ASSUME ScopeAssumption, ScopeInv, RefInv, NEW w \in Workers, Return(w), Body(w) = Root
  PROVE  RefInv'
<1>1. Types /\ Control /\ StackOnce /\ RunsGiven /\ CountInv /\ StackInv
  BY DEF ScopeInv, StackInv, ChildInv
<1>2. /\ pc[w] = "user" /\ stack[w] # <<>> /\ Root \in Bodies /\ Root \notin Children
      /\ stack' = [stack EXCEPT ![w] = <<>>] /\ UNCHANGED <<nodes, refs, queue, at, join>>
  BY DEF Return, scopeVars, nodeVars, Bodies, ScopeAssumption
<1>3. StackInv' /\ Goes(Root, "idle")
  BY <1>1, <1>2, EndStack
<1>4. PlaceIs(Root, "user")
  BY <1>1, <1>2, TopAt
<1>5. \A c \in Bodies : (InRun(c)' <=> InRun(c)) /\ (InScan(c) => InScan(c)')
  BY <1>3, <1>4 DEF Goes, Stays, PlaceIs, RunPlaces
<1>6. stack'[w] = <<>> /\ \A v \in Workers : v # w => stack'[v] = stack[v]
  BY <1>1, <1>2 DEF Types
<1>7. ScansOwn' /\ \A n : Held(n)' => Held(n)
  BY <1>2, <1>3, <1>6, FramesKept DEF RefInv
<1>8. ASSUME NEW n \in Children PROVE Held(n) => Held(n)'
  <2>1. ASSUME NEW i \in DOMAIN stack[w] PROVE stack[w][i].body = Root
    <3>1. Len(stack[w]) = 1 /\ stack[w] \in Seq(FrameType)
      BY <1>1, <1>2, TopFits DEF Types
    <3>2. i = Len(stack[w])
      BY <2>1, <3>1, LenProperties
    <3>. QED BY <3>2 DEF Body, Top
  <2>. QED BY <1>2, <1>6, <2>1 DEF Held
<1>9. \A n : Submitted(n)' <=> Submitted(n)
  BY <1>2, <1>5, SubmittedSame
<1>10. ListOnce'
  BY <1>2, ListsOnceKept DEF RefInv
<1>11. ListsScanned'
  BY <1>2, <1>5 DEF RefInv, ListsScanned
<1>12. LambdaOnce'
  BY <1>2, <1>7, <1>9, LambdaKept DEF RefInv
<1>13. RefsExact'
  <2>1. ASSUME NEW n \in Children PROVE RefOK(n)'
    <3>1. Listed(n)' <=> Listed(n)
      BY <1>2 DEF Listed
    <3>2. Lambda(n)' <=> Lambda(n)
      BY <1>2, <1>7, <1>8, <1>9 DEF Lambda
    <3>. QED BY <1>2, <3>1, <3>2 DEF RefInv, RefsExact, RefOK
  <2>. QED BY <2>1 DEF RefsExact
<1>. QED BY <1>7, <1>10, <1>11, <1>12, <1>13 DEF RefInv

LEMMA MembersCons ==
  ASSUME NEW S, NEW n \in S, NEW q \in Seq(S)
  PROVE  Members(<<n>> \o q) = {n} \cup Members(q)
<1>1. /\ <<n>> \in Seq(S) /\ <<n>> \o q \in Seq(S)
      /\ Len(<<n>> \o q) = Len(q) + 1 /\ Len(q) \in Nat
      /\ DOMAIN (<<n>> \o q) = 1 .. Len(q) + 1 /\ DOMAIN q = 1 .. Len(q)
  BY LenProperties
<1>2. /\ (<<n>> \o q)[1] = n
      /\ \A i \in 1 .. Len(q) : (<<n>> \o q)[i + 1] = q[i]
  BY <1>1
<1>3. ASSUME NEW x \in Members(<<n>> \o q) PROVE x \in {n} \cup Members(q)
  <2>1. PICK i \in 1 .. Len(q) + 1 : x = (<<n>> \o q)[i]
    BY <1>1 DEF Members
  <2>2. CASE i = 1
    BY <1>2, <2>1, <2>2
  <2>3. CASE i # 1
    <3>1. i - 1 \in 1 .. Len(q) /\ (i - 1) + 1 = i
      BY <1>1, <2>3
    <3>2. x = q[i - 1]
      BY <1>2, <2>1, <3>1
    <3>. QED BY <1>1, <3>1, <3>2 DEF Members
  <2>. QED BY <2>2, <2>3
<1>4. n \in Members(<<n>> \o q)
  <2>1. 1 \in DOMAIN (<<n>> \o q)
    BY <1>1
  <2>. QED BY <1>2, <2>1 DEF Members
<1>5. ASSUME NEW i \in DOMAIN q PROVE q[i] \in Members(<<n>> \o q)
  <2>1. i + 1 \in DOMAIN (<<n>> \o q) /\ (<<n>> \o q)[i + 1] = q[i]
    BY <1>1, <1>2
  <2>. QED BY <2>1 DEF Members
<1>6. Members(q) \subseteq Members(<<n>> \o q)
  BY <1>5 DEF Members
<1>. QED BY <1>3, <1>4, <1>6

\* A child is given by one call.
LEMMA GivenOnce ==
  ASSUME ScopeAssumption, StackInv, NEW a \in Bodies, NEW b \in Bodies, InRun(a), InRun(b),
         CallOf(a).arg = CallOf(b).arg
  PROVE  a = b
<1>1. ASSUME NEW c \in Bodies, InRun(c)
      PROVE  /\ at[c] \in DOMAIN Script[c] /\ CallOf(c).op = "run"
             /\ CallOf(c) = [op |-> "run", arg |-> CallOf(c).arg]
  <2>1. Calling(c) /\ CallOf(c).op = "run"
    BY <1>1 DEF StackInv, Control, FrameOK, Fits, InRun, IsAt
  <2>2. Script[c] \in Seq(Op) /\ at[c] \in Nat \ {0}
    BY DEF ScopeAssumption, StackInv, Types
  <2>3. at[c] \in DOMAIN Script[c]
    BY <2>1, <2>2, LenProperties DEF Calling
  <2>4. CallOf(c) \in Op
    BY <2>3, ScriptTyped DEF CallOf
  <2>. QED BY <2>1, <2>3, <2>4 DEF Op
<1>2. Script[a][at[a]].op = "run" /\ Script[b][at[b]] = Script[a][at[a]]
  BY <1>1 DEF CallOf
<1>. QED BY <1>1, <1>2 DEF ScopeAssumption

\* A child that nobody knows has no node.
LEMMA UnknownNode ==
  ASSUME ScopeAssumption, ScopeInv, NEW n \in Children, ~Known(n)
  PROVE  ~Listed(n) /\ ~Lambda(n)
<1>1. GroupOf[n] \in Groups /\ ScopeOf[n] \in Scopes
  BY DEF ScopeAssumption, Bodies
<1>2. ~Listed(n)
  BY <1>1 DEF ScopeInv, ChildInv, ListsKnown, Listed
<1>3. ~Submitted(n)
  BY DEF ScopeInv, ChildInv, ListsKnown, Submitted
<1>4. ~Held(n)
  <2>1. ~OnStack(n)
    BY DEF ScopeInv, ChildInv, RunsGiven, Known
  <2>. QED BY <2>1, Stacked DEF ScopeInv, StackInv, Held
<1>5. n \notin queue[GroupOf[n]]
  BY <1>1 DEF ScopeInv, ChildInv, ListsKnown
<1>. QED BY <1>2, <1>3, <1>4, <1>5 DEF Lambda

LEMMA RefsOfRun ==
  ASSUME ScopeAssumption, ScopeInv, RefInv, NEW w \in Workers, Run(w)
  PROVE  RefInv'
<1>1. Types /\ Control /\ StackOnce /\ StackInv
  BY DEF ScopeInv, StackInv
<1>2. /\ pc[w] = "user" /\ stack[w] # <<>> /\ Body(w) \in Bodies /\ Call(w) = CallOf(Body(w))
      /\ at[Body(w)] \in DOMAIN Script[Body(w)] /\ Call(w).op = "run" /\ Call(w).arg \in Children
  BY <1>1, CallTyped DEF Run, In
<1>. PICK b \in Bodies : b = Body(w)
  BY <1>2
<1>. PICK n \in Children : n = Call(w).arg
  BY <1>2
<1>. PICK s \in Scopes : s = ScopeOf[n]
  BY DEF ScopeAssumption
<1>3. PlaceIs(b, "user")
  BY <1>1, <1>2, TopAt
<1>4. \E l \in RunPlaces : Goes(b, l)
  BY <1>1, RunStack
<1>5. /\ ~InRun(b) /\ InRun(b)' /\ ~InScan(b)
      /\ \A c \in Bodies : c # b => ((InRun(c)' <=> InRun(c)) /\ (InScan(c)' <=> InScan(c)))
  BY <1>3, <1>4 DEF Goes, Stays, PlaceIs, RunPlaces
<1>6. /\ nodes' = [nodes EXCEPT ![s] = <<n>> \o @] /\ refs' = [refs EXCEPT ![n] = 2]
      /\ UNCHANGED <<queue, stack, at, join>>
  BY DEF Run
<1>7. ~Listed(n) /\ ~Lambda(n)
  <2>1. CallOf(b) = Script[b][at[b]] /\ CallOf(b).op = "run" /\ CallOf(b).arg = n
    BY <1>2 DEF CallOf
  <2>2. ~Known(n)
    BY <1>2, <1>5, <2>1 DEF ScopeInv, ChildInv, Fresh
  <2>. QED BY <2>2, UnknownNode
<1>8. /\ Members(nodes'[s]) = {n} \cup Members(nodes[s])
      /\ \A t \in Scopes : t # s => nodes'[t] = nodes[t]
  <2>1. nodes[s] \in Seq(Children)
    BY <1>1 DEF Types
  <2>2. nodes'[s] = <<n>> \o nodes[s] /\ \A t \in Scopes : t # s => nodes'[t] = nodes[t]
    BY <1>1, <1>6 DEF Types
  <2>. QED BY <2>1, <2>2, MembersCons
<1>9. \A m \in Children : /\ Submitted(m)' <=> Submitted(m) \/ m = n
                          /\ Held(m)' <=> Held(m)
  <2>1. CallOf(b).arg = n /\ \A c \in Bodies : CallOf(c)' = CallOf(c)
    BY <1>2, <1>6 DEF CallOf
  <2>. QED BY <1>5, <1>6, <2>1 DEF Submitted, Held
<1>10. ListOnce'
  <2>1. ASSUME NEW t \in Scopes, NEW m \in Members(nodes'[t])
        PROVE  ScopeOf[m] = t /\ \A c \in Bodies : m \notin Members(join'[c].list)
    <3>1. (m = n /\ t = s) \/ m \in Members(nodes[t])
      BY <1>8
    <3>. QED BY <1>6, <1>7, <3>1 DEF RefInv, ListOnce, Listed
  <2>2. \A a, c \in Bodies : \A m \in Members(join'[a].list) : m \in Members(join'[c].list) => a = c
    BY <1>6 DEF RefInv, ListOnce
  <2>. QED BY <2>1, <2>2 DEF ListOnce, Members
<1>11. ListsScanned'
  BY <1>5, <1>6 DEF RefInv, ListsScanned
<1>12. LambdaOnce'
  BY <1>6, <1>7, <1>9 DEF RefInv, LambdaOnce, Lambda
<1>13. ScansOwn'
  BY <1>1, <1>2, <1>6, ScansKept DEF RefInv
<1>14. RefsExact'
  <2>1. ASSUME NEW m \in Children PROVE RefOK(m)'
    <3>1. CASE m = n
      <4>1. Listed(n)' /\ Lambda(n)'
        BY <1>8, <1>9 DEF Listed, Lambda
      <4>2. refs'[n] = 2
        BY <1>1, <1>6 DEF Types
      <4>. QED BY <3>1, <4>1, <4>2 DEF RefOK
    <3>2. CASE m # n
      <4>1. Listed(m)' <=> Listed(m)
        <5>1. ScopeOf[m] \in Scopes
          BY DEF ScopeAssumption
        <5>. QED BY <1>6, <1>8, <3>2, <5>1 DEF Listed
      <4>2. Lambda(m)' <=> Lambda(m)
        BY <1>6, <1>9, <3>2 DEF Lambda
      <4>3. refs'[m] = refs[m]
        BY <1>1, <1>6, <3>2 DEF Types
      <4>. QED BY <4>1, <4>2, <4>3 DEF RefInv, RefsExact, RefOK
    <3>. QED BY <3>1, <3>2
  <2>. QED BY <2>1 DEF RefsExact
<1>. QED BY <1>10, <1>11, <1>12, <1>13, <1>14 DEF RefInv

LEMMA RefsOfSubmit ==
  ASSUME ScopeAssumption, ScopeInv, RefInv, NEW w \in Workers, Submit(w)
  PROVE  RefInv'
<1>1. Types /\ Control /\ StackOnce /\ StackInv
  BY DEF ScopeInv, StackInv
<1>2. /\ pc[w] = "submit" /\ stack[w] # <<>> /\ Body(w) \in Bodies /\ Call(w) = CallOf(Body(w))
      /\ Call(w).arg \in Children
  BY <1>1, CallTyped DEF Submit, In
<1>. PICK b \in Bodies : b = Body(w)
  BY <1>2
<1>. PICK n \in Children : n = Call(w).arg
  BY <1>2
<1>3. PlaceIs(b, "submit")
  BY <1>1, <1>2, TopAt
<1>4. Goes(b, "user") /\ at' = [at EXCEPT ![b] = @ + 1]
  BY <1>1, SubmitStack
<1>5. /\ InRun(b) /\ ~InRun(b)' /\ ~InScan(b)
      /\ \A c \in Bodies : c # b => ((InRun(c)' <=> InRun(c)) /\ (InScan(c)' <=> InScan(c)))
  BY <1>3, <1>4 DEF Goes, Stays, PlaceIs, RunPlaces
<1>6. /\ queue' = [queue EXCEPT ![GroupOf[n]] = @ \cup {n}] /\ GroupOf[n] \in Groups
      /\ UNCHANGED <<nodes, refs, stack, join>>
  BY DEF Submit, scopeVars, ScopeAssumption, Bodies
<1>7. \A g \in Groups : queue'[g] = IF g = GroupOf[n] THEN queue[g] \cup {n} ELSE queue[g]
  BY <1>1, <1>6 DEF Types
<1>8. Submitted(n) /\ ~Submitted(n)' /\ \A m \in Children : m # n => (Submitted(m)' <=> Submitted(m))
  <2>1. CallOf(b).arg = n
    BY <1>2
  <2>2. \A c \in Bodies : c # b => CallOf(c)' = CallOf(c)
    BY <1>1, <1>4 DEF Types, CallOf
  <2>3. \A c \in Bodies : InRun(c) /\ CallOf(c).arg = n => c = b
    BY <1>1, <1>5, <2>1, GivenOnce
  <2>. QED BY <1>5, <2>1, <2>2, <2>3 DEF Submitted
<1>9. \A m : Held(m)' <=> Held(m)
  BY <1>6 DEF Held
<1>10. ListOnce'
  BY <1>6, ListsOnceKept DEF RefInv
<1>11. ListsScanned'
  BY <1>5, <1>6 DEF RefInv, ListsScanned
<1>12. LambdaOnce'
  <2>1. ASSUME NEW m \in Children
        PROVE  /\ \A g \in Groups : m \in queue'[g] => g = GroupOf[m]
               /\ m \in queue'[GroupOf[m]] => ~Submitted(m)' /\ ~Held(m)'
               /\ Submitted(m)' => ~Held(m)'
    <3>1. /\ \A g \in Groups : m \in queue[g] => g = GroupOf[m]
          /\ m \in queue[GroupOf[m]] => ~Submitted(m) /\ ~Held(m)
          /\ Submitted(m) => ~Held(m)
      BY DEF RefInv, LambdaOnce
    <3>2. GroupOf[m] \in Groups
      BY DEF ScopeAssumption, Bodies
    <3>. QED BY <1>7, <1>8, <1>9, <3>1, <3>2
  <2>. QED BY <2>1 DEF LambdaOnce
<1>13. ScansOwn'
  BY <1>1, <1>2, <1>6, ScansKept DEF RefInv
<1>14. RefsExact'
  <2>1. ASSUME NEW m \in Children PROVE RefOK(m)'
    <3>1. Listed(m)' <=> Listed(m)
      BY <1>6 DEF Listed
    <3>2. GroupOf[m] \in Groups
      BY DEF ScopeAssumption, Bodies
    <3>3. Lambda(m)' <=> Lambda(m)
      BY <1>6, <1>7, <1>8, <1>9, <3>2 DEF Lambda
    <3>. QED BY <1>6, <3>1, <3>3 DEF RefInv, RefsExact, RefOK
  <2>. QED BY <2>1 DEF RefsExact
<1>. QED BY <1>10, <1>11, <1>12, <1>13, <1>14 DEF RefInv

\* A worker begins to execute child n: the lambda goes from the queue to its stack, or the
\* joiner that has the node in its list claims it.
LEMMA RefsOfPush ==
  ASSUME ScopeAssumption, ScopeInv, RefInv, Types', NEW w \in Workers, NEW n \in Children,
         Known(n), ~claimed[n], Push(w, n), UNCHANGED <<nodes, refs, at>>,
         \A c \in Bodies : /\ join'[c].list = join[c].list
                           /\ Members(join'[c].todo) \subseteq Members(join[c].todo),
         NEW g \in Groups,
         \/ /\ pc[w] \in {"idle", "submit"}
            /\ n \in queue[g] /\ queue' = [queue EXCEPT ![g] = @ \ {n}]
         \/ /\ pc[w] = "scan"
            /\ queue' = queue /\ n \in Members(join[Body(w)].list)
  PROVE  RefInv'
<1>1. Types /\ Control /\ StackOnce /\ StackInv /\ RunsGiven
  BY DEF ScopeInv, StackInv, ChildInv
<1>2. n \in given \ done /\ ~OnStack(n) /\ n \in Bodies
  BY <1>1 DEF Known, RunsGiven, Bodies
<1>3. pc[w] \in {"idle", "submit", "scan"}
  OBVIOUS
<1>4. StackInv' /\ Goes(n, "user") /\ Pushes(w, n)
  BY <1>1, <1>2, <1>3, PushStep, PushTyped
<1>5. ~InRun(n) /\ ~InScan(n)
  BY <1>2 DEF OnStack, InRun, InScan, IsAt, LivePlaces, RunPlaces, ScanPlaces
<1>6. \A c \in Bodies : (InRun(c)' <=> InRun(c)) /\ (InScan(c) => InScan(c)')
  BY <1>4, <1>5 DEF Goes, Stays, PlaceIs, RunPlaces
<1>7. \A m : Submitted(m)' <=> Submitted(m)
  BY <1>6, SubmittedSame
<1>. DEFINE k == Len(stack[w]) + 1
<1>8. /\ Len(stack[w]) \in Nat
      /\ DOMAIN stack'[w] = DOMAIN stack[w] \cup {k}
      /\ DOMAIN stack[w] = 1 .. Len(stack[w])
      /\ \A i \in DOMAIN stack[w] : stack'[w][i] = stack[w][i]
      /\ stack'[w][k].body = n /\ stack'[w][k].back = pc[w]
      /\ \A v \in Workers : v # w => stack'[v] = stack[v]
  BY <1>1, <1>4, PushFrames
<1>9. \A v \in Workers : \A i \in DOMAIN stack[v] : stack[v][i].body # n
  BY <1>1, <1>2, Stacked
<1>10. \A m : Held(m)' <=> Held(m) \/ (m = n /\ pc[w] # "scan")
  <2>1. ASSUME NEW m, Held(m) PROVE Held(m)'
    <3>1. PICK v \in Workers : \E i \in DOMAIN stack[v] :
            stack[v][i].body = m /\ ByLambda(stack[v][i])
      BY <2>1 DEF Held
    <3>2. PICK i \in DOMAIN stack[v] : stack[v][i].body = m /\ ByLambda(stack[v][i])
      BY <3>1
    <3>3. i \in DOMAIN stack'[v] /\ stack'[v][i] = stack[v][i]
      BY <1>8
    <3>. QED BY <3>2, <3>3 DEF Held
  <2>2. ASSUME pc[w] # "scan" PROVE Held(n)'
    <3>1. k \in DOMAIN stack'[w] /\ stack'[w][k].body = n /\ ByLambda(stack'[w][k])
      BY <1>8, <2>2 DEF ByLambda
    <3>. QED BY <3>1 DEF Held
  <2>3. ASSUME NEW m, Held(m)' PROVE Held(m) \/ (m = n /\ pc[w] # "scan")
    <3>1. PICK v \in Workers : \E i \in DOMAIN stack'[v] :
            stack'[v][i].body = m /\ ByLambda(stack'[v][i])
      BY <2>3 DEF Held
    <3>2. PICK i \in DOMAIN stack'[v] : stack'[v][i].body = m /\ ByLambda(stack'[v][i])
      BY <3>1
    <3>3. CASE i \in DOMAIN stack[v]
      <4>1. stack'[v][i] = stack[v][i]
        BY <1>8, <3>3
      <4>. QED BY <3>2, <3>3, <4>1 DEF Held
    <3>4. CASE i \notin DOMAIN stack[v]
      BY <1>8, <3>2, <3>4 DEF ByLambda
    <3>. QED BY <3>3, <3>4
  <2>. QED BY <2>1, <2>2, <2>3
<1>11. ~Held(n)
  BY <1>9 DEF Held
<1>12. /\ \A h \in Groups : queue'[h] \subseteq queue[h]
       /\ \A m \in Children : m # n => \A h \in Groups : m \in queue'[h] <=> m \in queue[h]
       /\ pc[w] = "scan" => queue' = queue
       /\ pc[w] # "scan" => n \in queue[GroupOf[n]] /\ n \notin queue'[GroupOf[n]]
  <2>1. CASE queue' = queue /\ pc[w] = "scan"
    BY <2>1
  <2>2. CASE pc[w] # "scan" /\ n \in queue[g] /\ queue' = [queue EXCEPT ![g] = @ \ {n}]
    <3>1. g = GroupOf[n]
      BY <2>2 DEF RefInv, LambdaOnce
    <3>2. \A h \in Groups : queue'[h] = IF h = g THEN queue[h] \ {n} ELSE queue[h]
      BY <1>1, <2>2 DEF Types
    <3>. QED BY <2>2, <3>1, <3>2
  <2>. QED BY <2>1, <2>2
<1>13. \A m \in Children : GroupOf[m] \in Groups
  BY DEF ScopeAssumption, Bodies
<1>14. ListOnce'
  BY ListsOnceKept DEF RefInv
<1>15. ListsScanned'
  <2>1. ASSUME NEW c \in Bodies
        PROVE  /\ join'[c].list # <<>> => InScan(c)'
               /\ Members(join'[c].todo) \subseteq Members(join'[c].list)
    BY <1>6 DEF RefInv, ListsScanned
  <2>. QED BY <2>1 DEF ListsScanned, Members
<1>16. LambdaOnce'
  <2>1. ASSUME NEW m \in Children
        PROVE  /\ \A h \in Groups : m \in queue'[h] => h = GroupOf[m]
               /\ m \in queue'[GroupOf[m]] => ~Submitted(m)' /\ ~Held(m)'
               /\ Submitted(m)' => ~Held(m)'
    <3>1. /\ \A h \in Groups : m \in queue[h] => h = GroupOf[m]
          /\ m \in queue[GroupOf[m]] => ~Submitted(m) /\ ~Held(m)
          /\ Submitted(m) => ~Held(m)
      BY DEF RefInv, LambdaOnce
    <3>. QED BY <1>7, <1>10, <1>12, <1>13, <3>1
  <2>. QED BY <2>1 DEF LambdaOnce
<1>17. ScansOwn'
  <2>1. ASSUME NEW v \in Workers, NEW i \in DOMAIN stack'[v], ~ByLambda(stack'[v][i])
        PROVE  stack'[v][i].body \in Members(join'[stack'[v][i - 1].body].list)
    <3>1. CASE i \in DOMAIN stack[v]
      <4>1. stack[v] \in Seq(FrameType) /\ stack'[v][i] = stack[v][i]
        BY <1>1, <1>8, <3>1 DEF Types
      <4>2. i # 1
        BY <1>1, <2>1, <3>1, <4>1 DEF Control, FrameOK, ByLambda
      <4>3. i - 1 \in DOMAIN stack[v]
        BY <3>1, <4>1, <4>2, LenProperties
      <4>4. stack'[v][i - 1] = stack[v][i - 1] /\ stack[v][i - 1].body \in Bodies
        BY <1>1, <1>8, <4>3, Stacked DEF FrameType
      <4>5. stack[v][i].body \in Members(join[stack[v][i - 1].body].list)
        BY <2>1, <3>1, <4>1 DEF RefInv, ScansOwn
      <4>. QED BY <4>1, <4>4, <4>5
    <3>2. CASE i \notin DOMAIN stack[v]
      <4>1. v = w /\ i = k
        BY <1>8, <3>2
      <4>2. pc[w] = "scan" /\ stack[w] # <<>>
        BY <1>1, <1>8, <2>1, <4>1 DEF ByLambda, Control, WorkerOK
      <4>3. Body(w) \in Bodies /\ Len(stack[w]) \in DOMAIN stack[w]
        BY <1>1, <4>2, TopTyped
      <4>4. i - 1 = Len(stack[w])
        BY <1>8, <4>1
      <4>5. stack'[w][i - 1].body = Body(w)
        BY <1>8, <4>3, <4>4 DEF Body, Top
      <4>6. stack'[v][i].body = n
        BY <1>8, <4>1
      <4>. QED BY <4>1, <4>2, <4>3, <4>5, <4>6
    <3>. QED BY <3>1, <3>2
  <2>. QED BY <2>1 DEF ScansOwn, Members
<1>18. RefsExact'
  <2>1. ASSUME NEW m \in Children PROVE RefOK(m)'
    <3>1. Listed(m)' <=> Listed(m)
      BY DEF Listed
    <3>2. Lambda(m)' <=> Lambda(m)
      BY <1>7, <1>10, <1>11, <1>12, <1>13 DEF Lambda
    <3>. QED BY <3>1, <3>2 DEF RefInv, RefsExact, RefOK
  <2>. QED BY <2>1 DEF RefsExact
<1>. QED BY <1>14, <1>15, <1>16, <1>17, <1>18 DEF RefInv

LEMMA RefsOfTake ==
  ASSUME ScopeAssumption, ScopeInv, RefInv, NEW w \in Workers, Take(w)
  PROVE  RefInv'
<1>1. Types /\ Types'
  BY TakeTyped DEF ScopeInv, StackInv
<1>2. PICK g \in Groups : \E n \in queue[g] :
        /\ queue' = [queue EXCEPT ![g] = @ \ {n}]
        /\ \/ ~claimed[n] /\ Push(w, n) /\ UNCHANGED refs
           \/ claimed[n] /\ Release({n}) /\ UNCHANGED <<claimed, pc, stack, slot>>
  BY DEF Take
<1>3. PICK n \in queue[g] :
        /\ queue' = [queue EXCEPT ![g] = @ \ {n}]
        /\ \/ ~claimed[n] /\ Push(w, n) /\ UNCHANGED refs
           \/ claimed[n] /\ Release({n}) /\ UNCHANGED <<claimed, pc, stack, slot>>
  BY <1>2
<1>4. n \in Children /\ Known(n)
  BY <1>1 DEF Types, ScopeInv, ChildInv, ListsKnown
<1>5. pc[w] \in {"idle", "submit"} /\ UNCHANGED <<nodes, at, join>>
  BY DEF Take, In, scopeVars
<1>6. CASE ~claimed[n] /\ Push(w, n) /\ refs' = refs
  BY <1>1, <1>3, <1>4, <1>5, <1>6, RefsOfPush
<1>7. CASE Release({n}) /\ UNCHANGED <<pc, stack, slot>>
  <2>1. \A c \in Bodies : Stays(c)
    BY <1>1, <1>5, <1>7, StackStutter DEF ScopeInv
  <2>2. \A m : (Submitted(m)' <=> Submitted(m)) /\ (Held(m)' <=> Held(m))
    <3>1. \A m : Submitted(m)' <=> Submitted(m)
      BY <1>5, <2>1, SubmittedSame DEF Stays
    <3>. QED BY <1>7, <3>1 DEF Held
  <2>3. n \in queue[GroupOf[n]] /\ g = GroupOf[n] /\ ~Submitted(n) /\ ~Held(n)
    BY <1>4 DEF RefInv, LambdaOnce
  <2>4. \A h \in Groups : queue'[h] = IF h = g THEN queue[h] \ {n} ELSE queue[h]
    BY <1>1, <1>3 DEF Types
  <2>5. ListOnce'
    BY <1>5, ListsOnceKept DEF RefInv
  <2>6. ListsScanned'
    BY <1>5, <2>1 DEF RefInv, ListsScanned, Stays
  <2>7. LambdaOnce'
    <3>1. \A h \in Groups : queue'[h] \subseteq queue[h]
      BY <2>4
    <3>. QED BY <2>2, <3>1, LambdaKept DEF RefInv
  <2>8. ScansOwn'
    BY <1>5, <1>7 DEF RefInv, ScansOwn
  <2>9. RefsExact'
    <3>1. ASSUME NEW m \in Children PROVE RefOK(m)'
      <4>1. Listed(m)' <=> Listed(m)
        BY <1>5 DEF Listed
      <4>2. GroupOf[m] \in Groups
        BY DEF ScopeAssumption, Bodies
      <4>3. refs[m] = (IF Listed(m) THEN 1 ELSE 0) + (IF Lambda(m) THEN 1 ELSE 0)
        BY DEF RefInv, RefsExact, RefOK
      <4>4. CASE m = n
        <5>1. Lambda(n) /\ ~Lambda(n)'
          BY <2>2, <2>3, <2>4, <4>2, <4>4 DEF Lambda
        <5>2. refs'[n] = refs[n] - 1
          BY <1>4, <1>7 DEF Release
        <5>. QED BY <4>1, <4>3, <4>4, <5>1, <5>2 DEF RefOK
      <4>5. CASE m # n
        <5>1. Lambda(m)' <=> Lambda(m)
          BY <2>2, <2>4, <4>2, <4>5 DEF Lambda
        <5>2. refs'[m] = refs[m]
          BY <1>7, <4>5 DEF Release
        <5>. QED BY <4>1, <4>3, <5>1, <5>2 DEF RefOK
      <4>. QED BY <4>4, <4>5
    <3>. QED BY <3>1 DEF RefsExact
  <2>. QED BY <2>5, <2>6, <2>7, <2>8, <2>9 DEF RefInv
<1>. QED BY <1>3, <1>6, <1>7

LEMMA RefsOfScan ==
  ASSUME ScopeAssumption, ScopeInv, RefInv, NEW w \in Workers, JoinScan(w)
  PROVE  RefInv'
<1>1. Types' /\ StackInv
  BY JoinsTyped DEF ScopeInv, StackInv
<1>2. /\ pc[w] = "scan" /\ Body(w) \in Bodies
      /\ Head(join[Body(w)].todo) \in Members(join[Body(w)].todo)
      /\ Head(join[Body(w)].todo) \in Children /\ Known(Head(join[Body(w)].todo))
      /\ \A c \in Bodies : /\ join'[c].list = join[c].list
                           /\ Members(join'[c].todo) \subseteq Members(join[c].todo)
  BY ScanStep
<1>. PICK n \in Children : n = Head(join[Body(w)].todo)
  BY <1>2
<1>3. /\ UNCHANGED <<nodes, refs, queue, at>>
      /\ \/ ~claimed[n] /\ Push(w, n)
         \/ UNCHANGED <<claimed, pc, stack, slot>>
  BY DEF JoinScan, Locals, scopeVars
<1>4. n \in Members(join[Body(w)].list) /\ GroupOf[n] \in Groups
  BY <1>2 DEF RefInv, ListsScanned, ScopeAssumption, Bodies
<1>5. CASE ~claimed[n] /\ Push(w, n)
  BY <1>1, <1>2, <1>3, <1>4, <1>5, RefsOfPush
<1>6. CASE UNCHANGED <<claimed, pc, stack, slot>>
  <2>1. \A c \in Bodies : Stays(c)
    BY <1>1, <1>3, <1>6, StackStutter
  <2>. QED BY <1>2, <1>3, <1>6, <2>1, RefQuiet DEF Stays
<1>. QED BY <1>3, <1>5, <1>6

LEMMA RefsOfCompleted ==
  ASSUME ScopeAssumption, ScopeInv, RefInv, NEW w \in Workers, Completed(w)
  PROVE  RefInv'
<1>1. Types /\ Control /\ StackOnce /\ RunsGiven /\ CountInv /\ StackInv
  BY DEF ScopeInv, StackInv, ChildInv
<1>2. pc[w] = "completed" /\ stack[w] # <<>> /\ Body(w) \in Children
  BY <1>1, EndTyped DEF Completed, EndPlaces
<1>. PICK b \in Children : b = Body(w)
  BY <1>2
<1>3. /\ refs' = [n \in Children |-> IF n = b /\ ByLambda(Top(w)) THEN refs[n] - 1 ELSE refs[n]]
      /\ UNCHANGED <<nodes, queue, at, join>>
  BY <1>1 DEF Completed, Release, Types
<1>4. StackInv' /\ Goes(b, "idle") /\ b \in Bodies
  BY <1>1, CompletedStack DEF Bodies
<1>5. PlaceIs(b, "completed")
  BY <1>1, <1>2, TopAt
<1>6. \A c \in Bodies : (InRun(c)' <=> InRun(c)) /\ (InScan(c) => InScan(c)')
  BY <1>4, <1>5 DEF Goes, Stays, PlaceIs, RunPlaces
<1>7. /\ Len(stack[w]) \in Nat \ {0} /\ DOMAIN stack[w] = 1 .. Len(stack[w])
      /\ DOMAIN stack'[w] = 1 .. Len(stack[w]) - 1
      /\ \A i \in DOMAIN stack'[w] : stack'[w][i] = stack[w][i]
      /\ \A v \in Workers : v # w => stack'[v] = stack[v]
  BY <1>1, <1>2, CompletedPops, PopFrames
<1>8. \A v \in Workers : \A i \in DOMAIN stack'[v] : i \in DOMAIN stack[v] /\ stack'[v][i] = stack[v][i]
  BY <1>7
<1>9. ScansOwn' /\ \A n : Held(n)' => Held(n)
  BY <1>3, <1>4, <1>8, FramesKept DEF RefInv
<1>10. \A v \in Workers : \A i \in DOMAIN stack[v] :
         stack[v][i].body = b <=> v = w /\ i = Len(stack[w])
  BY <1>1, <1>7 DEF StackOnce, Body, Top
<1>11. \A n : n # b => (Held(n) => Held(n)')
  <2>. SUFFICES ASSUME NEW n, n # b, Held(n) PROVE Held(n)'
    OBVIOUS
  <2>1. PICK v \in Workers : \E i \in DOMAIN stack[v] :
          stack[v][i].body = n /\ ByLambda(stack[v][i])
    BY DEF Held
  <2>2. PICK i \in DOMAIN stack[v] : stack[v][i].body = n /\ ByLambda(stack[v][i])
    BY <2>1
  <2>3. i \in DOMAIN stack'[v]
    BY <1>7, <1>10, <2>2
  <2>. QED BY <1>8, <2>2, <2>3 DEF Held
<1>12. (Held(b) <=> ByLambda(Top(w))) /\ ~Held(b)'
  <2>1. Held(b) <=> ByLambda(Top(w))
    BY <1>7, <1>10 DEF Held, Top
  <2>2. ~Held(b)'
    <3>1. \A v \in Workers : \A i \in DOMAIN stack'[v] : stack'[v][i].body # b
      BY <1>7, <1>8, <1>10
    <3>. QED BY <3>1 DEF Held
  <2>. QED BY <2>1, <2>2
<1>13. \A n : Submitted(n)' <=> Submitted(n)
  BY <1>3, <1>6, SubmittedSame
<1>14. ListOnce'
  BY <1>3, ListsOnceKept DEF RefInv
<1>15. ListsScanned'
  BY <1>3, <1>6 DEF RefInv, ListsScanned
<1>16. LambdaOnce'
  BY <1>3, <1>9, <1>13, LambdaKept DEF RefInv
<1>17. RefsExact'
  <2>1. ASSUME NEW n \in Children PROVE RefOK(n)'
    <3>1. Listed(n)' <=> Listed(n)
      BY <1>3 DEF Listed
    <3>2. refs[n] = (IF Listed(n) THEN 1 ELSE 0) + (IF Lambda(n) THEN 1 ELSE 0)
      BY DEF RefInv, RefsExact, RefOK
    <3>3. CASE n = b /\ ByLambda(Top(w))
      <4>1. Lambda(n) /\ ~Lambda(n)'
        BY <1>3, <1>12, <1>13, <3>3 DEF Lambda, RefInv, LambdaOnce
      <4>2. refs'[n] = refs[n] - 1
        BY <1>3, <3>3
      <4>. QED BY <3>1, <3>2, <4>1, <4>2 DEF RefOK
    <3>4. CASE ~(n = b /\ ByLambda(Top(w)))
      <4>1. Held(n)' <=> Held(n)
        BY <1>9, <1>11, <1>12, <3>4
      <4>2. Lambda(n)' <=> Lambda(n)
        BY <1>3, <1>13, <4>1 DEF Lambda
      <4>3. refs'[n] = refs[n]
        BY <1>3, <3>4
      <4>. QED BY <3>1, <3>2, <4>2, <4>3 DEF RefOK
    <3>. QED BY <3>3, <3>4
  <2>. QED BY <2>1 DEF RefsExact
<1>. QED BY <1>9, <1>14, <1>15, <1>16, <1>17 DEF RefInv

\* A joiner takes the list of its scope: every node stays listed once.
LEMMA RefsOfJoinTake ==
  ASSUME ScopeAssumption, ScopeInv, RefInv, NEW w \in Workers, JoinTake(w)
  PROVE  RefInv'
<1>1. Types /\ Control /\ StackOnce /\ StackInv
  BY DEF ScopeInv, StackInv
<1>2. /\ pc[w] = "take" /\ stack[w] # <<>> /\ Body(w) \in Bodies /\ Call(w).arg \in Scopes
  BY <1>1, CallTyped DEF JoinTake, In
<1>. PICK b \in Bodies : b = Body(w)
  BY <1>2
<1>. PICK s \in Scopes : s = Call(w).arg
  BY <1>2
<1>3. PlaceIs(b, "take")
  BY <1>1, <1>2, TopAt
<1>4. StackInv' /\ \E l \in ScanPlaces \cup WaitPlaces : Goes(b, l)
  BY <1>1, JoinStack
<1>5. \A c \in Bodies : (InRun(c)' <=> InRun(c)) /\ (InScan(c) => InScan(c)')
  BY <1>3, <1>4 DEF Goes, Stays, PlaceIs, RunPlaces, ScanPlaces, WaitPlaces
<1>6. /\ UNCHANGED <<refs, queue, stack, at>> /\ nodes' = [nodes EXCEPT ![s] = <<>>]
      /\ pc' = [pc EXCEPT ![w] = "scan"]
      /\ join' = [join EXCEPT ![b] = [NoJoin EXCEPT !.list = nodes[s], !.todo = nodes[s],
                                                    !.had = nodes[s] # <<>>]]
  BY DEF JoinTake, Goto, nodeVars
<1>7. /\ nodes'[s] = <<>> /\ \A t \in Scopes : t # s => nodes'[t] = nodes[t]
      /\ join'[b].list = nodes[s] /\ join'[b].todo = nodes[s]
      /\ \A c \in Bodies : c # b => join'[c] = join[c]
  BY <1>1, <1>6 DEF Types, NoJoin
<1>8. Members(join[b].list) = {} /\ Members(nodes'[s]) = {}
  <2>1. join[b].list = <<>>
    BY <1>3 DEF RefInv, ListsScanned, PlaceIs
  <2>. QED BY <1>7, <2>1 DEF Members
<1>9. InScan(b)'
  <2>1. (\A v \in Workers : stack[v] # <<>> => PlaceIs(Body(v), pc[v]))'
    BY <1>4, TopAtNext DEF StackInv
  <2>2. PlaceIs(Body(w), pc[w])'
    BY <1>2, <1>6, <2>1
  <2>3. Body(w)' = b /\ pc'[w] = "scan"
    BY <1>1, <1>6 DEF Body, Top, Types
  <2>. QED BY <2>2, <2>3 DEF PlaceIs
<1>10. \A n : (Submitted(n)' <=> Submitted(n)) /\ (Held(n)' <=> Held(n))
  <2>1. \A n : Submitted(n)' <=> Submitted(n)
    BY <1>5, <1>6, SubmittedSame
  <2>. QED BY <1>6, <2>1 DEF Held
<1>11. ListOnce'
  <2>1. ASSUME NEW t \in Scopes, NEW n \in Members(nodes'[t])
        PROVE  ScopeOf[n] = t /\ \A c \in Bodies : n \notin Members(join'[c].list)
    <3>1. t # s /\ n \in Members(nodes[t])
      BY <1>7, <1>8
    <3>2. ScopeOf[n] = t /\ \A c \in Bodies : n \notin Members(join[c].list)
      BY <3>1 DEF RefInv, ListOnce
    <3>3. n \notin Members(nodes[s])
      BY <3>1, <3>2 DEF RefInv, ListOnce
    <3>. QED BY <1>7, <3>2, <3>3
  <2>2. ASSUME NEW a \in Bodies, NEW c \in Bodies, NEW n \in Members(join'[a].list),
               n \in Members(join'[c].list)
        PROVE  a = c
    <3>1. \A x \in Bodies, y \in Bodies : x # b /\ y # b /\ x # y =>
            ~(n \in Members(join'[x].list) /\ n \in Members(join'[y].list))
      BY <1>7 DEF RefInv, ListOnce
    <3>2. \A x \in Bodies : x # b => ~(n \in Members(nodes[s]) /\ n \in Members(join'[x].list))
      BY <1>7 DEF RefInv, ListOnce
    <3>. QED BY <1>7, <2>2, <3>1, <3>2
  <2>. QED BY <2>1, <2>2 DEF ListOnce, Members
<1>12. ListsScanned'
  <2>1. ASSUME NEW c \in Bodies
        PROVE  /\ join'[c].list # <<>> => InScan(c)'
               /\ Members(join'[c].todo) \subseteq Members(join'[c].list)
    BY <1>5, <1>7, <1>9 DEF RefInv, ListsScanned
  <2>. QED BY <2>1 DEF ListsScanned, Members
<1>13. LambdaOnce'
  BY <1>6, <1>10, LambdaKept DEF RefInv
<1>14. ScansOwn'
  BY <1>1, <1>2, <1>6, <1>7, ScansKept DEF RefInv
<1>15. RefsExact'
  <2>1. ASSUME NEW n \in Children PROVE RefOK(n)'
    <3>1. ScopeOf[n] \in Scopes
      BY DEF ScopeAssumption
    <3>2. Listed(n) => Listed(n)'
      <4>1. ASSUME n \in Members(nodes[ScopeOf[n]]) PROVE Listed(n)'
        BY <1>7, <3>1, <4>1 DEF Listed
      <4>2. ASSUME NEW c \in Bodies, n \in Members(join[c].list) PROVE Listed(n)'
        BY <1>7, <1>8, <4>2 DEF Listed
      <4>. QED BY <4>1, <4>2 DEF Listed
    <3>3. Listed(n)' => Listed(n)
      <4>1. ASSUME n \in Members(nodes'[ScopeOf[n]]) PROVE Listed(n)
        BY <1>7, <1>8, <3>1, <4>1 DEF Listed
      <4>2. ASSUME NEW c \in Bodies, n \in Members(join'[c].list) PROVE Listed(n)
        <5>1. CASE c = b
          <6>1. n \in Members(nodes[s]) /\ ScopeOf[n] = s
            BY <1>7, <4>2, <5>1 DEF RefInv, ListOnce
          <6>. QED BY <6>1 DEF Listed
        <5>2. CASE c # b
          BY <1>7, <4>2, <5>2 DEF Listed
        <5>. QED BY <5>1, <5>2
      <4>. QED BY <4>1, <4>2 DEF Listed
    <3>4. Lambda(n)' <=> Lambda(n)
      BY <1>6, <1>10 DEF Lambda
    <3>. QED BY <1>6, <3>2, <3>3, <3>4 DEF RefInv, RefsExact, RefOK
  <2>. QED BY <2>1 DEF RefsExact
<1>. QED BY <1>11, <1>12, <1>13, <1>14, <1>15 DEF RefInv

\* A set of listed nodes is dropped: they are in no list any more.
LEMMA RefsOfDrop ==
  ASSUME ScopeAssumption, ScopeInv, RefInv, NEW w \in Workers, stack[w] # <<>>,
         NEW ns, Release(ns), \A n \in ns : n \in Children => Listed(n) /\ ~Listed(n)',
         \A n \in Children : n \notin ns => (Listed(n)' <=> Listed(n)),
         UNCHANGED <<queue, stack>>,
         \A s \in Scopes : Members(nodes'[s]) \subseteq Members(nodes[s]),
         \A c \in Bodies : /\ InRun(c)' <=> InRun(c)
                           /\ InRun(c) => at'[c] = at[c]
                           /\ c # Body(w) => join'[c] = join[c] /\ (InScan(c) => InScan(c)'),
         join'[Body(w)].list = <<>> /\ Members(join'[Body(w)].todo) = {}
  PROVE  RefInv'
<1>1. Types /\ Control /\ StackOnce /\ StackInv
  BY DEF ScopeInv, StackInv
<1>2. Members(<<>>) = {}
  BY DEF Members
<1>3. \A n : (Submitted(n)' <=> Submitted(n)) /\ (Held(n)' <=> Held(n))
  <2>1. \A n : Submitted(n)' <=> Submitted(n)
    BY SubmittedSame
  <2>. QED BY <2>1 DEF Held
<1>4. ListOnce'
  <2>1. \A c \in Bodies : Members(join'[c].list) \subseteq Members(join[c].list)
    BY <1>2
  <2>. QED BY <2>1, ListsOnceKept DEF RefInv
<1>5. ListsScanned'
  <2>1. ASSUME NEW c \in Bodies
        PROVE  /\ join'[c].list # <<>> => InScan(c)'
               /\ Members(join'[c].todo) \subseteq Members(join'[c].list)
    BY DEF RefInv, ListsScanned
  <2>. QED BY <2>1 DEF ListsScanned, Members
<1>6. LambdaOnce'
  BY <1>3, LambdaKept DEF RefInv
<1>7. ScansOwn'
  BY <1>1, ScansKept DEF RefInv
<1>8. RefsExact'
  <2>1. ASSUME NEW n \in Children PROVE RefOK(n)'
    <3>1. Lambda(n)' <=> Lambda(n)
      BY <1>3 DEF Lambda
    <3>2. refs[n] = (IF Listed(n) THEN 1 ELSE 0) + (IF Lambda(n) THEN 1 ELSE 0)
      BY DEF RefInv, RefsExact, RefOK
    <3>3. refs'[n] = IF n \in ns THEN refs[n] - 1 ELSE refs[n]
      BY DEF Release
    <3>4. CASE n \in ns
      <4>1. Listed(n) /\ ~Listed(n)'
        BY <3>4
      <4>. QED BY <3>1, <3>2, <3>3, <3>4, <4>1 DEF RefOK
    <3>5. CASE n \notin ns
      <4>1. Listed(n)' <=> Listed(n)
        BY <3>5
      <4>. QED BY <3>1, <3>2, <3>3, <3>5, <4>1 DEF RefOK
    <3>. QED BY <3>4, <3>5
  <2>. QED BY <2>1 DEF RefsExact
<1>. QED BY <1>4, <1>5, <1>6, <1>7, <1>8 DEF RefInv

LEMMA RefsOfJoinRelease ==
  ASSUME ScopeAssumption, ScopeInv, RefInv, NEW w \in Workers, JoinRelease(w)
  PROVE  RefInv'
<1>1. Types /\ Control /\ StackOnce /\ StackInv
  BY DEF ScopeInv, StackInv
<1>2. pc[w] = "scan" /\ stack[w] # <<>> /\ Body(w) \in Bodies
  BY <1>1, CallTyped DEF JoinRelease, In
<1>. PICK b \in Bodies : b = Body(w)
  BY <1>2
<1>3. PlaceIs(b, "scan")
  BY <1>1, <1>2, TopAt
<1>4. \E l \in ScanPlaces \cup WaitPlaces : Goes(b, l)
  BY <1>1, JoinStack
<1>5. \A c \in Bodies : (InRun(c)' <=> InRun(c)) /\ (c # b => (InScan(c) => InScan(c)'))
  BY <1>3, <1>4 DEF Goes, Stays, PlaceIs, RunPlaces, ScanPlaces, WaitPlaces
<1>. DEFINE ns == Members(join[b].list)
<1>6. /\ UNCHANGED <<nodes, queue, stack, at>> /\ Release(ns)
      /\ join[b].todo = <<>> /\ join' = [join EXCEPT ![b].list = <<>>]
  BY DEF JoinRelease, Locals, scopeVars
<1>7. /\ join'[b].list = <<>> /\ join'[b].todo = <<>>
      /\ \A c \in Bodies : c # b => join'[c] = join[c]
  <2>1. join[b] \in JoinType
    BY <1>1 DEF Types
  <2>. QED BY <1>1, <1>6, <2>1 DEF Types, JoinType
<1>8. Members(<<>>) = {}
  BY DEF Members
<1>9. ASSUME NEW n \in ns, n \in Children PROVE Listed(n) /\ ~Listed(n)'
  <2>1. ScopeOf[n] \in Scopes
    BY <1>9 DEF ScopeAssumption
  <2>2. n \notin Members(nodes[ScopeOf[n]]) /\ \A c \in Bodies : n \in Members(join[c].list) => c = b
    BY <2>1 DEF RefInv, ListOnce
  <2>. QED BY <1>6, <1>7, <1>8, <2>2 DEF Listed
<1>10. ASSUME NEW n \in Children, n \notin ns PROVE Listed(n)' <=> Listed(n)
  BY <1>6, <1>7, <1>8, <1>10 DEF Listed
<1>. HIDE DEF ns
<1>. QED BY <1>2, <1>5, <1>6, <1>7, <1>8, <1>9, <1>10, RefsOfDrop

LEMMA RefsOfOwner ==
  ASSUME ScopeAssumption, ScopeInv, RefInv, NEW w \in Workers, Rethrow(w) \/ Reset(w) \/ Destroy(w)
  PROVE  RefInv'
<1>1. Types /\ Control /\ StackOnce /\ StackInv
  BY DEF ScopeInv, StackInv
<1>2. /\ stack[w] # <<>> /\ Body(w) \in Bodies /\ Call(w).arg \in Scopes
      /\ pc[w] \in {"user", "rethrow"}
  <2>1. CASE Rethrow(w)
    BY <1>1, <2>1, InCall DEF Rethrow, WaitPlaces
  <2>2. CASE Reset(w) \/ Destroy(w)
    BY <1>1, <2>2, CallTyped DEF Reset, Destroy, In
  <2>. QED BY <2>1, <2>2
<1>. PICK b \in Bodies : b = Body(w)
  BY <1>2
<1>. PICK s \in Scopes : s = Call(w).arg
  BY <1>2
<1>3. PlaceIs(b, pc[w])
  BY <1>1, <1>2, TopAt
<1>4. Goes(b, "user") /\ at' = [at EXCEPT ![b] = @ + 1]
  BY <1>1, SubmitStack
<1>5. /\ ~InRun(b) /\ ~InScan(b)
      /\ \A c \in Bodies : (InRun(c)' <=> InRun(c)) /\ (c # b => (InScan(c) => InScan(c)'))
  BY <1>2, <1>3, <1>4 DEF Goes, Stays, PlaceIs, RunPlaces
<1>6. \A c \in Bodies : InRun(c) => at'[c] = at[c]
  BY <1>1, <1>4, <1>5 DEF Types
<1>7. Members(<<>>) = {}
  BY DEF Members
<1>8. UNCHANGED <<queue, stack>> /\ join' \in {join, [join EXCEPT ![b] = NoJoin]}
  BY DEF Rethrow, Reset, Destroy
<1>9. /\ join[b].list = <<>> /\ join'[b].list = <<>> /\ Members(join'[b].todo) = {}
      /\ \A c \in Bodies : c # b => join'[c] = join[c]
  <2>1. join[b].list = <<>> /\ Members(join[b].todo) \subseteq Members(join[b].list)
    BY <1>5 DEF RefInv, ListsScanned
  <2>2. Members(join[b].todo) = {}
    BY <1>7, <2>1
  <2>3. CASE join' = join
    BY <2>1, <2>2, <2>3
  <2>4. CASE join' = [join EXCEPT ![b] = NoJoin]
    <3>1. join'[b] = NoJoin /\ \A c \in Bodies : c # b => join'[c] = join[c]
      BY <1>1, <2>4 DEF Types
    <3>. QED BY <1>7, <2>1, <3>1 DEF NoJoin
  <2>. QED BY <1>8, <2>3, <2>4
<1>10. CASE DropNodes(s)
  <2>. DEFINE ns == Members(nodes[s])
  <2>1. /\ Release(ns) /\ nodes'[s] = <<>> /\ \A t \in Scopes : t # s => nodes'[t] = nodes[t]
    BY <1>1, <1>10 DEF DropNodes, Types
  <2>2. ASSUME NEW n \in ns, n \in Children PROVE Listed(n) /\ ~Listed(n)'
    <3>1. ScopeOf[n] = s /\ \A c \in Bodies : n \notin Members(join[c].list)
      BY <2>2 DEF RefInv, ListOnce
    <3>. QED BY <1>7, <1>9, <2>1, <3>1 DEF Listed
  <2>3. ASSUME NEW n \in Children, n \notin ns PROVE Listed(n)' <=> Listed(n)
    <3>1. ScopeOf[n] \in Scopes
      BY DEF ScopeAssumption
    <3>2. n \in Members(nodes'[ScopeOf[n]]) <=> n \in Members(nodes[ScopeOf[n]])
      BY <1>7, <2>1, <2>3, <3>1
    <3>3. \A c \in Bodies : n \in Members(join'[c].list) <=> n \in Members(join[c].list)
      BY <1>9
    <3>. QED BY <3>2, <3>3 DEF Listed
  <2>4. \A t \in Scopes : Members(nodes'[t]) \subseteq Members(nodes[t])
    BY <1>7, <2>1
  <2>. HIDE DEF ns
  <2>. QED BY <1>2, <1>5, <1>6, <1>8, <1>9, <2>1, <2>2, <2>3, <2>4, RefsOfDrop
<1>11. CASE UNCHANGED <<nodes, refs>>
  <2>1. Release({})
    BY <1>1, <1>11 DEF Release, Types
  <2>2. \A n : Listed(n)' <=> Listed(n)
    BY <1>9, <1>11 DEF Listed
  <2>3. \A t \in Scopes : Members(nodes'[t]) \subseteq Members(nodes[t])
    BY <1>11
  <2>. QED BY <1>2, <1>5, <1>6, <1>8, <1>9, <2>1, <2>2, <2>3, RefsOfDrop
<1>. QED BY <1>10, <1>11 DEF Rethrow, Reset, Destroy

LEMMA RefsAtInit ==
  ASSUME ScopeAssumption, Init
  PROVE  RefInv
<1>1. ScopeInv
  BY InitKeeps
<1>2. Members(<<>>) = {}
  BY DEF Members
<1>3. /\ \A s \in Scopes : Members(nodes[s]) = {}
      /\ \A b \in Bodies : join[b].list = <<>> /\ join[b].todo = <<>>
      /\ \A g \in Groups : queue[g] = {}
  BY <1>2 DEF Init, NoJoin
<1>4. \A n \in Children : ~Known(n) /\ refs[n] = 0
  BY DEF Init, Known
<1>5. \A n \in Children : ~Listed(n) /\ ~Lambda(n)
  BY <1>1, <1>4, UnknownNode
<1>6. ListOnce /\ ListsScanned
  BY <1>2, <1>3 DEF ListOnce, ListsScanned
<1>7. LambdaOnce
  BY <1>3, <1>5 DEF LambdaOnce, Lambda
<1>8. ScansOwn
  <2>1. \A w \in Workers : \A i \in DOMAIN stack[w] : stack[w][i].back = "idle"
    <3>1. ASSUME NEW w \in Workers, w # Caller, NEW i \in DOMAIN stack[w] PROVE FALSE
      <4>1. stack[w] = <<>>
        BY <3>1 DEF Init
      <4>. QED BY <3>1, <4>1
    <3>2. stack[Caller] = <<[body |-> Root, back |-> "idle", slot |-> None]>>
      BY DEF Init, ScopeAssumption
    <3>3. ASSUME NEW i \in DOMAIN stack[Caller] PROVE i = 1
      <4>1. Len(stack[Caller]) = 1 /\ stack[Caller] \in Seq(FrameType)
        BY <1>1, <3>2 DEF ScopeInv, StackInv, Types, ScopeAssumption
      <4>. QED BY <3>3, <4>1, LenProperties
    <3>. QED BY <3>1, <3>2, <3>3
  <2>. QED BY <2>1 DEF ScansOwn, ByLambda
<1>9. RefsExact
  BY <1>4, <1>5 DEF RefsExact, RefOK
<1>. QED BY <1>6, <1>7, <1>8, <1>9 DEF RefInv

\* The nodes stay right: RefInv is inductive relative to ScopeInv.
THEOREM RefsCorrect == ScopeAssumption /\ Spec => []RefInv
<1>. SUFFICES ASSUME ScopeAssumption PROVE Spec => []RefInv
  OBVIOUS
<1>1. Init => RefInv
  BY RefsAtInit
<1>2. ScopeInv /\ RefInv /\ [Next]_vars => RefInv'
  <2>. SUFFICES ASSUME ScopeInv, RefInv, [Next]_vars PROVE RefInv'
    OBVIOUS
  <2>1. ASSUME UNCHANGED vars PROVE RefInv'
    <3>1. UNCHANGED <<nodes, refs, queue, pc, stack, slot, at, join>> /\ Types'
      BY <2>1 DEF vars, ScopeInv, StackInv, Types
    <3>2. \A c \in Bodies : Stays(c)
      BY <3>1, StackStutter DEF ScopeInv
    <3>. QED BY <3>1, <3>2, RefQuiet DEF Stays
  <2>2. ASSUME NEW w \in Workers, Step(w) \/ SpuriousWake(w) PROVE RefInv'
    <3>1. CASE Run(w)
      BY <3>1, RefsOfRun
    <3>2. CASE \/ WakeJoiner(w) \/ JoinCall(w) \/ JoinLoad(w) \/ JoinCompare(w) \/ SpuriousWake(w)
               \/ Return(w) /\ Body(w) # Root
               \/ Complete(w)
      BY <3>2, RefsOfMoves
    <3>3. CASE Submit(w)
      BY <3>3, RefsOfSubmit
    <3>4. CASE Take(w)
      BY <3>4, RefsOfTake
    <3>5. CASE Return(w) /\ Body(w) = Root
      BY <3>5, RefsOfRoot
    <3>6. CASE Completed(w)
      BY <3>6, RefsOfCompleted
    <3>7. CASE JoinTake(w)
      BY <3>7, RefsOfJoinTake
    <3>8. CASE JoinScan(w)
      BY <3>8, RefsOfScan
    <3>9. CASE JoinRelease(w)
      BY <3>9, RefsOfJoinRelease
    <3>10. CASE Rethrow(w) \/ Reset(w) \/ Destroy(w)
      BY <3>10, RefsOfOwner
    <3>. QED BY <2>2, <3>1, <3>2, <3>3, <3>4, <3>5, <3>6, <3>7, <3>8, <3>9, <3>10 DEF Step
  <2>. QED BY <2>1, <2>2 DEF Next, Finished
<1>3. Spec => []ScopeInv
  BY ScopeCorrect
<1>. QED BY <1>1, <1>2, <1>3, PTL DEF Spec

LEMMA AtMostOne ==
  ASSUME NEW S, \A x \in S : \A y \in S : x = y
  PROVE  Cardinality(S) = IF S = {} THEN 0 ELSE 1
<1>1. CASE S = {}
  BY <1>1, FS_EmptySet
<1>2. CASE S # {}
  <2>1. PICK x \in S : TRUE
    BY <1>2
  <2>2. S = {x}
    BY <2>1
  <2>. QED BY <1>2, <2>2, FS_Singleton
<1>. QED BY <1>1, <1>2

\* The frames of a child, and the frames that are giving it.
LEMMA FramesOf ==
  ASSUME StackInv, NEW x \in Frames
  PROVE  \E w \in Workers : \E i \in DOMAIN stack[w] :
           x = <<w, i>> /\ Frame(x) = stack[w][i] /\ stack[w][i].body \in Bodies
<1>1. PICK w \in Workers : x \in {<<w, i>> : i \in DOMAIN stack[w]}
  BY DEF Frames
<1>2. PICK i \in DOMAIN stack[w] : x = <<w, i>>
  BY <1>1
<1>3. stack[w][i] \in FrameType
  BY Stacked DEF StackInv
<1>. QED BY <1>2, <1>3 DEF Frame, FrameType

LEMMA FrameIn ==
  ASSUME NEW w \in Workers, NEW i \in DOMAIN stack[w]
  PROVE  <<w, i>> \in Frames /\ Frame(<<w, i>>) = stack[w][i]
BY DEF Frames, Frame

LEMMA ExecutingOnce ==
  ASSUME StackInv, NEW x \in Frames, NEW y \in Frames, Frame(x).body = Frame(y).body
  PROVE  x = y
<1>1. PICK v \in Workers : \E i \in DOMAIN stack[v] : x = <<v, i>> /\ Frame(x) = stack[v][i]
  BY FramesOf
<1>2. PICK i \in DOMAIN stack[v] : x = <<v, i>> /\ Frame(x) = stack[v][i]
  BY <1>1
<1>3. PICK w \in Workers : \E j \in DOMAIN stack[w] : y = <<w, j>> /\ Frame(y) = stack[w][j]
  BY FramesOf
<1>4. PICK j \in DOMAIN stack[w] : y = <<w, j>> /\ Frame(y) = stack[w][j]
  BY <1>3
<1>5. v = w /\ i = j
  BY <1>2, <1>4 DEF StackInv, StackOnce
<1>. QED BY <1>2, <1>4, <1>5

LEMMA SubmittingIs ==
  ASSUME StackInv, NEW n
  PROVE  /\ \A x \in Submitting(n) : /\ Frame(x).body \in Bodies /\ InRun(Frame(x).body)
                                     /\ CallOf(Frame(x).body).arg = n
         /\ Submitted(n) => Submitting(n) # {}
<1>1. ASSUME NEW x \in Submitting(n)
      PROVE  Frame(x).body \in Bodies /\ InRun(Frame(x).body) /\ CallOf(Frame(x).body).arg = n
  <2>1. x \in Frames /\ Place(x) \in RunPlaces /\ CallOf(Frame(x).body).arg = n
    BY DEF Submitting, RunPlaces, CallOf
  <2>2. PICK w \in Workers : \E i \in DOMAIN stack[w] :
          x = <<w, i>> /\ Frame(x) = stack[w][i] /\ stack[w][i].body \in Bodies
    BY <2>1, FramesOf
  <2>. QED BY <2>1, <2>2 DEF InRun, IsAt
<1>2. ASSUME Submitted(n) PROVE Submitting(n) # {}
  <2>1. PICK b \in Bodies : InRun(b) /\ CallOf(b).arg = n
    BY <1>2 DEF Submitted
  <2>2. PICK w \in Workers : \E i \in DOMAIN stack[w] :
          stack[w][i].body = b /\ Place(<<w, i>>) \in RunPlaces
    BY <2>1 DEF InRun, IsAt
  <2>3. PICK i \in DOMAIN stack[w] : stack[w][i].body = b /\ Place(<<w, i>>) \in RunPlaces
    BY <2>2
  <2>4. <<w, i>> \in Frames /\ Frame(<<w, i>>).body = b
    BY <2>3, FrameIn
  <2>. QED BY <2>1, <2>3, <2>4 DEF Submitting, RunPlaces, CallOf
<1>. QED BY <1>1, <1>2

LEMMA HeldIs ==
  ASSUME StackInv, NEW n
  PROVE  Held(n) <=> {x \in Executing(n) : ByLambda(Frame(x))} # {}
<1>1. ASSUME NEW x \in Executing(n), ByLambda(Frame(x)) PROVE Held(n)
  <2>1. x \in Frames /\ Frame(x).body = n
    BY DEF Executing
  <2>2. PICK w \in Workers : \E i \in DOMAIN stack[w] : x = <<w, i>> /\ Frame(x) = stack[w][i]
    BY <2>1, FramesOf
  <2>. QED BY <1>1, <2>1, <2>2 DEF Held
<1>2. ASSUME Held(n) PROVE \E x \in Executing(n) : ByLambda(Frame(x))
  <2>1. PICK w \in Workers : \E i \in DOMAIN stack[w] :
          stack[w][i].body = n /\ ByLambda(stack[w][i])
    BY <1>2 DEF Held
  <2>2. PICK i \in DOMAIN stack[w] : stack[w][i].body = n /\ ByLambda(stack[w][i])
    BY <2>1
  <2>3. <<w, i>> \in Frames /\ Frame(<<w, i>>) = stack[w][i]
    BY FrameIn
  <2>. QED BY <2>2, <2>3 DEF Executing
<1>. QED BY <1>1, <1>2

LEMMA ListsCount ==
  ASSUME ScopeAssumption, RefInv, NEW n \in Children
  PROVE  Cardinality(InLists(n)) = IF Listed(n) THEN 1 ELSE 0
<1>1. ScopeOf[n] \in Scopes
  BY DEF ScopeAssumption
<1>2. \A s \in Scopes : n \in Members(nodes[s]) =>
        s = ScopeOf[n] /\ \A b \in Bodies : n \notin Members(join[b].list)
  BY DEF RefInv, ListOnce
<1>3. \A a, b \in Bodies : n \in Members(join[a].list) /\ n \in Members(join[b].list) => a = b
  BY DEF RefInv, ListOnce
<1>4. InLists(n) # {} <=> Listed(n)
  BY <1>1, <1>2 DEF InLists, Listed
<1>5. \A x \in InLists(n) : \A y \in InLists(n) : x = y
  BY <1>2, <1>3 DEF InLists
<1>. QED BY <1>4, <1>5, AtMostOne

LEMMA LambdasCount ==
  ASSUME ScopeAssumption, StackInv, RefInv, NEW n \in Children
  PROVE  Cardinality(InLambdas(n)) = IF Lambda(n) THEN 1 ELSE 0
<1>. DEFINE qs == {g \in Groups : n \in queue[g]}
            hs == {x \in Executing(n) : ByLambda(Frame(x))}
<1>1. /\ \A g \in Groups : n \in queue[g] => g = GroupOf[n]
      /\ n \in queue[GroupOf[n]] => ~Submitted(n) /\ ~Held(n)
      /\ Submitted(n) => ~Held(n)
      /\ GroupOf[n] \in Groups
  BY DEF RefInv, LambdaOnce, ScopeAssumption, Bodies
<1>2. InLambdas(n) = qs \cup Submitting(n) \cup hs
  BY DEF InLambdas
<1>3. (qs # {} <=> n \in queue[GroupOf[n]]) /\ \A x \in qs : \A y \in qs : x = y
  BY <1>1
<1>4. Submitting(n) # {} <=> Submitted(n)
  BY SubmittingIs DEF Submitted
<1>5. ASSUME NEW x \in Submitting(n), NEW y \in Submitting(n) PROVE x = y
  <2>1. x \in Frames /\ y \in Frames
    BY DEF Submitting
  <2>2. /\ Frame(x).body \in Bodies /\ InRun(Frame(x).body) /\ CallOf(Frame(x).body).arg = n
        /\ Frame(y).body \in Bodies /\ InRun(Frame(y).body) /\ CallOf(Frame(y).body).arg = n
    BY SubmittingIs
  <2>3. Frame(x).body = Frame(y).body
    BY <2>2, GivenOnce
  <2>. QED BY <2>1, <2>3, ExecutingOnce
<1>6. hs # {} <=> Held(n)
  BY HeldIs
<1>7. \A x \in hs : \A y \in hs : x = y
  BY ExecutingOnce DEF Executing
<1>. HIDE DEF qs, hs
<1>8. InLambdas(n) # {} <=> Lambda(n)
  BY <1>2, <1>3, <1>4, <1>6 DEF Lambda
<1>9. \A x \in InLambdas(n) : \A y \in InLambdas(n) : x = y
  BY <1>1, <1>2, <1>3, <1>4, <1>5, <1>6, <1>7
<1>. QED BY <1>8, <1>9, AtMostOne

\* Every child runs once, outstanding_ counts the children that have not got through
\* complete_one, and a node has a reference for the list and one for the lambda that hold it:
\* it is neither freed in use nor leaked.
THEOREM CountsTheorem == ScopeAssumption /\ Spec => []CountsExact
<1>. SUFFICES ASSUME ScopeAssumption PROVE Spec => []CountsExact
  OBVIOUS
<1>1. ASSUME ScopeInv, RefInv PROVE CountsExact
  <2>0. StackInv /\ CountInv
    BY <1>1 DEF ScopeInv, ChildInv
  <2>1. ASSUME NEW n \in Children PROVE Cardinality(Executing(n)) <= 1
    <3>1. \A x \in Executing(n) : \A y \in Executing(n) : x = y
      BY <2>0, ExecutingOnce DEF Executing
    <3>. QED BY <3>1, AtMostOne
  <2>2. ASSUME NEW s \in Scopes
        PROVE  outstanding[s] = Cardinality(Of(s, given \ done))
                 + Cardinality({w \in Workers : pc[w] = "complete" /\ ScopeOf[Body(w)] = s})
    BY <2>0 DEF CountInv, Counted, Completing
  <2>3. ASSUME NEW n \in Children
        PROVE  refs[n] = Cardinality(InLists(n)) + Cardinality(InLambdas(n))
    <3>1. refs[n] = (IF Listed(n) THEN 1 ELSE 0) + (IF Lambda(n) THEN 1 ELSE 0)
      BY <1>1 DEF RefInv, RefsExact, RefOK
    <3>2. Cardinality(InLists(n)) = IF Listed(n) THEN 1 ELSE 0
      BY <1>1, ListsCount
    <3>3. Cardinality(InLambdas(n)) = IF Lambda(n) THEN 1 ELSE 0
      BY <1>1, <2>0, LambdasCount
    <3>. QED BY <3>1, <3>2, <3>3
  <2>4. ASSUME NEW n \in Children, Executing(n) # {} PROVE refs[n] > 0
    <3>1. PICK x \in Frames : Frame(x).body = n
      BY <2>4 DEF Executing
    <3>2. PICK w \in Workers : \E i \in DOMAIN stack[w] : x = <<w, i>> /\ Frame(x) = stack[w][i]
      BY <2>0, FramesOf
    <3>3. PICK i \in DOMAIN stack[w] : Frame(x) = stack[w][i]
      BY <3>2
    <3>4. Listed(n) \/ Lambda(n)
      <4>1. CASE ByLambda(stack[w][i])
        BY <3>1, <3>3, <4>1 DEF Lambda, Held
      <4>2. CASE ~ByLambda(stack[w][i])
        <5>1. n \in Members(join[stack[w][i - 1].body].list)
          BY <1>1, <3>1, <3>3, <4>2 DEF RefInv, ScansOwn
        <5>2. i # 1 /\ stack[w] \in Seq(FrameType)
          BY <2>0, <4>2 DEF StackInv, Types, Control, FrameOK, ByLambda
        <5>3. i - 1 \in DOMAIN stack[w]
          BY <5>2, LenProperties
        <5>4. stack[w][i - 1].body \in Bodies
          BY <2>0, <5>3, Stacked DEF StackInv, FrameType
        <5>. QED BY <5>1, <5>4 DEF Listed
      <4>. QED BY <4>1, <4>2
    <3>. QED BY <1>1, <3>4 DEF RefInv, RefsExact, RefOK
  <2>. QED BY <2>1, <2>2, <2>3, <2>4 DEF CountsExact
<1>2. Spec => []ScopeInv
  BY ScopeCorrect
<1>3. Spec => []RefInv
  BY RefsCorrect
<1>4. ScopeInv /\ RefInv => CountsExact
  BY <1>1
<1>. QED BY <1>2, <1>3, <1>4, PTL

\* The variables keep their types; no node has more than its two references.
THEOREM TypeTheorem == ScopeAssumption /\ Spec => []TypeOK
<1>. SUFFICES ASSUME ScopeAssumption PROVE Spec => []TypeOK
  OBVIOUS
<1>1. ASSUME ScopeInv, RefInv PROVE TypeOK
  <2>1. Types
    BY <1>1 DEF ScopeInv, StackInv
  <2>2. refs \in [Children -> 0 .. 2]
    <3>1. \A n \in Children : refs[n] \in 0 .. 2
      BY <1>1 DEF RefInv, RefsExact, RefOK
    <3>. QED BY <2>1, <3>1 DEF Types
  <2>3. pc \in [Workers -> {"idle", "user", "wake_joiner", "submit", "complete", "completed",
                            "take", "scan", "load", "compare", "parked", "rethrow"}]
    <3>1. {"idle"} \cup LivePlaces \cup EndPlaces
            = {"idle", "user", "wake_joiner", "submit", "complete", "completed", "take", "scan",
               "load", "compare", "parked", "rethrow"}
      BY DEF LivePlaces, EndPlaces, RunPlaces, ScanPlaces, WaitPlaces
    <3>. QED BY <2>1, <3>1 DEF Types
  <2>4. at \in [Bodies -> Nat]
    BY <2>1 DEF Types
  <2>. QED BY <2>1, <2>2, <2>3, <2>4 DEF Types, TypeOK, FrameType, JoinType
<1>2. ScopeInv /\ RefInv => TypeOK
  BY <1>1
<1>3. Spec => []ScopeInv
  BY ScopeCorrect
<1>4. Spec => []RefInv
  BY RefsCorrect
<1>. QED BY <1>2, <1>3, <1>4, PTL

=============================================================================
