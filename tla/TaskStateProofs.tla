-------------------------- MODULE TaskStateProofs --------------------------
EXTENDS TaskState, FiniteSetTheorems, SequenceTheorems, TLAPS

UserPcs   == {"user", "wait", "help", "block", "compare", "parked"}
AddPcs    == {"load", "cas", "give"}
ArrivePcs == {"claim", "write", "arrive"}
SettlePcs == {"store", "exchange"}
LeavePcs  == {"notify", "schedule", "submit"}
SettlerPcs == SettlePcs \cup LeavePcs \cup {"release_result"}

FrameSet == [node : Nodes \cup {None}, pc : PCs, at : Nat \ {0}, making : Tasks \cup {None},
             cur : Nodes \cup {None}, nxt : Nodes \cup {None}, exc : Tasks \cup {None, AllocError}]

Types ==
  /\ refs \in [Tasks -> Int]
  /\ cont \in [Tasks -> Nodes \cup {None, Finished}]
  /\ err \in [Tasks -> Tasks \cup {None, AllocError}]
  /\ nodes \in SUBSET Nodes /\ IsFiniteSet(nodes)
  /\ next \in [Nodes -> Nodes \cup {None}]
  /\ remaining \in [Tasks -> Int]
  /\ claimed \in [Tasks -> BOOLEAN]
  /\ ctlErr \in [Tasks -> Tasks \cup {None, AllocError}]
  /\ hold \in [Tasks -> SUBSET Bodies] /\ \A k \in Tasks : IsFiniteSet(hold[k])
  /\ queued \in SUBSET Nodes
  /\ stack \in [Threads -> Seq(FrameSet)]
  /\ runs \in [Tasks -> Nat]
  /\ aborted \in BOOLEAN

-----------------------------------------------------------------------------
(* Frames.                                                                 *)

\* The call a frame is in.
InCall(t, f, ops) == /\ f.at <= Len(Script[BodyOf(t, f)])
                     /\ CallOf(t, f).op \in ops

\* The task of a frame's node, and the place of the frame on the way of that task.
Runner(f) == f.node[1]
Own(f) == IF f.making = None THEN f.pc ELSE "user"

\* A frame that makes no task runs a program or a node; one that does is in a call of make.
ShapeOwn(t, f) ==
  /\ f.pc \notin AddPcs \cup {"attach"}
  /\ f.pc \in UserPcs \cup {"look"} => f.exc = None
  /\ f.pc \notin UserPcs => f.node # None
  /\ f.pc \in {"wait", "help"} => InCall(t, f, {"wait"})
  /\ f.pc \in {"block", "compare", "parked"} => InCall(t, f, {"block"})
  /\ f.pc = "look" => Kind[Runner(f)] # "produce"
  /\ f.pc = "release_pred" => Kind[Runner(f)] # "produce"
  /\ f.pc \in ArrivePcs => Kind[Runner(f)] = "all"

MakerPcs(k) ==
  IF Kind[k] = "produce" THEN {"give"}
  ELSE IF Kind[k] = "then" THEN AddPcs
  ELSE IF Pred[k] = <<>> THEN SettlePcs \cup LeavePcs
  ELSE AddPcs \cup {"attach"} \cup ArrivePcs \cup SettlerPcs

ShapeMaking(t, f) ==
  /\ InCall(t, f, {"make"}) /\ CallOf(t, f).arg = f.making
  /\ f.pc \in MakerPcs(f.making)
  /\ f.pc \in AddPcs \cup {"attach"} \cup ArrivePcs =>
       f.cur \in Nodes /\ f.cur[1] = f.making
  /\ f.pc \in ArrivePcs => f.exc = AllocError /\ f.making \in MayFail

Shape(t, f) ==
  /\ f.node = None => Home[t] \in Programs
  /\ f.node # None /\ Own(f) \in UserPcs => Kind[Runner(f)] # "all"
  /\ f.pc # "submit" => f.nxt = None
  /\ f.pc = "submit" => f.cur # None
  /\ f.making = None => ShapeOwn(t, f)
  /\ f.making # None => ShapeMaking(t, f)

\* Only the uppermost frame moves; the lowest one alone may be that of a program.
Stacked(x) ==
  /\ x[2] < Len(stack[x[1]]) => FrameAt(x).pc \in {"wait", "give", "submit"}
  /\ FrameAt(x).node = None => x[2] = 1

\* A frame has the handles it uses.
Handles(t, f) ==
  /\ f.making = None /\ f.pc \in UserPcs \ {"user"} => BodyOf(t, f) \in hold[CallOf(t, f).arg]
  /\ f.making # None => /\ BodyOf(t, f) \in hold[f.making]
                        /\ \A i \in DOMAIN Pred[f.making] : BodyOf(t, f) \in hold[Pred[f.making][i]]

ShapeInv  == \A x \in Frames : Shape(x[1], FrameAt(x)) /\ Stacked(x)
HandleInv == \A x \in Frames : Handles(x[1], FrameAt(x))

-----------------------------------------------------------------------------
(* What a frame is marked with: the node it runs and the task it makes,    *)
(* the node it adds or gives to the scheduler, the one whose predecessor   *)
(* it has released, the one that has arrived last at its when_all, the     *)
(* task it settles, and the nodes it has still to make.                    *)

\* The nodes that a maker has not made yet.
ToCome(f, n) == /\ f.making # None /\ n \in Nodes /\ n[1] = f.making
                /\ \/ f.pc \in AddPcs /\ n[2] > f.cur[2]
                   \/ f.pc \in {"attach"} \cup ArrivePcs /\ n[2] >= f.cur[2]
Passed(f) == /\ f.node # None
             /\ \/ Kind[Runner(f)] = "then" /\ Own(f) = "release_result"
                \/ Kind[Runner(f)] = "all" /\ Own(f) \notin {"look", "release_pred"}

Marks == {"run", "make", "link", "give", "pass", "arrived", "settle", "come"}
Has(f, mark, n) ==
  /\ n # None
  /\ mark = "run"     => f.node = n
  /\ mark = "make"    => f.making = n
  /\ mark = "link"    => f.pc \in AddPcs /\ f.cur = n
  /\ mark = "give"    => f.pc = "give" /\ f.cur = n
  /\ mark = "pass"    => Passed(f) /\ f.node = n
  /\ mark = "arrived" => Own(f) \in SettlerPcs /\ f.node = n
  /\ mark = "settle"  => f.pc \in SettlerPcs /\ SubjectOf(f) = n
  /\ mark = "come"    => ToCome(f, n)
Marked(mark, n) == \E x \in Frames : Has(FrameAt(x), mark, n)

\* No two frames have the same mark.
Once == \A mark \in Marks : \A n \in Nodes \cup Tasks : \A x, y \in Frames :
          Has(FrameAt(x), mark, n) /\ Has(FrameAt(y), mark, n) => x = y

-----------------------------------------------------------------------------
(* Nodes.                                                                  *)

IsWaiting(n) == n \in nodes /\ n \notin queued /\ ~Marked("run", n) /\ ~Marked("link", n)
IsReady(n)   == n \in queued \/ Marked("run", n) \/ Marked("give", n)

Apart ==
  /\ queued \subseteq nodes
  /\ \A n \in Nodes :
       /\ Marked("run", n) \/ Marked("link", n) => n \in nodes
       /\ n \in queued => ~Marked("run", n) /\ ~Marked("link", n)
       /\ Marked("run", n) => ~Marked("link", n)
       /\ Marked("come", n) => n \notin nodes

\* A node that is given to the scheduler comes after the task it continues.
ReadyInv == \A n \in Nodes : IsReady(n) /\ Kind[n[1]] # "produce" => cont[PredOf(n)] = Finished

\* When a task has settled.
Left(f) == Own(f) \in LeavePcs \cup {"release_pred", "release_result"}
SettleOK(f) ==
  /\ f.pc \in SettlePcs => cont[SubjectOf(f)] # Finished
  /\ f.pc \in LeavePcs \cup {"release_result"} => cont[SubjectOf(f)] = Finished
  /\ f.node # None /\ Kind[Runner(f)] # "all" => (cont[Runner(f)] = Finished <=> Left(f))
SettleInv ==
  /\ \A x \in Frames : SettleOK(FrameAt(x))
  /\ \A n \in nodes : ~Marked("run", n) /\ Kind[n[1]] # "all" => cont[n[1]] # Finished

NodeInv == Once /\ Apart /\ ReadyInv /\ SettleInv

-----------------------------------------------------------------------------
(* The lists of continuations.                                             *)

Continues(n, k) == n \in Nodes /\ IsWaiting(n) /\ Kind[n[1]] # "produce" /\ PredOf(n) = k
HeadOK(k) == cont[k] \notin {None, Finished} => Continues(cont[k], k)
CurOK(f) == f.pc \in LeavePcs =>
  /\ f.cur # None => Continues(f.cur, SubjectOf(f))
  /\ f.pc = "submit" => f.cur # None /\ next[f.cur] = None
  /\ f.nxt # None => Continues(f.nxt, SubjectOf(f)) /\ f.nxt # f.cur
NextOK(n) == IsWaiting(n) =>
  /\ Kind[n[1]] # "produce"
  /\ next[n] # None => Continues(next[n], PredOf(n))
  /\ \A k \in Tasks : next[n] = cont[k] => next[n] = None
  /\ \A m \in nodes : IsWaiting(m) /\ next[m] = next[n] => m = n \/ next[n] = None
  /\ \A x \in Frames : FrameAt(x).pc \in LeavePcs /\ next[n] \in {FrameAt(x).cur, FrameAt(x).nxt}
                        => next[n] = None
Casing(n) == \E x \in Frames : FrameAt(x).pc = "cas" /\ FrameAt(x).cur = n
ListInv ==
  /\ \A k \in Tasks : HeadOK(k)
  /\ \A x \in Frames : CurOK(FrameAt(x))
  /\ \A n \in nodes : NextOK(n)
  /\ \A n \in Nodes : next[n] # None => IsWaiting(n) \/ Casing(n)

-----------------------------------------------------------------------------
(* The life of a task, and its references.                                 *)

\* The reference of whoever will settle the task.
ResultRef(k) == IF Kind[k] # "all" THEN <<k, 1>> \in nodes
                ELSE Pred[k] # <<>> /\ (remaining[k] # 0 \/ Marked("settle", k))
Waiters(k) == {n \in nodes : ~Marked("pass", n) /\ Kind[n[1]] # "produce" /\ PredOf(n) = k}
RefInv == \A k \in Tasks :
  refs[k] = Cardinality(hold[k]) + Cardinality(Waiters(k)) + (IF ResultRef(k) THEN 1 ELSE 0)

Unmade(k) ==
  /\ cont[k] = None /\ hold[k] = {} /\ remaining[k] = 0
  /\ \A n \in nodes : n[1] # k
  /\ ~Marked("make", k)
StageInv == \A k \in Tasks : Unmade(k) \/ Marked("make", k) \/ ResultRef(k) \/ cont[k] = Finished

-----------------------------------------------------------------------------
(* when_all.                                                               *)

Pends(n) == (n \in nodes /\ ~Marked("arrived", n)) \/ Marked("come", n)
PendingOf(k) == {i \in Places(k) : Pends(<<k, i>>)}
CountInv == \A k \in Tasks : Kind[k] = "all" =>
  /\ remaining[k] = Cardinality(PendingOf(k))
  /\ remaining[k] # 0 => ~Marked("settle", k) /\ cont[k] # Finished

\* What the function of task k ends with.
Outcome(k) == IF k \in Throws THEN k ELSE None

-----------------------------------------------------------------------------
(* Types.                                                                  *)

LEMMA Names ==
  ASSUME TaskStateAssumption
  PROVE  /\ None \notin Nodes /\ None \notin Tasks /\ None \notin Bodies
         /\ Finished \notin Nodes /\ Finished \notin Tasks /\ Finished # None
         /\ Pending # None /\ Pending \notin Tasks /\ Pending # AllocError
         /\ AllocError # None /\ AllocError \notin Tasks
BY DEF TaskStateAssumption, Bodies

LEMMA NodeTyped ==
  ASSUME TaskStateAssumption, NEW n \in Nodes
  PROVE  /\ n[1] \in Tasks /\ n[2] \in Places(n[1]) /\ n = <<n[1], n[2]>> /\ n[2] \in Nat \ {0}
         /\ Kind[n[1]] # "all" => n[2] = 1
<1>1. PICK k \in Tasks : n \in {k} \X Places(k)
  BY DEF Nodes
<1>2. n = <<k, n[2]>> /\ n[1] = k /\ n[2] \in Places(k)
  BY <1>1
<1>3. Len(Pred[k]) \in Nat
  BY <1>1 DEF TaskStateAssumption
<1>. QED BY <1>2, <1>3 DEF Places

LEMMA NodeOf ==
  ASSUME NEW k \in Tasks, NEW i \in Places(k)
  PROVE  <<k, i>> \in Nodes
BY DEF Nodes

LEMMA FirstNode ==
  ASSUME TaskStateAssumption, NEW k \in Tasks, Kind[k] # "all" \/ Pred[k] # <<>>
  PROVE  1 \in Places(k) /\ <<k, 1>> \in Nodes
BY EmptySeq, NodeOf DEF Places, TaskStateAssumption

LEMMA PredTyped ==
  ASSUME TaskStateAssumption, NEW n \in Nodes, Kind[n[1]] # "produce"
  PROVE  /\ PredOf(n) \in Tasks /\ PredOf(n) = Pred[n[1]][n[2]]
         /\ n[2] \in DOMAIN Pred[n[1]]
BY NodeTyped DEF TaskStateAssumption, Places, PredOf

LEMMA FrameTyped ==
  ASSUME NEW f \in FrameSet
  PROVE  /\ f.node \in Nodes \cup {None} /\ f.pc \in PCs /\ f.at \in Nat \ {0}
         /\ f.making \in Tasks \cup {None} /\ f.cur \in Nodes \cup {None}
         /\ f.nxt \in Nodes \cup {None} /\ f.exc \in Tasks \cup {None, AllocError}
BY DEF FrameSet

LEMMA Position ==
  ASSUME Types, NEW x \in Frames
  PROVE  /\ x = <<x[1], x[2]>> /\ x[1] \in Threads /\ x[2] \in DOMAIN stack[x[1]]
         /\ FrameAt(x) \in FrameSet /\ stack[x[1]] # <<>>
         /\ x[2] \in 1 .. Len(stack[x[1]]) /\ Len(stack[x[1]]) \in Nat
<1>1. PICK t \in Threads : x \in {t} \X DOMAIN stack[t]
  BY DEF Frames
<1>2. x = <<t, x[2]>> /\ x[1] = t /\ x[2] \in DOMAIN stack[t]
  BY <1>1
<1>3. stack[t] \in Seq(FrameSet)
  BY DEF Types
<1>4. stack[t][x[2]] \in FrameSet /\ x[2] \in 1 .. Len(stack[t]) /\ Len(stack[t]) \in Nat
  BY <1>2, <1>3, ElementOfSeq
<1>. QED BY <1>2, <1>4 DEF FrameAt

LEMMA PositionOf ==
  ASSUME NEW t \in Threads, NEW i \in DOMAIN stack[t]
  PROVE  <<t, i>> \in Frames /\ FrameAt(<<t, i>>) = stack[t][i]
BY DEF Frames, FrameAt

\* The position of the uppermost frame.
Tip(t) == <<t, Len(stack[t])>>

LEMMA TipTyped ==
  ASSUME Types, NEW t \in Threads, stack[t] # <<>>
  PROVE  /\ Tip(t) \in Frames /\ FrameAt(Tip(t)) = Top(t) /\ Top(t) \in FrameSet
         /\ Len(stack[t]) \in Nat \ {0} /\ Tip(t)[1] = t /\ Tip(t)[2] = Len(stack[t])
BY EmptySeq, PositionOf, ElementOfSeq DEF Types, Tip, Top

-----------------------------------------------------------------------------
(* What a step does to the frames.                                         *)

\* A waiting thread that helps, or that is notified, is at another place of the same wait.
Alike(f, h) ==
  \/ h = f
  \/ /\ \/ f.pc = "help" /\ h.pc = "wait"
        \/ f.pc = "parked" /\ h.pc = "compare"
     /\ f.making = None
     /\ h.node = f.node /\ h.at = f.at /\ h.making = f.making /\ h.cur = f.cur /\ h.nxt = f.nxt
     /\ h.exc = f.exc

\* The uppermost frame of t becomes g; it is popped; g is pushed on it.
Moves(t, g) ==
  /\ Frames' = Frames
  /\ \A u \in Threads : Len(stack'[u]) = Len(stack[u])
  /\ \A x \in Frames : IF x = Tip(t) THEN FrameAt(x)' = g ELSE Alike(FrameAt(x), FrameAt(x)')
Pops(t) ==
  /\ Frames' = Frames \ {Tip(t)}
  /\ \A u \in Threads : Len(stack'[u]) = Len(stack[u]) - IF u = t THEN 1 ELSE 0
  /\ \A x \in Frames' : Alike(FrameAt(x), FrameAt(x)')
Over(t) == <<t, Len(stack[t]) + 1>>
Pushes(t, g) ==
  /\ Frames' = Frames \cup {Over(t)} /\ Over(t) \notin Frames
  /\ \A u \in Threads : Len(stack'[u]) = Len(stack[u]) + IF u = t THEN 1 ELSE 0
  /\ \A x \in Frames : Alike(FrameAt(x), FrameAt(x)')
  /\ \A x \in Frames' : x = Over(t) => FrameAt(x)' = g
  /\ stack[t] # <<>> => stack'[t][Len(stack[t])].pc \in {"wait", "give", "submit"}

LEMMA BecomeMoves ==
  ASSUME Types, NEW t \in Threads, stack[t] # <<>>, NEW g \in FrameSet, Become(t, g)
  PROVE  Moves(t, g) /\ stack' \in [Threads -> Seq(FrameSet)]
<1>. DEFINE n == Len(stack[t])
<1>1. stack \in [Threads -> Seq(FrameSet)] /\ n \in DOMAIN stack[t]
  BY TipTyped, EmptySeq DEF Types
<1>2. stack' = [stack EXCEPT ![t] = [stack[t] EXCEPT ![n] = g]]
  BY DEF Become
<1>3. /\ [stack[t] EXCEPT ![n] = g] \in Seq(FrameSet)
      /\ Len([stack[t] EXCEPT ![n] = g]) = Len(stack[t])
      /\ DOMAIN [stack[t] EXCEPT ![n] = g] = DOMAIN stack[t]
      /\ \A i \in DOMAIN stack[t] : [stack[t] EXCEPT ![n] = g][i] = IF i = n THEN g ELSE stack[t][i]
  BY <1>1, ExceptSeq
<1>. DEFINE s == [stack[t] EXCEPT ![n] = g]
<1>4. /\ stack' \in [Threads -> Seq(FrameSet)]
      /\ stack'[t] = s /\ \A u \in Threads : u # t => stack'[u] = stack[u]
  BY <1>1, <1>2, <1>3
<1>. HIDE DEF s
<1>5. \A u \in Threads : Len(stack'[u]) = Len(stack[u]) /\ DOMAIN stack'[u] = DOMAIN stack[u]
  BY <1>3, <1>4 DEF s
<1>6. Frames' = Frames
  BY <1>5 DEF Frames
<1>7. ASSUME NEW x \in Frames
      PROVE  IF x = Tip(t) THEN FrameAt(x)' = g ELSE Alike(FrameAt(x), FrameAt(x)')
  BY Position, <1>4, <1>3 DEF FrameAt, Alike, Tip, s
<1>. QED BY <1>4, <1>5, <1>6, <1>7 DEF Moves

LEMMA PopPops ==
  ASSUME Types, NEW t \in Threads, stack[t] # <<>>, Pop(t)
  PROVE  Pops(t) /\ stack' \in [Threads -> Seq(FrameSet)]
<1>. DEFINE n == Len(stack[t])
            s == SubSeq(stack[t], 1, n - 1)
<1>1. stack \in [Threads -> Seq(FrameSet)] /\ n \in Nat \ {0}
  BY TipTyped DEF Types
<1>2. s \in Seq(FrameSet) /\ Len(s) = n - 1 /\ \A i \in 1 .. (n - 1) : s[i] = stack[t][i]
  <2>1. stack[t] \in Seq(FrameSet) /\ 1 \in Int /\ n - 1 \in Int
    BY <1>1
  <2>2. \A i \in 1 .. (n - 1) : stack[t][i] \in FrameSet
    BY <1>1, <2>1, ElementOfSeq
  <2>. HIDE DEF n
  <2>3. /\ SubSeq(stack[t], 1, n - 1) \in Seq(FrameSet)
        /\ Len(SubSeq(stack[t], 1, n - 1)) = IF 1 <= n - 1 THEN n - 1 - 1 + 1 ELSE 0
        /\ \A i \in 1 .. n - 1 - 1 + 1 : SubSeq(stack[t], 1, n - 1)[i] = stack[t][1 + i - 1]
    BY <2>1, <2>2, SubSeqProperties
  <2>. QED BY <1>1, <2>3
<1>3. /\ stack' \in [Threads -> Seq(FrameSet)]
      /\ stack'[t] = s /\ \A u \in Threads : u # t => stack'[u] = stack[u]
  BY <1>1, <1>2 DEF Pop
<1>. HIDE DEF s
<1>4. DOMAIN stack[t] = 1 .. n /\ DOMAIN stack'[t] = 1 .. (n - 1)
  BY <1>1, <1>2, <1>3
<1>5. \A u \in Threads : Len(stack'[u]) = Len(stack[u]) - IF u = t THEN 1 ELSE 0
  <2>. TAKE u \in Threads
  <2>1. Len(stack[u]) \in Nat
    BY <1>1
  <2>. QED BY <2>1, <1>2, <1>3
<1>6. Frames' = Frames \ {Tip(t)}
  <2>1. ASSUME NEW x \in Frames' PROVE x \in Frames /\ x # Tip(t)
    <3>1. PICK u \in Threads : x \in {u} \X DOMAIN stack'[u]
      BY DEF Frames
    <3>2. x = <<u, x[2]>> /\ x[2] \in DOMAIN stack'[u]
      BY <3>1
    <3>3. CASE u # t
      BY <3>2, <3>3, <1>3, PositionOf DEF Tip
    <3>4. CASE u = t
      BY <3>2, <3>4, <1>4, <1>1, PositionOf DEF Tip
    <3>. QED BY <3>3, <3>4
  <2>2. ASSUME NEW x \in Frames, x # Tip(t) PROVE x \in Frames'
    <3>1. x = <<x[1], x[2]>> /\ x[1] \in Threads /\ x[2] \in DOMAIN stack[x[1]]
      BY Position
    <3>2. x[2] \in DOMAIN stack'[x[1]]
      BY <3>1, <1>3, <2>2, <1>1, <1>4 DEF Tip
    <3>3. x \in {x[1]} \X DOMAIN stack'[x[1]]
      BY <3>1, <3>2
    <3>. QED BY <3>1, <3>3 DEF Frames
  <2>. QED BY <2>1, <2>2
<1>7. ASSUME NEW x \in Frames' PROVE FrameAt(x)' = FrameAt(x)
  BY <1>6, Position, <1>3, <1>1, <1>4, <1>2 DEF FrameAt, Tip
<1>. QED BY <1>3, <1>5, <1>6, <1>7 DEF Pops, Alike

LEMMA AlikeStacks ==
  ASSUME Types, NEW t \in Threads, NEW s \in Seq(FrameSet),
         NEW h \in FrameSet,
         Len(s) = Len(stack[t]) + 1 /\ s[Len(stack[t]) + 1] = h,
         \A i \in DOMAIN stack[t] : Alike(stack[t][i], s[i]),
         stack' = [stack EXCEPT ![t] = s]
  PROVE  /\ Frames' = Frames \cup {Over(t)} /\ Over(t) \notin Frames
         /\ \A u \in Threads : Len(stack'[u]) = Len(stack[u]) + IF u = t THEN 1 ELSE 0
         /\ \A x \in Frames : Alike(FrameAt(x), FrameAt(x)')
         /\ \A x \in Frames' : x = Over(t) => FrameAt(x)' = h
         /\ stack' \in [Threads -> Seq(FrameSet)]
<1>. DEFINE n == Len(stack[t])
<1>1. stack \in [Threads -> Seq(FrameSet)] /\ n \in Nat
  BY DEF Types
<1>2. /\ stack' \in [Threads -> Seq(FrameSet)]
      /\ stack'[t] = s /\ \A u \in Threads : u # t => stack'[u] = stack[u]
  BY <1>1
<1>3. DOMAIN stack[t] = 1 .. n /\ DOMAIN stack'[t] = 1 .. (n + 1)
  BY <1>1, <1>2
<1>4. \A u \in Threads : Len(stack'[u]) = Len(stack[u]) + IF u = t THEN 1 ELSE 0
  <2>. TAKE u \in Threads
  <2>1. Len(stack[u]) \in Nat
    BY <1>1
  <2>. QED BY <2>1, <1>2
<1>5. Over(t) \notin Frames
  <2>1. SUFFICES ASSUME Over(t) \in Frames PROVE FALSE
    OBVIOUS
  <2>2. Len(stack[t]) + 1 \in DOMAIN stack[t]
    BY <2>1, Position DEF Over
  <2>. QED BY <2>2, <1>1, <1>3
<1>6. Frames' = Frames \cup {Over(t)}
  <2>1. ASSUME NEW x \in Frames' PROVE x \in Frames \/ x = Over(t)
    <3>1. PICK u \in Threads : x \in {u} \X DOMAIN stack'[u]
      BY DEF Frames
    <3>2. x = <<u, x[2]>> /\ x[2] \in DOMAIN stack'[u]
      BY <3>1
    <3>3. CASE u # t
      BY <3>2, <3>3, <1>2, PositionOf
    <3>4. CASE u = t
      BY <3>2, <3>4, <1>3, <1>1, PositionOf DEF Over
    <3>. QED BY <3>3, <3>4
  <2>2. ASSUME NEW x, x \in Frames \/ x = Over(t) PROVE x \in Frames'
    <3>1. x = <<x[1], x[2]>> /\ x[1] \in Threads
      BY <2>2, Position DEF Over
    <3>2. x[2] \in DOMAIN stack'[x[1]]
      BY <1>1, <1>3, Position, <1>2, <3>1, <2>2 DEF Over
    <3>3. x \in {x[1]} \X DOMAIN stack'[x[1]]
      BY <3>1, <3>2
    <3>. QED BY <3>1, <3>3 DEF Frames
  <2>. QED BY <2>1, <2>2
<1>7. ASSUME NEW x \in Frames PROVE Alike(FrameAt(x), FrameAt(x)')
  BY Position, <1>2 DEF FrameAt, Alike
<1>8. \A x \in Frames' : x = Over(t) => FrameAt(x)' = h
  BY <1>2 DEF FrameAt, Over
<1>. QED BY <1>2, <1>4, <1>5, <1>6, <1>7, <1>8

LEMMA FramePc ==
  ASSUME NEW f \in FrameSet, NEW l \in PCs
  PROVE  LET g == [f EXCEPT !.pc = l] IN
           /\ g \in FrameSet /\ g.pc = l
           /\ g.node = f.node /\ g.at = f.at /\ g.making = f.making /\ g.cur = f.cur
           /\ g.nxt = f.nxt /\ g.exc = f.exc
BY DEF FrameSet

LEMMA NewFrame ==
  ASSUME NEW n \in Nodes \cup {None}, NEW l \in PCs
  PROVE  /\ Frame(n, l) \in FrameSet
         /\ Frame(n, l).node = n /\ Frame(n, l).pc = l /\ Frame(n, l).at = 1
         /\ Frame(n, l).making = None /\ Frame(n, l).cur = None /\ Frame(n, l).nxt = None
         /\ Frame(n, l).exc = None
BY DEF Frame, FrameSet

\* The frames in which a thread waits with help are not those of a call of make.
LEMMA HelpShape ==
  ASSUME Types, ShapeInv, NEW x \in Frames, FrameAt(x).pc \in {"help", "parked"}
  PROVE  FrameAt(x).making = None
BY Position DEF ShapeInv, Shape, ShapeMaking, MakerPcs, AddPcs, SettlePcs, LeavePcs, ArrivePcs,
   SettlerPcs

LEMMA TakePushes ==
  ASSUME Types, ShapeInv, NEW t \in Threads, Idle(t) \/ At(t, "help") \/ Blocked(t),
         NEW h \in FrameSet,
         stack' = [stack EXCEPT ![t] =
           Append([i \in DOMAIN stack[t] |->
                     IF stack[t][i].pc = "help" THEN [stack[t][i] EXCEPT !.pc = "wait"]
                                                ELSE stack[t][i]], h)]
  PROVE  Pushes(t, h) /\ stack' \in [Threads -> Seq(FrameSet)]
<1>. DEFINE n == Len(stack[t])
            b == [i \in DOMAIN stack[t] |->
                     IF stack[t][i].pc = "help" THEN [stack[t][i] EXCEPT !.pc = "wait"]
                                                ELSE stack[t][i]]
            s == Append(b, h)
<1>1. stack[t] \in Seq(FrameSet) /\ n \in Nat /\ DOMAIN stack[t] = 1 .. n
  BY DEF Types
<1>2. ASSUME NEW i \in DOMAIN stack[t]
      PROVE  /\ b[i] \in FrameSet /\ Alike(stack[t][i], b[i])
             /\ b[i].pc = IF stack[t][i].pc = "help" THEN "wait" ELSE stack[t][i].pc
  <2>1. stack[t][i] \in FrameSet /\ "wait" \in PCs
    BY <1>1, ElementOfSeq DEF PCs
  <2>2. <<t, i>> \in Frames /\ FrameAt(<<t, i>>) = stack[t][i]
    BY PositionOf
  <2>3. stack[t][i].pc = "help" => stack[t][i].making = None
    BY <2>2, HelpShape
  <2>. QED BY <2>1, <2>3, FramePc DEF Alike
<1>3. b \in Seq(FrameSet) /\ Len(b) = n
  <2>1. b \in [1 .. n -> FrameSet]
    BY <1>1, <1>2
  <2>. HIDE DEF b, n
  <2>. QED BY <1>1, <2>1
<1>. HIDE DEF b
<1>4. s \in Seq(FrameSet) /\ Len(s) = n + 1 /\ s[n + 1] = h /\ \A i \in 1 .. n : s[i] = b[i]
  <2>. HIDE DEF n
  <2>. QED BY <1>1, <1>3
<1>5. \A i \in DOMAIN stack[t] : Alike(stack[t][i], s[i])
  BY <1>1, <1>2, <1>4
<1>6. stack' = [stack EXCEPT ![t] = s]
  BY DEF b
<1>. HIDE DEF s
<1>7. /\ Frames' = Frames \cup {Over(t)} /\ Over(t) \notin Frames
      /\ \A u \in Threads : Len(stack'[u]) = Len(stack[u]) + IF u = t THEN 1 ELSE 0
      /\ \A x \in Frames : Alike(FrameAt(x), FrameAt(x)')
      /\ \A x \in Frames' : x = Over(t) => FrameAt(x)' = h
      /\ stack' \in [Threads -> Seq(FrameSet)]
  <2>1. Len(s) = Len(stack[t]) + 1 /\ s[Len(stack[t]) + 1] = h /\ s \in Seq(FrameSet)
    BY <1>4
  <2>. HIDE DEF n
  <2>. QED BY <2>1, <1>5, <1>6, AlikeStacks
<1>8. ASSUME stack[t] # <<>> PROVE stack'[t][Len(stack[t])].pc \in {"wait", "give", "submit"}
  <2>1. Top(t).pc \in {"help", "give", "submit"} /\ n \in DOMAIN stack[t] /\ Top(t) = stack[t][n]
    BY <1>1, <1>8, EmptySeq DEF Idle, Blocked, At, Top
  <2>2. b[n].pc \in {"wait", "give", "submit"}
    BY <1>2, <2>1
  <2>3. stack'[t] = s
    BY <1>6 DEF Types
  <2>. QED BY <2>2, <2>1, <2>3, <1>4, <1>1
<1>. QED BY <1>7, <1>8 DEF Pushes

\* Notify moves its own frame, and those that are parked on the task.
LEMMA NotifyMoves ==
  ASSUME Types, ShapeInv, NEW t \in Threads, Notify(t)
  PROVE  /\ Moves(t, [Top(t) EXCEPT !.pc = "schedule"])
         /\ stack' \in [Threads -> Seq(FrameSet)]
<1>. DEFINE L(u) == IF u = t THEN "schedule" ELSE IF ParkedOn(u, Subject(t)) THEN "compare" ELSE ""
            T(u) == [stack[u] EXCEPT ![Len(stack[u])].pc = L(u)]
<1>1. /\ stack \in [Threads -> Seq(FrameSet)] /\ stack[t] # <<>> /\ Top(t).pc = "notify"
      /\ stack' = [u \in Threads |-> IF L(u) = "" THEN stack[u] ELSE T(u)]
  BY DEF Notify, At, Types
<1>2. ASSUME NEW u \in Threads, L(u) # ""
      PROVE  /\ stack[u] # <<>> /\ L(u) \in PCs
             /\ T(u) \in Seq(FrameSet) /\ Len(T(u)) = Len(stack[u]) /\ DOMAIN T(u) = DOMAIN stack[u]
             /\ \A i \in DOMAIN stack[u] : T(u)[i] = IF i = Len(stack[u]) THEN [Top(u) EXCEPT !.pc = L(u)]
                                                                        ELSE stack[u][i]
  <2>1. stack[u] # <<>> /\ L(u) \in PCs
    BY <1>1, <1>2 DEF ParkedOn, At, PCs
  <2>2. Top(u) \in FrameSet /\ Len(stack[u]) \in DOMAIN stack[u] /\ stack[u] \in Seq(FrameSet)
    <3>1. stack[u] \in Seq(FrameSet)
      BY <1>1
    <3>. HIDE DEF T, L
    <3>. QED BY <2>1, <3>1, TipTyped, EmptySeq
  <2>3. [Top(u) EXCEPT !.pc = L(u)] \in FrameSet
    BY <2>1, <2>2, FramePc
  <2>4. T(u) = [stack[u] EXCEPT ![Len(stack[u])] = [Top(u) EXCEPT !.pc = L(u)]]
    BY DEF Top
  <2>. HIDE DEF T, L
  <2>. QED BY <2>1, <2>2, <2>3, <2>4, ExceptSeq
<1>3. ASSUME NEW u \in Threads
      PROVE  /\ stack'[u] = IF L(u) = "" THEN stack[u] ELSE T(u)
             /\ stack'[u] \in Seq(FrameSet) /\ Len(stack'[u]) = Len(stack[u])
             /\ DOMAIN stack'[u] = DOMAIN stack[u]
  <2>. HIDE DEF T, L
  <2>. QED BY <1>1, <1>2
<1>4. stack' \in [Threads -> Seq(FrameSet)]
  <2>. HIDE DEF T, L
  <2>. QED BY <1>1, <1>3
<1>5. Frames' = Frames
  <2>1. \A u \in Threads : DOMAIN stack'[u] = DOMAIN stack[u]
    <3>. HIDE DEF T, L
    <3>. QED BY <1>3
  <2>. QED BY <2>1 DEF Frames
<1>6. ASSUME NEW x \in Frames
      PROVE  IF x = Tip(t) THEN FrameAt(x)' = [Top(t) EXCEPT !.pc = "schedule"]
                           ELSE Alike(FrameAt(x), FrameAt(x)')
  <2>1. x = <<x[1], x[2]>> /\ x[1] \in Threads /\ x[2] \in DOMAIN stack[x[1]]
    BY Position
  <2>2. x = Tip(t) <=> x[1] = t /\ x[2] = Len(stack[t])
    BY <2>1 DEF Tip
  <2>. DEFINE u == x[1]
  <2>3. FrameAt(x) = stack[u][x[2]] /\ FrameAt(x)' = stack'[u][x[2]]
    BY DEF FrameAt
  <2>4. CASE u = t
    <3>1. L(u) = "schedule"
      BY <2>4
    <3>. HIDE DEF L, T
    <3>2. stack'[u][x[2]] = IF x[2] = Len(stack[u]) THEN [Top(u) EXCEPT !.pc = L(u)] ELSE stack[u][x[2]]
      <4>1. stack'[u] = T(u)
        BY <3>1, <1>3, <2>1
      <4>2. \A i \in DOMAIN stack[u] : T(u)[i] = IF i = Len(stack[u]) THEN [Top(u) EXCEPT !.pc = L(u)]
                                                                        ELSE stack[u][i]
        BY <3>1, <1>2, <2>1
      <4>. QED BY <4>1, <4>2, <2>1
    <3>. QED BY <3>1, <3>2, <2>2, <2>3, <2>4 DEF Alike
  <2>5. CASE u # t /\ L(u) = ""
    <3>. HIDE DEF L, T
    <3>. QED BY <2>5, <1>3, <2>1, <2>2, <2>3 DEF Alike
  <2>6. CASE u # t /\ L(u) # ""
    <3>1. L(u) = "compare" /\ Top(u).pc = "parked" /\ stack[u] # <<>>
      BY <2>6 DEF ParkedOn, At
    <3>2. Top(u) \in FrameSet /\ Tip(u) \in Frames /\ FrameAt(Tip(u)) = Top(u)
      BY <3>1, <2>1, TipTyped
    <3>3. Top(u).making = None
      BY <3>1, <3>2, HelpShape
    <3>. HIDE DEF L, T
    <3>4. stack'[u][x[2]] = IF x[2] = Len(stack[u]) THEN [Top(u) EXCEPT !.pc = L(u)] ELSE stack[u][x[2]]
      <4>1. stack'[u] = T(u)
        BY <2>6, <1>3, <2>1
      <4>2. \A i \in DOMAIN stack[u] : T(u)[i] = IF i = Len(stack[u]) THEN [Top(u) EXCEPT !.pc = L(u)]
                                                                        ELSE stack[u][i]
        BY <2>6, <1>2, <2>1
      <4>. QED BY <4>1, <4>2, <2>1
    <3>5. Alike(Top(u), [Top(u) EXCEPT !.pc = "compare"])
      BY <3>1, <3>2, <3>3, FramePc DEF Alike, PCs
    <3>. QED BY <3>1, <3>4, <3>5, <2>2, <2>3, <2>6 DEF Alike, Top
  <2>. QED BY <2>4, <2>5, <2>6
<1>. QED BY <1>3, <1>4, <1>5, <1>6 DEF Moves

-----------------------------------------------------------------------------
(* Fields.                                                                 *)

\* The frame g is that of f at place l, with these fields.
Is(g, f, l, m, c, x, e) ==
  /\ g \in FrameSet /\ g.node = f.node /\ g.pc = l /\ g.making = m /\ g.cur = c /\ g.nxt = x
  /\ g.exc = e /\ (l # "user" => g.at = f.at)

LEMMA FrameGoto ==
  ASSUME NEW f \in FrameSet, NEW l \in PCs
  PROVE  Is([f EXCEPT !.pc = l], f, l, f.making, f.cur, f.nxt, f.exc)
BY DEF FrameSet, Is

LEMMA FrameMade ==
  ASSUME NEW f \in FrameSet, NEW k \in Tasks, NEW c \in Nodes \cup {None}, NEW l \in PCs
  PROVE  Is([f EXCEPT !.making = k, !.cur = c, !.pc = l], f, l, k, c, f.nxt, f.exc)
BY DEF FrameSet, Is

LEMMA FrameExc ==
  ASSUME NEW f \in FrameSet, NEW e \in Tasks \cup {None, AllocError}, NEW l \in PCs
  PROVE  Is([f EXCEPT !.pc = l, !.exc = e], f, l, f.making, f.cur, f.nxt, e)
BY DEF FrameSet, Is

LEMMA FrameCur ==
  ASSUME NEW f \in FrameSet, NEW c \in Nodes \cup {None}, NEW l \in PCs
  PROVE  Is([f EXCEPT !.pc = l, !.cur = c], f, l, f.making, c, f.nxt, f.exc)
BY DEF FrameSet, Is

LEMMA FrameNxt ==
  ASSUME NEW f \in FrameSet, NEW c \in Nodes \cup {None}, NEW l \in PCs
  PROVE  Is([f EXCEPT !.pc = l, !.nxt = c], f, l, f.making, f.cur, c, f.exc)
BY DEF FrameSet, Is

LEMMA FrameSubmitted ==
  ASSUME NEW f \in FrameSet
  PROVE  Is([f EXCEPT !.pc = "schedule", !.cur = f.nxt, !.nxt = None], f,
            "schedule", f.making, f.nxt, None, f.exc)
BY DEF FrameSet, Is, PCs

LEMMA FrameReturned ==
  ASSUME NEW f \in FrameSet
  PROVE  Is(Returned(f), f, "user", None, None, f.nxt, None)
<1>1. f.at + 1 \in Nat \ {0}
  BY FrameTyped
<1>. QED BY <1>1 DEF FrameSet, PCs, Returned, Is

\* The node of the next task of a when_all.
LEMMA NextNode ==
  ASSUME TaskStateAssumption, NEW f \in FrameSet, f.cur \in Nodes, f.cur[1] = f.making, More(f)
  PROVE  /\ <<f.cur[1], f.cur[2] + 1>> \in Nodes
         /\ f.making \in Tasks /\ Kind[f.making] = "all"
<1>1. f.making \in Tasks /\ Kind[f.making] = "all" /\ f.cur[2] < Len(Pred[f.making])
  BY FrameTyped DEF More
<1>2. f.cur[2] \in Nat \ {0} /\ Len(Pred[f.making]) \in Nat
  BY <1>1, NodeTyped DEF TaskStateAssumption
<1>3. f.cur[2] + 1 \in Places(f.making)
  BY <1>1, <1>2 DEF Places
<1>. QED BY <1>1, <1>3, NodeOf

LEMMA FrameLinked ==
  ASSUME TaskStateAssumption, NEW f \in FrameSet, f.cur \in Nodes, f.cur[1] = f.making
  PROVE  /\ More(f) => /\ Is(Linked(f), f, "attach", f.making, <<f.cur[1], f.cur[2] + 1>>, f.nxt, f.exc)
                       /\ <<f.cur[1], f.cur[2] + 1>> \in Nodes
         /\ ~More(f) => Is(Linked(f), f, "user", None, None, f.nxt, None)
<1>1. ASSUME More(f)
      PROVE  /\ Is(Linked(f), f, "attach", f.making, <<f.cur[1], f.cur[2] + 1>>, f.nxt, f.exc)
             /\ <<f.cur[1], f.cur[2] + 1>> \in Nodes
  <2>. DEFINE c == <<f.cur[1], f.cur[2] + 1>>
  <2>1. c \in Nodes
    BY <1>1, NextNode
  <2>2. Linked(f) = [f EXCEPT !.cur = c, !.pc = "attach"]
    BY <1>1 DEF Linked
  <2>. HIDE DEF c
  <2>3. Is([f EXCEPT !.cur = c, !.pc = "attach"], f, "attach", f.making, c, f.nxt, f.exc)
    BY <2>1 DEF FrameSet, PCs, Is
  <2>. QED BY <2>1, <2>2, <2>3 DEF c
<1>2. ASSUME ~More(f) PROVE Is(Linked(f), f, "user", None, None, f.nxt, None)
  BY <1>2, FrameReturned DEF Linked
<1>. QED BY <1>1, <1>2

-----------------------------------------------------------------------------
(* The shape of frames.                                                    *)

LEMMA AlikeShape ==
  ASSUME NEW t, NEW f \in FrameSet, NEW h \in FrameSet, Shape(t, f), Alike(f, h)
  PROVE  Shape(t, h)
<1>1. CASE h = f
  BY <1>1
<1>2. CASE h # f
  <2>1. /\ \/ f.pc = "help" /\ h.pc = "wait"
           \/ f.pc = "parked" /\ h.pc = "compare"
        /\ f.making = None /\ h.node = f.node /\ h.at = f.at /\ h.making = None
        /\ h.cur = f.cur /\ h.nxt = f.nxt /\ h.exc = f.exc
    BY <1>2 DEF Alike
  <2>2. ShapeOwn(t, f) /\ f.nxt = None /\ (f.node = None => Home[t] \in Programs)
        /\ (f.node # None => Kind[Runner(f)] # "all")
    BY <2>1 DEF Shape, Own, UserPcs
  <2>3. \A ops : InCall(t, h, ops) <=> InCall(t, f, ops)
    BY <2>1 DEF InCall, BodyOf, CallOf
  <2>4. ShapeOwn(t, h)
    BY <2>1, <2>2, <2>3 DEF ShapeOwn, AddPcs, UserPcs, ArrivePcs, Runner
  <2>. QED BY <2>1, <2>2, <2>4 DEF Shape, Own, Runner
<1>. QED BY <1>1, <1>2

LEMMA AlikeStacked ==
  ASSUME NEW f, NEW h, Alike(f, h), f.pc \in {"wait", "give", "submit"}
  PROVE  h.pc \in {"wait", "give", "submit"}
BY DEF Alike

LEMMA NextFrames ==
  ASSUME stack' \in [Threads -> Seq(FrameSet)], NEW x \in Frames'
  PROVE  FrameAt(x)' \in FrameSet /\ x[1] \in Threads /\ x = <<x[1], x[2]>>
         /\ x[2] \in 1 .. Len(stack'[x[1]])
<1>1. PICK t \in Threads : x \in {t} \X DOMAIN stack'[t]
  BY DEF Frames
<1>2. x = <<t, x[2]>> /\ x[1] = t /\ x[2] \in DOMAIN stack'[t]
  BY <1>1
<1>3. stack'[t] \in Seq(FrameSet)
  OBVIOUS
<1>4. stack'[t][x[2]] \in FrameSet /\ x[2] \in 1 .. Len(stack'[t])
  BY <1>2, <1>3, ElementOfSeq
<1>. QED BY <1>2, <1>4 DEF FrameAt

LEMMA MoveShape ==
  ASSUME Types, ShapeInv, NEW t \in Threads, stack[t] # <<>>,
         NEW g \in FrameSet, g.node = Top(t).node, Shape(t, g),
         Moves(t, g), stack' \in [Threads -> Seq(FrameSet)]
  PROVE  ShapeInv'
<1>1. SUFFICES ASSUME NEW x \in Frames' PROVE Shape(x[1], FrameAt(x)') /\ Stacked(x)'
  BY DEF ShapeInv
<1>2. x \in Frames /\ FrameAt(x)' \in FrameSet /\ FrameAt(x) \in FrameSet /\ x[1] \in Threads
  BY NextFrames, Position DEF Moves
<1>3. Shape(x[1], FrameAt(x)) /\ Stacked(x)
  BY <1>2 DEF ShapeInv
<1>4. Len(stack'[x[1]]) = Len(stack[x[1]])
  BY <1>2 DEF Moves
<1>5. CASE x = Tip(t)
  BY <1>5, <1>2, TipTyped, <1>4, Position, <1>3 DEF Moves, Stacked
<1>6. CASE x # Tip(t)
  BY <1>6, <1>2, <1>3, AlikeShape, <1>4, AlikeStacked DEF Moves, Alike, Stacked
<1>. QED BY <1>5, <1>6

LEMMA PopShape ==
  ASSUME Types, ShapeInv, NEW t \in Threads, stack[t] # <<>>,
         Pops(t), stack' \in [Threads -> Seq(FrameSet)]
  PROVE  ShapeInv'
<1>1. SUFFICES ASSUME NEW x \in Frames' PROVE Shape(x[1], FrameAt(x)') /\ Stacked(x)'
  BY DEF ShapeInv
<1>2. x \in Frames /\ FrameAt(x)' \in FrameSet /\ FrameAt(x) \in FrameSet /\ x[1] \in Threads
      /\ Alike(FrameAt(x), FrameAt(x)') /\ x[2] \in Nat
  BY NextFrames, Position DEF Pops
<1>3. Shape(x[1], FrameAt(x)) /\ Stacked(x)
  BY <1>2 DEF ShapeInv
<1>4. x[2] < Len(stack'[x[1]]) => x[2] < Len(stack[x[1]])
  <2>1. Len(stack'[x[1]]) = Len(stack[x[1]]) - IF x[1] = t THEN 1 ELSE 0
    BY <1>2 DEF Pops
  <2>2. Len(stack[x[1]]) \in Nat
    BY <1>2, Position
  <2>3. Len(stack'[x[1]]) = Len(stack[x[1]]) \/ Len(stack'[x[1]]) = Len(stack[x[1]]) - 1
    <3>1. CASE x[1] = t
      BY <3>1, <2>1
    <3>2. CASE x[1] # t
      BY <3>2, <2>1, <2>2
    <3>. QED BY <3>1, <3>2
  <2>. HIDE DEF Pops
  <2>. QED BY <1>2, <2>3, <2>2
<1>5. Shape(x[1], FrameAt(x)')
  BY <1>2, <1>3, AlikeShape
<1>6. x[2] < Len(stack'[x[1]]) => FrameAt(x)'.pc \in {"wait", "give", "submit"}
  BY <1>2, <1>3, <1>4, AlikeStacked DEF Stacked
<1>7. FrameAt(x)'.node = FrameAt(x).node
  BY <1>2 DEF Alike
<1>. QED BY <1>3, <1>5, <1>6, <1>7 DEF Stacked

LEMMA PushShape ==
  ASSUME Types, ShapeInv, NEW t \in Threads, NEW g \in FrameSet, g.node # None, Shape(t, g),
         Pushes(t, g), stack' \in [Threads -> Seq(FrameSet)]
  PROVE  ShapeInv'
<1>1. SUFFICES ASSUME NEW x \in Frames' PROVE Shape(x[1], FrameAt(x)') /\ Stacked(x)'
  BY DEF ShapeInv
<1>2. /\ FrameAt(x)' \in FrameSet /\ x[1] \in Threads /\ Len(stack[x[1]]) \in Nat /\ x[2] \in Nat
      /\ Len(stack'[x[1]]) = Len(stack[x[1]]) + IF x[1] = t THEN 1 ELSE 0
  <2>1. FrameAt(x)' \in FrameSet /\ x[1] \in Threads /\ x[2] \in 1 .. Len(stack'[x[1]])
    BY NextFrames
  <2>2. stack[x[1]] \in Seq(FrameSet)
    BY <2>1 DEF Types
  <2>3. Len(stack'[x[1]]) = Len(stack[x[1]]) + IF x[1] = t THEN 1 ELSE 0
    BY <2>1 DEF Pushes
  <2>. QED BY <2>1, <2>2, <2>3
<1>3. CASE x = Over(t)
  BY <1>3, <1>2 DEF Pushes, Over, Stacked
<1>4. CASE x # Over(t)
  <2>1. x \in Frames /\ Alike(FrameAt(x), FrameAt(x)') /\ FrameAt(x) \in FrameSet
    BY <1>4, Position DEF Pushes
  <2>2. Shape(x[1], FrameAt(x)) /\ Stacked(x)
    BY <2>1 DEF ShapeInv
  <2>3. Shape(x[1], FrameAt(x)')
    BY <2>1, <2>2, <1>2, AlikeShape
  <2>4. FrameAt(x)'.node = FrameAt(x).node
    BY <2>1 DEF Alike
  <2>5. x[2] < Len(stack[x[1]]) => FrameAt(x)'.pc \in {"wait", "give", "submit"}
    BY <2>1, <2>2, AlikeStacked DEF Stacked
  <2>6. ASSUME x[2] < Len(stack'[x[1]]), ~(x[2] < Len(stack[x[1]]))
        PROVE  FrameAt(x)'.pc \in {"wait", "give", "submit"}
    <3>1. x[2] \in 1 .. Len(stack[x[1]]) /\ stack[x[1]] # <<>>
      BY <2>1, Position
    <3>2. x[1] = t
      <4>1. CASE x[1] # t
        BY <4>1, <1>2, <2>6
      <4>. QED BY <4>1
    <3>3. x[2] = Len(stack[t])
      BY <3>1, <3>2, <2>6 DEF Types
    <3>. QED BY <3>1, <3>2, <3>3 DEF Pushes, FrameAt
  <2>. QED BY <2>2, <2>3, <2>4, <2>5, <2>6 DEF Stacked
<1>. QED BY <1>3, <1>4

LEMMA OpTyped ==
  ASSUME NEW c \in Op
  PROVE  /\ c.arg \in Tasks /\ c.op \in {"make", "wait", "block", "drop", "copy"}
         /\ c.op = "copy" => c.to \in Bodies
BY DEF Op

\* The body that a frame runs, and the call it is in.
LEMMA BodyTyped ==
  ASSUME TaskStateAssumption, NEW t \in Threads, NEW f \in FrameSet, Shape(t, f)
  PROVE  /\ BodyOf(t, f) \in Bodies
         /\ f.at <= Len(Script[BodyOf(t, f)]) => CallOf(t, f) \in Op
BY FrameTyped, NodeTyped, ElementOfSeq DEF Shape, BodyOf, Bodies, TaskStateAssumption, CallOf

\* The uppermost frame.
LEMMA TopShape ==
  ASSUME Types, ShapeInv, NEW t \in Threads, stack[t] # <<>>
  PROVE  /\ Shape(t, Top(t)) /\ Top(t) \in FrameSet /\ Tip(t) \in Frames
         /\ FrameAt(Tip(t)) = Top(t)
BY TipTyped DEF ShapeInv

LEMMA UserTop ==
  ASSUME TaskStateAssumption, Types, ShapeInv, NEW t \in Threads, stack[t] # <<>>,
         Top(t).pc \in UserPcs
  PROVE  LET f == Top(t) IN
           /\ f.making = None /\ f.nxt = None /\ f.exc = None
           /\ f.node # None => Kind[f.node[1]] # "all" /\ f.node \in Nodes /\ f.node = <<f.node[1], 1>>
           /\ Body(t) \in Bodies
           /\ f.pc \in {"wait", "help"} => InCall(t, f, {"wait"})
           /\ f.pc \in {"block", "compare", "parked"} => InCall(t, f, {"block"})
           /\ f.pc # "user" \/ HasCall(t) => Call(t) \in Op /\ Call(t).arg \in Tasks /\ HasCall(t)
<1>. DEFINE f == Top(t)
<1>1. Shape(t, f) /\ f \in FrameSet
  BY TopShape
<1>2. f.making = None
  BY <1>1 DEF Shape, ShapeMaking, MakerPcs, UserPcs, AddPcs, SettlePcs, LeavePcs, ArrivePcs, SettlerPcs
<1>3. f.nxt = None /\ f.exc = None /\ (f.node # None => Kind[f.node[1]] # "all")
      /\ (f.pc \in {"wait", "help"} => InCall(t, f, {"wait"}))
      /\ (f.pc \in {"block", "compare", "parked"} => InCall(t, f, {"block"}))
  BY <1>1, <1>2 DEF Shape, ShapeOwn, UserPcs, Own, Runner
<1>4. Body(t) \in Bodies /\ (f.at <= Len(Script[Body(t)]) => Call(t) \in Op)
  BY <1>1, BodyTyped DEF Body, Call
<1>5. f.node # None => f.node \in Nodes /\ f.node = <<f.node[1], 1>>
  BY <1>1, <1>3, FrameTyped, NodeTyped
<1>6. f.pc # "user" \/ HasCall(t) => HasCall(t)
  BY <1>3 DEF InCall, HasCall, Body, UserPcs
<1>7. HasCall(t) => Call(t) \in Op /\ Call(t).arg \in Tasks
  BY <1>4, OpTyped DEF HasCall
<1>. HIDE DEF f
<1>. QED BY <1>2, <1>3, <1>4, <1>5, <1>6, <1>7 DEF f

LEMMA CallTop ==
  ASSUME TaskStateAssumption, Types, ShapeInv, NEW t \in Threads, NEW op, Calls(t, op)
  PROVE  LET f == Top(t) IN
           /\ stack[t] # <<>> /\ f \in FrameSet /\ f.pc = "user" /\ Body(t) \in Bodies
           /\ f.making = None /\ f.nxt = None /\ f.exc = None
           /\ f.node # None => Kind[f.node[1]] # "all" /\ f.node \in Nodes /\ f.node = <<f.node[1], 1>>
           /\ Call(t) \in Op /\ Call(t).arg \in Tasks /\ Call(t).op = op
           /\ InCall(t, f, {op})
BY UserTop, TopShape DEF Calls, At, InCall, HasCall, Body, Call, UserPcs

\* A frame that adds a continuation, or is about to make its node.
LEMMA AddTop ==
  ASSUME TaskStateAssumption, Types, ShapeInv, NEW t \in Threads, stack[t] # <<>>,
         Top(t).pc \in AddPcs \cup {"attach"} \cup ArrivePcs, Top(t).making # None \/ Top(t).pc \notin ArrivePcs
  PROVE  LET f == Top(t) IN
           /\ f.making \in Tasks /\ f.making # None /\ f.cur \in Nodes /\ f.cur[1] = f.making
           /\ f.nxt = None /\ f.cur # None
           /\ InCall(t, f, {"make"}) /\ CallOf(t, f).arg = f.making
           /\ f.pc # "give" => Kind[f.making] # "produce" /\ PredOf(f.cur) \in Tasks
           /\ f.pc \notin AddPcs => Kind[f.making] = "all" /\ Pred[f.making] # <<>>
           /\ Kind[f.making] = "all" => Pred[f.making] # <<>>
           /\ Kind[f.making] \in {"produce", "then", "all"}
<1>. DEFINE f == Top(t)
<1>1. Shape(t, f) /\ f \in FrameSet
  BY TopShape
<1>2. f.making # None /\ f.making \in Tasks
  BY <1>1, FrameTyped DEF Shape, ShapeOwn
<1>3. ShapeMaking(t, f) /\ f.nxt = None
  BY <1>1, <1>2 DEF Shape, AddPcs, ArrivePcs
<1>4. f.cur \in Nodes /\ f.cur[1] = f.making /\ f.pc \in MakerPcs(f.making)
      /\ InCall(t, f, {"make"}) /\ CallOf(t, f).arg = f.making
  BY <1>3 DEF ShapeMaking
<1>5. Kind[f.making] = "all" => Pred[f.making] # <<>>
  BY <1>4 DEF MakerPcs, AddPcs, ArrivePcs, SettlePcs, LeavePcs
<1>6. f.pc # "give" => Kind[f.making] # "produce"
  BY <1>4 DEF MakerPcs
<1>7. f.pc \notin AddPcs => Kind[f.making] = "all"
  BY <1>2, <1>4 DEF TaskStateAssumption, MakerPcs, AddPcs
<1>8. f.pc # "give" => PredOf(f.cur) \in Tasks
  BY <1>4, <1>6, PredTyped
<1>9. f.cur # None /\ Kind[f.making] \in {"produce", "then", "all"}
  BY <1>2, <1>4, Names DEF TaskStateAssumption
<1>. HIDE DEF f
<1>. QED BY <1>2, <1>3, <1>4, <1>5, <1>6, <1>7, <1>8, <1>9 DEF f

\* A frame on the way from a node's turn to its end.
LEMMA NodeTop ==
  ASSUME TaskStateAssumption, Types, ShapeInv, NEW t \in Threads, stack[t] # <<>>,
         Top(t).making = None, Top(t).pc \notin UserPcs
  PROVE  LET f == Top(t) IN
           /\ f.node \in Nodes /\ f.node # None /\ f.node[1] \in Tasks /\ SubjectOf(f) = f.node[1]
           /\ f.pc \in {"look", "release_pred"} =>
                /\ Kind[f.node[1]] # "produce" /\ PredOf(f.node) \in Tasks
           /\ f.pc \in ArrivePcs => Kind[f.node[1]] = "all"
           /\ f.pc # "submit" => f.nxt = None
           /\ f.pc \notin AddPcs \cup {"attach"}
<1>. DEFINE f == Top(t)
<1>1. Shape(t, f) /\ f \in FrameSet
  BY TopShape
<1>2. ShapeOwn(t, f) /\ (f.pc # "submit" => f.nxt = None)
  BY <1>1 DEF Shape
<1>3. f.node # None /\ f.node \in Nodes /\ f.node[1] \in Tasks
  BY <1>1, <1>2, FrameTyped, NodeTyped DEF ShapeOwn
<1>4. f.pc \in {"look", "release_pred"} => Kind[f.node[1]] # "produce"
  BY <1>2 DEF ShapeOwn, Runner
<1>5. f.pc \in {"look", "release_pred"} => PredOf(f.node) \in Tasks
  BY <1>3, <1>4, PredTyped
<1>6. f.pc \in ArrivePcs => Kind[f.node[1]] = "all"
  BY <1>2 DEF ShapeOwn, Runner
<1>7. SubjectOf(f) = f.node[1]
  BY DEF SubjectOf
<1>8. f.pc \notin AddPcs \cup {"attach"}
  BY <1>2 DEF ShapeOwn
<1>. HIDE DEF f
<1>. QED BY <1>2, <1>3, <1>4, <1>5, <1>6, <1>7, <1>8 DEF f

\* The task that a frame settles.
LEMMA SettleTop ==
  ASSUME TaskStateAssumption, Types, ShapeInv, NEW t \in Threads, stack[t] # <<>>,
         Top(t).pc \in SettlerPcs \cup ArrivePcs
  PROVE  LET f == Top(t) IN
           /\ Subject(t) = SubjectOf(f) /\ Subject(t) \in Tasks
           /\ f.pc # "submit" => f.nxt = None
           /\ f.making = None => f.node \in Nodes /\ f.node # None /\ Subject(t) = f.node[1]
           /\ f.making # None => Subject(t) = f.making /\ Kind[f.making] = "all"
           /\ f.pc \in ArrivePcs => Kind[Subject(t)] = "all"
           /\ f.pc \in {"release_result"} \cup ArrivePcs /\ f.making # None => Pred[f.making] # <<>>
<1>. DEFINE f == Top(t)
<1>1. Shape(t, f) /\ f \in FrameSet /\ f.making \in Tasks \cup {None}
  BY TopShape, FrameTyped
<1>2. CASE f.making = None
  BY <1>2, NodeTop DEF Subject, SubjectOf, SettlerPcs, SettlePcs, LeavePcs, UserPcs, ArrivePcs
<1>3. CASE f.making # None
  <2>1. ShapeMaking(t, f) /\ (f.pc # "submit" => f.nxt = None)
    BY <1>1, <1>3 DEF Shape
  <2>2. f.pc \in MakerPcs(f.making) /\ Kind[f.making] \in {"produce", "then", "all"}
    BY <1>1, <1>3, <2>1 DEF ShapeMaking, TaskStateAssumption
  <2>3. Kind[f.making] = "all" /\ (f.pc \in {"release_result"} \cup ArrivePcs => Pred[f.making] # <<>>)
    BY <2>2 DEF MakerPcs, SettlerPcs, SettlePcs, LeavePcs, AddPcs, ArrivePcs
  <2>. QED BY <2>1, <2>3, <1>1, <1>3 DEF Subject, SubjectOf
<1>. QED BY <1>2, <1>3

-----------------------------------------------------------------------------
(* The steps: how the frames move, the types and the shape of frames.      *)

\* The frames move as in Moves, and keep their shape.
Steps(t, g, l, m, c, x, e) ==
  /\ stack[t] # <<>> /\ Is(g, Top(t), l, m, c, x, e) /\ Moves(t, g)
  /\ stack' \in [Threads -> Seq(FrameSet)] /\ ShapeInv'

LEMMA StepOf ==
  ASSUME Types, ShapeInv, NEW t \in Threads, stack[t] # <<>>,
         NEW g, NEW l, NEW m, NEW c, NEW x, NEW e,
         Become(t, g), Is(g, Top(t), l, m, c, x, e), Shape(t, g)
  PROVE  Steps(t, g, l, m, c, x, e)
BY BecomeMoves, MoveShape DEF Is, Steps

\* The call of a frame does not depend on its place.
LEMMA SameCall ==
  ASSUME NEW t, NEW f, NEW g, g.node = f.node, g.at = f.at
  PROVE  /\ BodyOf(t, g) = BodyOf(t, f) /\ CallOf(t, g) = CallOf(t, f)
         /\ \A ops : InCall(t, g, ops) <=> InCall(t, f, ops)
BY DEF BodyOf, CallOf, InCall

\* A frame that is not in a call of make.
LEMMA ReturnedShape ==
  ASSUME NEW t, NEW f \in FrameSet, Shape(t, f), f.nxt = None,
         Own(f) \in UserPcs
  PROVE  Shape(t, Returned(f))
<1>. DEFINE g == Returned(f)
<1>1. g.pc = "user" /\ g.making = None /\ g.exc = None /\ g.node = f.node /\ g.nxt = None
  BY FrameReturned DEF Is
<1>2. (f.node = None => Home[t] \in Programs) /\ (f.node # None => Kind[Runner(f)] # "all")
  BY DEF Shape
<1>. HIDE DEF g
<1>3. ShapeOwn(t, g)
  BY <1>1 DEF ShapeOwn, AddPcs, ArrivePcs, UserPcs
<1>4. Shape(t, g)
  BY <1>1, <1>2, <1>3 DEF Shape, Runner, Own
<1>. QED BY <1>4 DEF g

\* A frame in a call of make.
LEMMA MakingShape ==
  ASSUME NEW t, NEW f, Shape(t, f), Own(f) \in UserPcs,
         NEW g, NEW l, NEW k, NEW c, NEW x, NEW e,
         Is(g, f, l, k, c, x, e), k # None, l # "user",
         InCall(t, f, {"make"}), CallOf(t, f).arg = k, l \in MakerPcs(k),
         l # "submit" => x = None, l = "submit" => c # None,
         l \in AddPcs \cup {"attach"} \cup ArrivePcs => c \in Nodes /\ c[1] = k,
         l \in ArrivePcs => e = AllocError /\ k \in MayFail
  PROVE  Shape(t, g)
BY SameCall DEF Is, ShapeMaking, Shape, Own, Runner

\* A frame that runs a node.
LEMMA RunningShape ==
  ASSUME NEW t, NEW f, Shape(t, f), f.making = None, f.node # None,
         NEW g, NEW l, NEW c, NEW x, NEW e,
         Is(g, f, l, None, c, x, e), l # "look", l \notin AddPcs \cup {"attach"} \cup UserPcs,
         l # "submit" => x = None, l = "submit" => c # None,
         l = "release_pred" => Kind[Runner(f)] # "produce",
         l \in ArrivePcs => Kind[Runner(f)] = "all"
  PROVE  Shape(t, g)
BY DEF Is, ShapeOwn, Runner, UserPcs, Shape, Own

LEMMA TypesNext ==
  ASSUME Types, stack' \in [Threads -> Seq(FrameSet)],
         refs' = refs \/ refs' \in [Tasks -> Int],
         cont' = cont \/ cont' \in [Tasks -> Nodes \cup {None, Finished}],
         err' = err \/ err' \in [Tasks -> Tasks \cup {None, AllocError}],
         nodes' = nodes \/ (nodes' \in SUBSET Nodes /\ IsFiniteSet(nodes')),
         next' = next \/ next' \in [Nodes -> Nodes \cup {None}],
         remaining' = remaining \/ remaining' \in [Tasks -> Int],
         claimed' = claimed \/ claimed' \in [Tasks -> BOOLEAN],
         ctlErr' = ctlErr \/ ctlErr' \in [Tasks -> Tasks \cup {None, AllocError}],
         hold' = hold \/ (hold' \in [Tasks -> SUBSET Bodies] /\ \A k \in Tasks : IsFiniteSet(hold'[k])),
         queued' = queued \/ queued' \in SUBSET Nodes,
         runs' = runs \/ runs' \in [Tasks -> Nat],
         aborted' = aborted \/ aborted' \in BOOLEAN
  PROVE  Types'
<1>1. /\ refs' \in [Tasks -> Int]
      /\ cont' \in [Tasks -> Nodes \cup {None, Finished}]
      /\ err' \in [Tasks -> Tasks \cup {None, AllocError}]
  BY DEF Types
<1>2. /\ nodes' \in SUBSET Nodes /\ IsFiniteSet(nodes')
      /\ next' \in [Nodes -> Nodes \cup {None}]
  BY DEF Types
<1>3. /\ remaining' \in [Tasks -> Int]
      /\ ctlErr' \in [Tasks -> Tasks \cup {None, AllocError}]
  BY DEF Types
<1>4. claimed' \in [Tasks -> BOOLEAN]
  BY Zenon DEF Types
<1>5. hold' \in [Tasks -> SUBSET Bodies] /\ \A k \in Tasks : IsFiniteSet(hold'[k])
  BY Zenon DEF Types
<1>6. queued' \in SUBSET Nodes /\ runs' \in [Tasks -> Nat]
  BY DEF Types
<1>7. aborted' \in BOOLEAN
  BY Zenon DEF Types
<1>. QED BY <1>1, <1>2, <1>3, <1>4, <1>5, <1>6, <1>7, Zenon DEF Types

LEMMA SubmitTaskStep ==
  ASSUME TaskStateAssumption, Types, ShapeInv, NEW t \in Threads, SubmitTask(t)
  PROVE  /\ Types'
         /\ \E g : Steps(t, g, "give", Call(t).arg, <<Call(t).arg, 1>>, None, None)
<1>. DEFINE k == Call(t).arg  f == Top(t)  g == [f EXCEPT !.making = k, !.cur = <<k, 1>>, !.pc = "give"]
<1>1. CallsMake(t, "produce")
  BY DEF SubmitTask
<1>2. /\ stack[t] # <<>> /\ f \in FrameSet /\ f.pc = "user" /\ f.making = None /\ f.nxt = None
      /\ f.exc = None /\ k \in Tasks /\ Kind[k] = "produce" /\ InCall(t, f, {"make"}) /\ Body(t) \in Bodies
  BY <1>1, CallTop DEF CallsMake
<1>3. <<k, 1>> \in Nodes /\ "give" \in PCs /\ k # None
  BY <1>2, FirstNode, Names DEF PCs
<1>4. Is(g, f, "give", k, <<k, 1>>, None, None)
  <2>. HIDE DEF f, k
  <2>. QED BY <1>2, <1>3, FrameMade
<1>5. Shape(t, g)
  <2>1. Shape(t, f) /\ CallOf(t, f).arg = k /\ "give" \in MakerPcs(k) /\ Own(f) \in UserPcs
    BY <1>2, TopShape DEF Call, MakerPcs, Own, UserPcs
  <2>. HIDE DEF f, k, g
  <2>. QED BY <2>1, <1>2, <1>3, <1>4, MakingShape DEF ArrivePcs
<1>6. Become(t, g)
  BY DEF SubmitTask, Making
<1>7. Steps(t, g, "give", k, <<k, 1>>, None, None)
  <2>. HIDE DEF f, k, g
  <2>. QED BY <1>2, <1>4, <1>5, <1>6, StepOf DEF f
<1>8. Types'
  <2>1. stack' \in [Threads -> Seq(FrameSet)]
    BY <1>7 DEF Steps
  <2>3. /\ refs' = [refs EXCEPT ![k] = 2] /\ nodes' = nodes \cup {<<k, 1>>}
        /\ hold' = [hold EXCEPT ![k] = {Body(t)}]
        /\ UNCHANGED <<cont, err, next, ctlVars, queued, histVars>>
    BY DEF SubmitTask, Making
  <2>. HIDE DEF k
  <2>2. nodes' \in SUBSET Nodes /\ IsFiniteSet(nodes')
    BY <2>3, <1>3, FS_AddElement DEF Types
  <2>4. hold' \in [Tasks -> SUBSET Bodies] /\ \A j \in Tasks : IsFiniteSet(hold'[j])
    BY <1>2, FS_Singleton, <2>3 DEF Types
  <2>5. refs' \in [Tasks -> Int]
    BY <2>3, <1>2 DEF Types
  <2>. QED BY <2>1, <2>2, <2>3, <2>4, <2>5, TypesNext DEF ctlVars, histVars
<1>. QED BY <1>7, <1>8

LEMMA ThenStep ==
  ASSUME TaskStateAssumption, Types, ShapeInv, NEW t \in Threads, Then(t)
  PROVE  /\ Types'
         /\ \E g : Steps(t, g, "load", Call(t).arg, <<Call(t).arg, 1>>, None, None)
<1>. DEFINE k == Call(t).arg  f == Top(t)  g == [f EXCEPT !.making = k, !.cur = <<k, 1>>, !.pc = "load"]
<1>1. CallsMake(t, "then")
  BY DEF Then
<1>2. /\ stack[t] # <<>> /\ f \in FrameSet /\ f.pc = "user" /\ f.making = None /\ f.nxt = None
      /\ f.exc = None /\ k \in Tasks /\ Kind[k] = "then" /\ InCall(t, f, {"make"}) /\ Body(t) \in Bodies
  BY <1>1, CallTop DEF CallsMake
<1>3. <<k, 1>> \in Nodes /\ "load" \in PCs /\ k # None
  BY <1>2, FirstNode, Names DEF PCs
<1>4. Is(g, f, "load", k, <<k, 1>>, None, None)
  <2>. HIDE DEF f, k
  <2>. QED BY <1>2, <1>3, FrameMade
<1>5. Shape(t, g)
  <2>1. Shape(t, f) /\ CallOf(t, f).arg = k /\ "load" \in MakerPcs(k) /\ Own(f) \in UserPcs
    BY <1>2, TopShape DEF Call, MakerPcs, Own, UserPcs, AddPcs
  <2>. HIDE DEF f, k, g
  <2>. QED BY <2>1, <1>2, <1>3, <1>4, MakingShape DEF ArrivePcs
<1>6. Become(t, g)
  BY DEF Then, Making
<1>7. Steps(t, g, "load", k, <<k, 1>>, None, None)
  <2>. HIDE DEF f, k, g
  <2>. QED BY <1>2, <1>4, <1>5, <1>6, StepOf DEF f
<1>8. Types'
  <2>1. stack' \in [Threads -> Seq(FrameSet)]
    BY <1>7 DEF Steps
  <2>3. /\ refs' = [refs EXCEPT ![k] = 2, ![Pred[k][1]] = @ + 1] /\ nodes' = nodes \cup {<<k, 1>>}
        /\ hold' = [hold EXCEPT ![k] = {Body(t)}]
        /\ UNCHANGED <<cont, err, next, ctlVars, queued, histVars>>
    BY DEF Then, Making
  <2>. HIDE DEF k
  <2>2. nodes' \in SUBSET Nodes /\ IsFiniteSet(nodes')
    BY <2>3, <1>3, FS_AddElement DEF Types
  <2>4. hold' \in [Tasks -> SUBSET Bodies] /\ \A j \in Tasks : IsFiniteSet(hold'[j])
    BY <1>2, FS_Singleton, <2>3 DEF Types
  <2>5. refs' \in [Tasks -> Int]
    <3>1. Len(Pred[k]) = 1 /\ Pred[k] \in Seq(Tasks)
      BY <1>2 DEF TaskStateAssumption
    <3>2. Pred[k][1] \in Tasks
      BY <3>1
    <3>3. [refs EXCEPT ![k] = 2] \in [Tasks -> Int]
      BY <1>2 DEF Types
    <3>. QED BY <2>3, <3>2, <3>3
  <2>. QED BY <2>1, <2>2, <2>3, <2>4, <2>5, TypesNext DEF ctlVars, histVars
<1>. QED BY <1>7, <1>8

\* when_all of no tasks settles the result; of tasks it makes their nodes.
LEMMA WhenAllStep ==
  ASSUME TaskStateAssumption, Types, ShapeInv, NEW t \in Threads, WhenAll(t)
  PROVE  LET k == Call(t).arg IN
         /\ Types'
         /\ \/ /\ Pred[k] = <<>> /\ refs' = [refs EXCEPT ![k] = 1] /\ UNCHANGED remaining
               /\ \E g : Steps(t, g, "store", k, None, None, None)
            \/ /\ Pred[k] # <<>> /\ refs' = [refs EXCEPT ![k] = 2]
               /\ remaining' = [remaining EXCEPT ![k] = Len(Pred[k])]
               /\ \E g : Steps(t, g, "attach", k, <<k, 1>>, None, None)
<1>. DEFINE k == Call(t).arg  f == Top(t)
            g(c, l) == [f EXCEPT !.making = k, !.cur = c, !.pc = l]
<1>1. CallsMake(t, "all")
  BY DEF WhenAll
<1>2. /\ stack[t] # <<>> /\ f \in FrameSet /\ f.pc = "user" /\ f.making = None /\ f.nxt = None
      /\ f.exc = None /\ k \in Tasks /\ Kind[k] = "all" /\ InCall(t, f, {"make"}) /\ Body(t) \in Bodies
  BY <1>1, CallTop DEF CallsMake
<1>3. k # None /\ Shape(t, f) /\ CallOf(t, f).arg = k /\ Own(f) \in UserPcs
  BY <1>2, TopShape, Names DEF Call, Own, UserPcs
<1>4. ASSUME NEW c \in Nodes \cup {None}, NEW l \in PCs, l \in MakerPcs(k), l \notin AddPcs \cup ArrivePcs \cup {"submit", "user"},
             l = "attach" => c \in Nodes /\ c[1] = k, NEW h, h = g(c, l), Become(t, h)
      PROVE  Steps(t, h, l, k, c, None, None)
  <2>1. Is(h, f, l, k, c, None, None)
    <3>. HIDE DEF f, k
    <3>. QED BY <1>2, <1>4, FrameMade
  <2>. HIDE DEF k, g
  <2>2. Shape(t, h)
    <3>. HIDE DEF f
    <3>. QED BY <2>1, <1>2, <1>3, <1>4, MakingShape DEF ArrivePcs
  <2>. QED BY <2>1, <2>2, <1>2, <1>4, StepOf
<1>5. ASSUME Pred[k] = <<>>
      PROVE  /\ refs' = [refs EXCEPT ![k] = 1] /\ UNCHANGED remaining
             /\ \E h : Steps(t, h, "store", k, None, None, None)
  <2>1. refs' = [refs EXCEPT ![k] = 1] /\ UNCHANGED remaining /\ Become(t, g(None, "store"))
        /\ hold' = [hold EXCEPT ![k] = {Body(t)}]
    BY <1>5 DEF WhenAll, Making
  <2>2. "store" \in MakerPcs(k) /\ "store" \in PCs
    BY <1>2, <1>5 DEF MakerPcs, SettlePcs, PCs
  <2>3. Steps(t, g(None, "store"), "store", k, None, None, None)
    <3>1. "store" \notin AddPcs \cup ArrivePcs \cup {"submit", "user"}
      BY DEF AddPcs, ArrivePcs
    <3>. HIDE DEF k, g
    <3>2. None \in Nodes \cup {None} /\ ("store" = "attach" => None \in Nodes /\ None[1] = k)
      BY <2>2
    <3>. QED BY <2>1, <2>2, <3>1, <3>2, <1>4
  <2>. QED BY <2>1, <2>3, <1>5
<1>6. ASSUME Pred[k] # <<>>
      PROVE  /\ refs' = [refs EXCEPT ![k] = 2]
             /\ remaining' = [remaining EXCEPT ![k] = Len(Pred[k])]
             /\ \E h : Steps(t, h, "attach", k, <<k, 1>>, None, None)
  <2>1. refs' = [refs EXCEPT ![k] = 2] /\ Become(t, g(<<k, 1>>, "attach"))
        /\ hold' = [hold EXCEPT ![k] = {Body(t)}] /\ remaining' = [remaining EXCEPT ![k] = Len(Pred[k])]
    BY <1>6 DEF WhenAll, Making
  <2>2. "attach" \in MakerPcs(k) /\ "attach" \in PCs /\ <<k, 1>> \in Nodes
    BY <1>2, <1>6, FirstNode DEF MakerPcs, SettlePcs, PCs
  <2>3. Steps(t, g(<<k, 1>>, "attach"), "attach", k, <<k, 1>>, None, None)
    <3>1. "attach" \notin AddPcs \cup ArrivePcs \cup {"submit", "user"}
      BY DEF AddPcs, ArrivePcs
    <3>. HIDE DEF k, g
    <3>2. <<k, 1>> \in Nodes \cup {None} /\ ("attach" = "attach" => <<k, 1>> \in Nodes /\ <<k, 1>>[1] = k)
      BY <2>2
    <3>. QED BY <2>1, <2>2, <3>1, <3>2, <1>4
  <2>. QED BY <2>1, <2>3, <1>6
<1>7. Types'
  <2>1. stack' \in [Threads -> Seq(FrameSet)]
    BY <1>5, <1>6 DEF Steps
  <2>2. /\ refs' = [refs EXCEPT ![k] = 1] \/ refs' = [refs EXCEPT ![k] = 2]
        /\ remaining' = remaining \/ remaining' = [remaining EXCEPT ![k] = Len(Pred[k])]
        /\ hold' = [hold EXCEPT ![k] = {Body(t)}]
        /\ UNCHANGED <<cont, err, nodeVars, claimed, ctlErr, queued, histVars>>
    BY DEF WhenAll, Making
  <2>. HIDE DEF k
  <2>3. hold' \in [Tasks -> SUBSET Bodies] /\ \A j \in Tasks : IsFiniteSet(hold'[j])
    <3>1. IsFiniteSet({Body(t)}) /\ {Body(t)} \in SUBSET Bodies
      BY <1>2, FS_Singleton
    <3>. QED BY <3>1, <2>2, <1>2 DEF Types
  <2>4. refs' \in [Tasks -> Int]
    BY <2>2, <1>2 DEF Types
  <2>5. remaining' \in [Tasks -> Int]
    BY <1>2, <2>2 DEF TaskStateAssumption, Types
  <2>. QED BY <2>1, <2>2, <2>3, <2>4, <2>5, TypesNext DEF nodeVars, histVars
<1>. QED BY <1>5, <1>6, <1>7

\* A frame that goes on: with its node, or in its call of make.
LEMMA PathShape ==
  ASSUME NEW t, NEW f, NEW g, NEW l, NEW c, NEW x, NEW e,
         Shape(t, f), Is(g, f, l, f.making, c, x, e), l \notin UserPcs \cup {"look"},
         l # "submit" => x = None, l = "submit" => c # None,
         f.making = None => /\ f.node # None
                            /\ l \notin AddPcs \cup {"attach"}
                            /\ l = "release_pred" => Kind[f.node[1]] # "produce"
                            /\ l \in ArrivePcs => Kind[f.node[1]] = "all",
         f.making # None => /\ l \in MakerPcs(f.making)
                            /\ l \in AddPcs \cup {"attach"} \cup ArrivePcs => c \in Nodes /\ c[1] = f.making
                            /\ l \in ArrivePcs => e = AllocError /\ f.making \in MayFail
  PROVE  Shape(t, g)
<1>1. CASE f.making = None
  BY <1>1, RunningShape DEF Runner, UserPcs
<1>2. CASE f.making # None
  <2>1. Own(f) \in UserPcs /\ ShapeMaking(t, f)
    BY <1>2 DEF Own, UserPcs, Shape
  <2>2. InCall(t, f, {"make"}) /\ CallOf(t, f).arg = f.making
    BY <2>1 DEF ShapeMaking
  <2>. QED BY <1>2, <2>1, <2>2, MakingShape DEF UserPcs
<1>. QED BY <1>1, <1>2

\* A frame that waits.
LEMMA WaitShape ==
  ASSUME NEW t, NEW f, NEW g, NEW l, NEW c,
         Shape(t, f), Own(f) \in UserPcs, Is(g, f, l, None, c, None, None),
         l \in {"wait", "help", "block", "compare", "parked"},
         l \in {"wait", "help"} => InCall(t, f, {"wait"}),
         l \in {"block", "compare", "parked"} => InCall(t, f, {"block"})
  PROVE  Shape(t, g)
BY SameCall DEF Is, ShapeOwn, UserPcs, AddPcs, ArrivePcs, Shape, Runner, Own

LEMMA GotoStep ==
  ASSUME Types, ShapeInv, NEW t \in Threads, stack[t] # <<>>, NEW l \in PCs, Goto(t, l),
         Shape(t, [Top(t) EXCEPT !.pc = l])
  PROVE  \E g : Steps(t, g, l, Top(t).making, Top(t).cur, Top(t).nxt, Top(t).exc)
<1>. DEFINE f == Top(t)  g == [f EXCEPT !.pc = l]
<1>1. Is(g, f, l, f.making, f.cur, f.nxt, f.exc)
  <2>1. f \in FrameSet
    BY TopShape
  <2>. HIDE DEF f
  <2>. QED BY <2>1, FrameGoto
<1>2. Become(t, g) /\ Shape(t, g)
  BY DEF Goto
<1>. HIDE DEF g
<1>. QED BY <1>1, <1>2, StepOf

LEMMA GoOn ==
  ASSUME Types, ShapeInv, NEW t \in Threads, stack[t] # <<>>, NEW l \in PCs, Goto(t, l),
         l \notin UserPcs \cup {"look", "submit"}, Top(t).nxt = None,
         Top(t).making = None => /\ Top(t).node # None
                                 /\ l \notin AddPcs \cup {"attach"}
                                 /\ l = "release_pred" => Kind[Top(t).node[1]] # "produce"
                                 /\ l \in ArrivePcs => Kind[Top(t).node[1]] = "all",
         Top(t).making # None => /\ l \in MakerPcs(Top(t).making)
                                 /\ l \in AddPcs \cup {"attach"} \cup ArrivePcs =>
                                      Top(t).cur \in Nodes /\ Top(t).cur[1] = Top(t).making
                                 /\ l \in ArrivePcs => Top(t).exc = AllocError /\ Top(t).making \in MayFail
  PROVE  \E g : Steps(t, g, l, Top(t).making, Top(t).cur, None, Top(t).exc)
<1>. DEFINE f == Top(t)  g == [f EXCEPT !.pc = l]
<1>1. Shape(t, f) /\ f \in FrameSet
  BY TopShape
<1>2. Is(g, f, l, f.making, f.cur, None, f.exc)
  <2>1. f.nxt = None
    OBVIOUS
  <2>. HIDE DEF f
  <2>. QED BY <1>1, <2>1, FrameGoto
<1>3. Shape(t, g)
  <2>. HIDE DEF g
  <2>. QED BY <1>1, <1>2, PathShape
<1>. QED BY <1>3, GotoStep

LEMMA AttachStep ==
  ASSUME TaskStateAssumption, Types, ShapeInv, NEW t \in Threads, Attach(t)
  PROVE  LET f == Top(t) IN
         Types' /\ \E g : Steps(t, g, "load", f.making, f.cur, None, f.exc)
<1>. DEFINE f == Top(t)
<1>1. stack[t] # <<>> /\ f.pc = "attach" /\ Goto(t, "load")
  BY DEF Attach, At
<1>2. /\ f.making \in Tasks /\ f.making # None /\ f.cur \in Nodes /\ f.cur[1] = f.making
      /\ f.nxt = None /\ PredOf(f.cur) \in Tasks /\ Kind[f.making] = "all" /\ Pred[f.making] # <<>>
  BY <1>1, AddTop DEF AddPcs, ArrivePcs
<1>3. "load" \in MakerPcs(f.making) /\ "load" \in PCs
  BY <1>2 DEF MakerPcs, AddPcs, PCs
<1>4. \E g : Steps(t, g, "load", f.making, f.cur, None, f.exc)
  BY <1>1, <1>2, <1>3, GoOn DEF UserPcs, ArrivePcs
<1>5. Types'
  <2>1. stack' \in [Threads -> Seq(FrameSet)]
    BY <1>4 DEF Steps
  <2>2. /\ refs' = [refs EXCEPT ![PredOf(f.cur)] = @ + 1] /\ nodes' = nodes \cup {f.cur}
        /\ UNCHANGED <<cont, err, next, ctlVars, hold, queued, histVars>>
    BY DEF Attach, AddRef
  <2>. HIDE DEF f
  <2>3. nodes' \in SUBSET Nodes /\ IsFiniteSet(nodes')
    BY <2>2, <1>2, FS_AddElement DEF Types
  <2>4. refs' \in [Tasks -> Int]
    BY <1>2, <2>2 DEF Types
  <2>. QED BY <2>1, <2>2, <2>3, <2>4, TypesNext DEF ctlVars, histVars
<1>. QED BY <1>4, <1>5

LEMMA AttachFailsStep ==
  ASSUME TaskStateAssumption, Types, ShapeInv, NEW t \in Threads, AttachFails(t)
  PROVE  LET f == Top(t) IN
         Types' /\ \E g : Steps(t, g, "claim", f.making, f.cur, None, AllocError)
<1>. DEFINE f == Top(t)  g == [f EXCEPT !.pc = "claim", !.exc = AllocError]
<1>1. stack[t] # <<>> /\ f.pc = "attach" /\ Become(t, g) /\ Subject(t) \in MayFail
  BY DEF AttachFails, At
<1>2. /\ f.making \in Tasks /\ f.making # None /\ f.cur \in Nodes /\ f.cur[1] = f.making
      /\ f.nxt = None /\ Kind[f.making] = "all" /\ Pred[f.making] # <<>>
  BY <1>1, AddTop DEF AddPcs, ArrivePcs
<1>3. "claim" \in MakerPcs(f.making) /\ "claim" \in PCs /\ f.making \in MayFail
  BY <1>1, <1>2 DEF MakerPcs, ArrivePcs, PCs, Subject, SubjectOf
<1>4. Shape(t, f) /\ f \in FrameSet
  BY <1>1, TopShape
<1>5. Is(g, f, "claim", f.making, f.cur, None, AllocError)
  <2>. HIDE DEF f
  <2>. QED BY <1>2, <1>3, <1>4, FrameExc
<1>6. Steps(t, g, "claim", f.making, f.cur, None, AllocError)
  <2>. HIDE DEF g
  <2>1. Shape(t, g)
    <3>. HIDE DEF f
    <3>1. "claim" \notin UserPcs \cup {"look"}
      BY DEF UserPcs
    <3>. QED BY <1>2, <1>3, <1>4, <1>5, <3>1, PathShape
  <2>. QED BY <1>1, <1>5, <2>1, StepOf
<1>7. Types'
  <2>1. stack' \in [Threads -> Seq(FrameSet)]
    BY <1>6 DEF Steps
  <2>2. UNCHANGED <<stateVars, nodeVars, ctlVars, hold, queued, histVars>>
    BY DEF AttachFails
  <2>. QED BY <2>1, <2>2, TypesNext DEF stateVars, nodeVars, ctlVars, histVars
<1>. QED BY <1>6, <1>7

\* The value of continuations_ just read: the task is complete, or the node is linked before it.
LEMMA SeeStep ==
  ASSUME TaskStateAssumption, Types, ShapeInv, NEW t \in Threads, stack[t] # <<>>,
         Top(t).pc \in {"load", "cas"}, See(t)
  PROVE  LET f == Top(t) IN
         /\ next' \in [Nodes -> Nodes \cup {None}]
         /\ \/ /\ cont[PredOf(f.cur)] = Finished /\ next' = [next EXCEPT ![f.cur] = None]
               /\ \E g : Steps(t, g, "give", f.making, f.cur, None, f.exc)
            \/ /\ cont[PredOf(f.cur)] # Finished /\ next' = [next EXCEPT ![f.cur] = cont[PredOf(f.cur)]]
               /\ \E g : Steps(t, g, "cas", f.making, f.cur, None, f.exc)
<1>. DEFINE f == Top(t)
<1>1. /\ f.making \in Tasks /\ f.making # None /\ f.cur \in Nodes /\ f.cur[1] = f.making
      /\ f.nxt = None /\ PredOf(f.cur) \in Tasks /\ Kind[f.making] # "produce"
      /\ Kind[f.making] = "all" => Pred[f.making] # <<>>
      /\ Kind[f.making] \in {"produce", "then", "all"}
  BY AddTop DEF AddPcs, ArrivePcs
<1>2. ASSUME NEW l \in {"give", "cas"}, Goto(t, l)
      PROVE  \E g : Steps(t, g, l, f.making, f.cur, None, f.exc)
  BY <1>1, <1>2, GoOn DEF MakerPcs, AddPcs, PCs, UserPcs, ArrivePcs
<1>3. CASE cont[PredOf(f.cur)] = Finished
  BY <1>3, <1>2 DEF See, Types
<1>4. CASE cont[PredOf(f.cur)] # Finished
  BY <1>4, <1>1, <1>2 DEF See, Types
<1>. QED BY <1>3, <1>4

LEMMA LoadStep ==
  ASSUME TaskStateAssumption, Types, ShapeInv, NEW t \in Threads, Load(t)
  PROVE  LET f == Top(t) IN
         /\ Types'
         /\ \/ /\ cont[PredOf(f.cur)] = Finished /\ next' = [next EXCEPT ![f.cur] = None]
               /\ \E g : Steps(t, g, "give", f.making, f.cur, None, f.exc)
            \/ /\ cont[PredOf(f.cur)] # Finished /\ next' = [next EXCEPT ![f.cur] = cont[PredOf(f.cur)]]
               /\ \E g : Steps(t, g, "cas", f.making, f.cur, None, f.exc)
<1>1. stack[t] # <<>> /\ Top(t).pc \in {"load", "cas"} /\ See(t)
      /\ UNCHANGED <<stateVars, nodes, ctlVars, hold, queued, histVars>>
  BY DEF Load, At
<1>. DEFINE f == Top(t)
<1>2. /\ next' \in [Nodes -> Nodes \cup {None}]
      /\ \/ /\ cont[PredOf(f.cur)] = Finished /\ next' = [next EXCEPT ![f.cur] = None]
            /\ \E g : Steps(t, g, "give", f.making, f.cur, None, f.exc)
         \/ /\ cont[PredOf(f.cur)] # Finished /\ next' = [next EXCEPT ![f.cur] = cont[PredOf(f.cur)]]
            /\ \E g : Steps(t, g, "cas", f.making, f.cur, None, f.exc)
  BY <1>1, SeeStep
<1>. HIDE DEF f
<1>3. stack' \in [Threads -> Seq(FrameSet)]
  BY <1>2 DEF Steps
<1>4. Types'
  BY <1>1, <1>2, <1>3, TypesNext DEF stateVars, ctlVars, histVars
<1>. QED BY <1>2, <1>4 DEF f

\* The step after a node has been added: to the next one, or the call is over.
LEMMA LinkedStep ==
  ASSUME TaskStateAssumption, Types, ShapeInv, NEW t \in Threads, stack[t] # <<>>,
         Top(t).pc \in AddPcs, Become(t, Linked(Top(t)))
  PROVE  LET f == Top(t) IN
         \/ /\ More(f) /\ <<f.cur[1], f.cur[2] + 1>> \in Nodes
            /\ \E g : Steps(t, g, "attach", f.making, <<f.cur[1], f.cur[2] + 1>>, None, f.exc)
         \/ /\ ~More(f)
            /\ \E g : Steps(t, g, "user", None, None, None, None)
<1>. DEFINE f == Top(t)  g == Linked(f)
<1>1. /\ f.making \in Tasks /\ f.making # None /\ f.cur \in Nodes /\ f.cur[1] = f.making
      /\ f.nxt = None
      /\ Kind[f.making] = "all" => Pred[f.making] # <<>>
  BY AddTop DEF AddPcs, ArrivePcs
<1>2. Shape(t, f) /\ f \in FrameSet
  BY TopShape
<1>3. CASE More(f)
  <2>1. Is(g, f, "attach", f.making, <<f.cur[1], f.cur[2] + 1>>, None, f.exc)
        /\ <<f.cur[1], f.cur[2] + 1>> \in Nodes
    <3>. HIDE DEF f
    <3>. QED BY <1>1, <1>2, <1>3, FrameLinked
  <2>2. Kind[f.making] = "all" /\ "attach" \in MakerPcs(f.making) /\ "attach" \notin UserPcs \cup {"look"}
    BY <1>1, <1>3 DEF More, MakerPcs, UserPcs
  <2>3. Shape(t, g)
    <3>1. <<f.cur[1], f.cur[2] + 1>>[1] = f.making
      BY <1>1
    <3>. DEFINE c == <<f.cur[1], f.cur[2] + 1>>
    <3>. HIDE DEF f, g, c
    <3>. QED BY <2>1, <2>2, <3>1, <1>1, <1>2, PathShape DEF c, ArrivePcs
  <2>4. Steps(t, g, "attach", f.making, <<f.cur[1], f.cur[2] + 1>>, None, f.exc)
    <3>. HIDE DEF g
    <3>. QED BY <2>1, <2>3, StepOf DEF g
  <2>. QED BY <1>3, <2>1, <2>4
<1>4. CASE ~More(f)
  <2>1. Is(g, f, "user", None, None, None, None)
    <3>. HIDE DEF f
    <3>. QED BY <1>1, <1>2, <1>4, FrameLinked
  <2>2. Shape(t, g)
    <3>1. Own(f) \in UserPcs
      BY <1>1 DEF Own, UserPcs
    <3>. HIDE DEF f
    <3>. QED BY <1>1, <1>2, <1>4, <3>1, ReturnedShape DEF Linked
  <2>3. Steps(t, g, "user", None, None, None, None)
    <3>. HIDE DEF g
    <3>. QED BY <2>1, <2>2, StepOf DEF g
  <2>. QED BY <1>4, <2>3
<1>. QED BY <1>3, <1>4

LEMMA CompareExchangeStep ==
  ASSUME TaskStateAssumption, Types, ShapeInv, NEW t \in Threads, CompareExchange(t)
  PROVE  LET f == Top(t)
             p == PredOf(Top(t).cur) IN
         /\ Types' /\ stack[t] # <<>> /\ f.pc = "cas"
         /\ \/ /\ cont[p] = next[f.cur] /\ cont' = [cont EXCEPT ![p] = f.cur] /\ next' = next
               /\ \/ /\ More(f) /\ <<f.cur[1], f.cur[2] + 1>> \in Nodes
                     /\ \E g : Steps(t, g, "attach", f.making, <<f.cur[1], f.cur[2] + 1>>, None, f.exc)
                  \/ /\ ~More(f)
                     /\ \E g : Steps(t, g, "user", None, None, None, None)
            \/ /\ cont[p] # next[f.cur] /\ cont[p] = Finished
               /\ next' = [next EXCEPT ![f.cur] = None] /\ cont' = cont
               /\ \E g : Steps(t, g, "give", f.making, f.cur, None, f.exc)
            \/ /\ cont[p] # next[f.cur] /\ cont[p] # Finished
               /\ next' = [next EXCEPT ![f.cur] = cont[p]] /\ cont' = cont
               /\ \E g : Steps(t, g, "cas", f.making, f.cur, None, f.exc)
<1>. DEFINE f == Top(t)  p == PredOf(f.cur)
<1>1. stack[t] # <<>> /\ f.pc = "cas" /\ UNCHANGED <<refs, err, nodes, ctlVars, hold, queued, histVars>>
  BY DEF CompareExchange, At
<1>2. f.pc \in AddPcs /\ f.pc \in {"load", "cas"} /\ f.cur \in Nodes /\ p \in Tasks
  BY <1>1, AddTop DEF AddPcs, ArrivePcs
<1>3. CASE cont[p] = next[f.cur]
  <2>1. cont' = [cont EXCEPT ![p] = f.cur] /\ next' = next /\ Become(t, Linked(f))
    BY <1>3 DEF CompareExchange
  <2>2. \/ /\ More(f) /\ <<f.cur[1], f.cur[2] + 1>> \in Nodes
           /\ \E g : Steps(t, g, "attach", f.making, <<f.cur[1], f.cur[2] + 1>>, None, f.exc)
        \/ /\ ~More(f)
           /\ \E g : Steps(t, g, "user", None, None, None, None)
    BY <1>1, <1>2, <2>1, LinkedStep
  <2>3. stack' \in [Threads -> Seq(FrameSet)]
    <3>. HIDE DEF f
    <3>. QED BY <2>2 DEF Steps
  <2>4. cont' \in [Tasks -> Nodes \cup {None, Finished}]
    <3>. HIDE DEF f, p
    <3>. QED BY <2>1, <1>2 DEF Types
  <2>5. Types'
    <3>. HIDE DEF f, p
    <3>. QED BY <1>1, <2>1, <2>3, <2>4, TypesNext DEF ctlVars, histVars
  <2>. QED BY <1>1, <1>3, <2>1, <2>2, <2>5
<1>4. CASE cont[p] # next[f.cur]
  <2>1. See(t) /\ cont' = cont
    BY <1>4 DEF CompareExchange
  <2>2. /\ next' \in [Nodes -> Nodes \cup {None}]
        /\ \/ /\ cont[p] = Finished /\ next' = [next EXCEPT ![f.cur] = None]
              /\ \E g : Steps(t, g, "give", f.making, f.cur, None, f.exc)
           \/ /\ cont[p] # Finished /\ next' = [next EXCEPT ![f.cur] = cont[p]]
              /\ \E g : Steps(t, g, "cas", f.making, f.cur, None, f.exc)
    BY <1>1, <1>2, <2>1, SeeStep
  <2>3. stack' \in [Threads -> Seq(FrameSet)]
    <3>. HIDE DEF f, p
    <3>. QED BY <2>2 DEF Steps
  <2>5. Types'
    <3>. HIDE DEF f, p
    <3>. QED BY <1>1, <2>1, <2>2, <2>3, TypesNext DEF ctlVars, histVars
  <2>. QED BY <1>1, <1>4, <2>1, <2>2, <2>5
<1>. QED BY <1>3, <1>4

LEMMA GiveStep ==
  ASSUME TaskStateAssumption, Types, ShapeInv, NEW t \in Threads, Give(t)
  PROVE  LET f == Top(t) IN
         /\ Types'
         /\ \/ /\ More(f) /\ <<f.cur[1], f.cur[2] + 1>> \in Nodes
               /\ \E g : Steps(t, g, "attach", f.making, <<f.cur[1], f.cur[2] + 1>>, None, f.exc)
            \/ /\ ~More(f)
               /\ \E g : Steps(t, g, "user", None, None, None, None)
<1>. DEFINE f == Top(t)
<1>1. stack[t] # <<>> /\ f.pc = "give" /\ UNCHANGED <<stateVars, nodeVars, ctlVars, hold, histVars>>
      /\ queued' = queued \cup {f.cur} /\ Become(t, Linked(f)) /\ f.pc \in AddPcs
  BY DEF Give, At, AddPcs
<1>2. f.cur \in Nodes
  BY <1>1, AddTop DEF AddPcs, ArrivePcs
<1>3. \/ /\ More(f) /\ <<f.cur[1], f.cur[2] + 1>> \in Nodes
         /\ \E g : Steps(t, g, "attach", f.making, <<f.cur[1], f.cur[2] + 1>>, None, f.exc)
      \/ /\ ~More(f)
         /\ \E g : Steps(t, g, "user", None, None, None, None)
  BY <1>1, LinkedStep
<1>. HIDE DEF f
<1>4. stack' \in [Threads -> Seq(FrameSet)]
  BY <1>3 DEF Steps
<1>5. queued' \in SUBSET Nodes
  BY <1>1, <1>2 DEF Types
<1>6. Types'
  BY <1>1, <1>4, <1>5, TypesNext DEF stateVars, nodeVars, ctlVars, histVars
<1>. QED BY <1>3, <1>6 DEF f

LEMMA TakeStep ==
  ASSUME TaskStateAssumption, Types, ShapeInv, NEW t \in Threads, NEW n \in queued,
         Idle(t) \/ At(t, "help") \/ Blocked(t),
         queued' = queued \ {n},
         stack' = [stack EXCEPT ![t] =
           Append([i \in DOMAIN stack[t] |->
                     IF stack[t][i].pc = "help" THEN [stack[t][i] EXCEPT !.pc = "wait"]
                                                ELSE stack[t][i]],
                  Frame(n, IF Kind[n[1]] = "produce" THEN "user" ELSE "look"))],
         runs' = IF Kind[n[1]] = "produce" THEN [runs EXCEPT ![n[1]] = @ + 1] ELSE runs,
         UNCHANGED <<stateVars, nodeVars, ctlVars, hold, aborted>>
  PROVE  LET g == Frame(n, IF Kind[n[1]] = "produce" THEN "user" ELSE "look") IN
         Types' /\ Pushes(t, g) /\ ShapeInv' /\ g \in FrameSet /\ stack' \in [Threads -> Seq(FrameSet)]
<1>. DEFINE l == IF Kind[n[1]] = "produce" THEN "user" ELSE "look"
            g == Frame(n, l)
<1>1. n \in Nodes /\ n # None /\ n[1] \in Tasks
  BY Names, NodeTyped DEF Types
<1>2. g \in FrameSet /\ g.node = n /\ g.pc = l /\ g.making = None /\ g.nxt = None /\ g.exc = None
  <2>1. l \in PCs
    BY DEF PCs
  <2>. HIDE DEF l
  <2>. QED BY <1>1, <2>1, NewFrame
<1>3. Shape(t, g)
  <2>. HIDE DEF g
  <2>1. ShapeOwn(t, g)
    BY <1>1, <1>2 DEF ShapeOwn, Runner, UserPcs, AddPcs, ArrivePcs
  <2>2. Own(g) \in UserPcs => Kind[Runner(g)] # "all"
    BY <1>2 DEF Own, Runner, UserPcs
  <2>. QED BY <1>1, <1>2, <2>1, <2>2 DEF Shape
<1>4. Pushes(t, g) /\ stack' \in [Threads -> Seq(FrameSet)]
  <2>. HIDE DEF g
  <2>. QED BY <1>2, TakePushes DEF g
<1>5. ShapeInv'
  <2>. HIDE DEF g
  <2>. QED BY <1>1, <1>2, <1>3, <1>4, PushShape
<1>6. Types'
  BY <1>1, <1>4, TypesNext DEF Types, stateVars, nodeVars, ctlVars
<1>. QED BY <1>2, <1>4, <1>5, <1>6

LEMMA LookStep ==
  ASSUME TaskStateAssumption, Types, ShapeInv, NEW t \in Threads, Look(t)
  PROVE  LET f == Top(t)
             k == Subject(t)
             p == PredOf(Top(t).node)
             x == IF cont[p] = Finished THEN err[p] ELSE None IN
         /\ Types' /\ f.making = None /\ f.node \in Nodes /\ f.node[1] = k
         /\ p \in Tasks /\ x \in Tasks \cup {None, AllocError}
         /\ \/ /\ Kind[k] = "all" /\ runs' = runs
               /\ \E g : Steps(t, g, "release_pred", None, f.cur, None, x)
            \/ /\ Kind[k] = "then" /\ x # None /\ runs' = runs
               /\ \E g : Steps(t, g, "store", None, f.cur, None, x)
            \/ /\ Kind[k] = "then" /\ x = None /\ runs' = [runs EXCEPT ![k] = @ + 1]
               /\ \E g : Steps(t, g, "user", None, f.cur, None, f.exc)
<1>. DEFINE f == Top(t)  k == Subject(t)  p == PredOf(Top(t).node)
            x == IF cont[p] = Finished THEN err[p] ELSE None
<1>1. stack[t] # <<>> /\ f.pc = "look" /\ UNCHANGED <<stateVars, nodeVars, ctlVars, hold, queued, aborted>>
  BY DEF Look, At
<1>2. Shape(t, f) /\ f \in FrameSet
  BY <1>1, TopShape
<1>3. f.making = None
  BY <1>2, <1>1, TaskStateAssumption DEF Shape, ShapeMaking, MakerPcs, AddPcs, SettlePcs, LeavePcs, ArrivePcs, SettlerPcs
<1>4. f.node \in Nodes /\ f.node # None /\ k = f.node[1] /\ k \in Tasks /\ p \in Tasks /\ f.nxt = None
      /\ Kind[k] # "produce"
  BY <1>1, <1>3, NodeTop DEF Subject, UserPcs
<1>5. x \in Tasks \cup {None, AllocError}
  BY <1>4 DEF Types
<1>6. ASSUME NEW l \in {"release_pred", "store"}, NEW h, h = [f EXCEPT !.pc = l, !.exc = x], Become(t, h)
      PROVE  \E g : Steps(t, g, l, None, f.cur, None, x)
  <2>1. Is(h, f, l, None, f.cur, None, x)
    <3>1. l \in PCs
      BY DEF PCs
    <3>. HIDE DEF f, x
    <3>. QED BY <3>1, <1>2, <1>3, <1>4, <1>5, <1>6, FrameExc
  <2>2. Shape(t, h)
    <3>. HIDE DEF f, x
    <3>1. l \notin AddPcs \cup {"attach"} \cup UserPcs \cup ArrivePcs \cup {"look", "submit"}
      BY DEF AddPcs, UserPcs, ArrivePcs
    <3>. QED BY <2>1, <3>1, <1>2, <1>3, <1>4, PathShape
  <2>3. Steps(t, h, l, None, f.cur, None, x)
    <3>. HIDE DEF x
    <3>. QED BY <2>1, <2>2, <1>1, <1>6, StepOf
  <2>. QED BY <2>3
<1>7. ASSUME Kind[k] = "all"
      PROVE  runs' = runs /\ \E g : Steps(t, g, "release_pred", None, f.cur, None, x)
  BY <1>7, <1>6 DEF Look
<1>8. ASSUME Kind[k] = "then", x # None
      PROVE  runs' = runs /\ \E g : Steps(t, g, "store", None, f.cur, None, x)
  BY <1>8, <1>6 DEF Look
<1>9. ASSUME Kind[k] = "then", x = None
      PROVE  runs' = [runs EXCEPT ![k] = @ + 1] /\ \E g : Steps(t, g, "user", None, f.cur, None, f.exc)
  <2>1. runs' = [runs EXCEPT ![k] = @ + 1] /\ Goto(t, "user")
    BY <1>9 DEF Look
  <2>. DEFINE g == [f EXCEPT !.pc = "user"]
  <2>2. Is(g, f, "user", f.making, f.cur, f.nxt, f.exc)
    <3>. HIDE DEF f
    <3>. QED BY <1>2, FrameGoto DEF PCs
  <2>3. Shape(t, g)
    <3>1. f.exc = None
      BY <1>1, <1>2, <1>3 DEF Shape, ShapeOwn
    <3>. HIDE DEF f
    <3>2. g.node = f.node /\ g.making = None /\ g.pc = "user" /\ g.exc = None /\ g.nxt = None
      BY <2>2, <3>1, <1>3, <1>4 DEF Is
    <3>. HIDE DEF g
    <3>. QED BY <3>2, <1>4, <1>9 DEF Shape, ShapeOwn, Own, Runner, UserPcs, AddPcs, ArrivePcs
  <2>. QED BY <2>1, <2>3, <1>1, <1>3, <1>4, GotoStep DEF PCs
<1>10. Types'
  <2>1. Kind[k] \in {"produce", "then", "all"}
    BY <1>4 DEF TaskStateAssumption
  <2>2. (runs' = runs \/ runs' = [runs EXCEPT ![k] = @ + 1]) /\ stack' \in [Threads -> Seq(FrameSet)]
    <3>. HIDE DEF k, x
    <3>. QED BY <2>1, <1>4, <1>7, <1>8, <1>9 DEF Steps
  <2>3. runs' \in [Tasks -> Nat]
    <3>1. runs \in [Tasks -> Nat] /\ k \in Tasks
      BY <1>4 DEF Types
    <3>. HIDE DEF k
    <3>. QED BY <2>2, <3>1
  <2>. QED BY <2>2, <2>3, <1>1, TypesNext DEF stateVars, nodeVars, ctlVars
<1>. QED
  <2>1. Kind[k] \in {"produce", "then", "all"}
    BY <1>4 DEF TaskStateAssumption
  <2>2. \/ /\ Kind[k] = "all" /\ runs' = runs
           /\ \E g : Steps(t, g, "release_pred", None, f.cur, None, x)
        \/ /\ Kind[k] = "then" /\ x # None /\ runs' = runs
           /\ \E g : Steps(t, g, "store", None, f.cur, None, x)
        \/ /\ Kind[k] = "then" /\ x = None /\ runs' = [runs EXCEPT ![k] = @ + 1]
           /\ \E g : Steps(t, g, "user", None, f.cur, None, f.exc)
    <3>. HIDE DEF f, k, p, x
    <3>. QED BY <2>1, <1>4, <1>7, <1>8, <1>9
  <2>. QED BY <2>2, <1>3, <1>4, <1>5, <1>10

LEMMA ReturnStep ==
  ASSUME TaskStateAssumption, Types, ShapeInv, NEW t \in Threads, Return(t)
  PROVE  LET f == Top(t) IN
         /\ Types' /\ f.making = None /\ f.pc = "user" /\ stack[t] # <<>>
         /\ \/ f.node = None /\ Pops(t) /\ ShapeInv' /\ stack' \in [Threads -> Seq(FrameSet)]
            \/ /\ f.node # None /\ f.node \in Nodes /\ f.node = <<f.node[1], 1>> /\ Kind[f.node[1]] # "all"
               /\ \E g : Steps(t, g, "store", None, f.cur, None, Outcome(f.node[1]))
<1>. DEFINE f == Top(t)
<1>1. stack[t] # <<>> /\ f.pc = "user" /\ UNCHANGED <<stateVars, nodeVars, ctlVars, hold, queued, histVars>>
  BY DEF Return, At
<1>2. Shape(t, f) /\ f \in FrameSet
  BY <1>1, TopShape
<1>3. /\ f.making = None /\ f.nxt = None /\ f.exc = None
      /\ f.node # None => Kind[f.node[1]] # "all" /\ f.node \in Nodes /\ f.node = <<f.node[1], 1>>
  BY <1>1, UserTop DEF UserPcs
<1>4. ASSUME f.node = None
      PROVE  Pops(t) /\ ShapeInv' /\ stack' \in [Threads -> Seq(FrameSet)]
  <2>1. Pop(t)
    BY <1>4 DEF Return
  <2>. QED BY <2>1, <1>1, PopPops, PopShape
<1>5. ASSUME f.node # None
      PROVE  \E g : Steps(t, g, "store", None, f.cur, None, Outcome(f.node[1]))
  <2>. DEFINE e == Outcome(f.node[1])  h == [f EXCEPT !.pc = "store", !.exc = e]
  <2>1. Body(t) = f.node[1] /\ f.node[1] \in Tasks /\ e \in Tasks \cup {None, AllocError}
    BY <1>3, <1>5, NodeTyped DEF Body, BodyOf, Outcome
  <2>2. Become(t, h)
    BY <1>5, <2>1 DEF Return, Outcome
  <2>3. Is(h, f, "store", None, f.cur, None, e)
    <3>1. "store" \in PCs
      BY DEF PCs
    <3>. HIDE DEF f, e
    <3>. QED BY <3>1, <2>1, <1>2, <1>3, FrameExc
  <2>4. Shape(t, h)
    <3>. HIDE DEF f, e, h
    <3>1. "store" \notin AddPcs \cup {"attach"} \cup UserPcs \cup ArrivePcs \cup {"look", "submit"}
      BY DEF AddPcs, UserPcs, ArrivePcs
    <3>. QED BY <3>1, <2>3, <1>2, <1>3, <1>5, PathShape
  <2>5. Steps(t, h, "store", None, f.cur, None, e)
    <3>. HIDE DEF e, h
    <3>. QED BY <2>2, <2>3, <2>4, <1>1, StepOf
  <2>. QED BY <2>5
<1>6. Types'
  <2>1. stack' \in [Threads -> Seq(FrameSet)]
    <3>. HIDE DEF f
    <3>. QED BY <1>4, <1>5 DEF Steps
  <2>. QED BY <2>1, <1>1, TypesNext DEF stateVars, nodeVars, ctlVars, histVars
<1>. QED BY <1>1, <1>3, <1>4, <1>5, <1>6

\* The places of a frame that settles its task.
LEMMA SettleShape ==
  ASSUME TaskStateAssumption, Types, ShapeInv, NEW t \in Threads, stack[t] # <<>>,
         Top(t).pc \in SettlerPcs \cup ArrivePcs,
         NEW g, NEW l \in {"store", "exchange", "notify", "schedule"}, NEW c, NEW e,
         Is(g, Top(t), l, Top(t).making, c, None, e)
  PROVE  Shape(t, g)
<1>. DEFINE f == Top(t)
<1>1. Shape(t, f) /\ (f.making = None => f.node # None)
  BY TopShape, SettleTop
<1>2. f.making # None => Kind[f.making] = "all"
  BY SettleTop
<1>3. /\ l \notin AddPcs \cup {"attach"} \cup UserPcs \cup ArrivePcs \cup {"look", "release_pred", "submit"}
      /\ f.making # None => l \in MakerPcs(f.making)
  BY <1>2 DEF AddPcs, UserPcs, ArrivePcs, SettlePcs, LeavePcs, MakerPcs, SettlerPcs
<1>. HIDE DEF f
<1>. QED BY <1>1, <1>3, PathShape DEF f

LEMMA StoreExceptionStep ==
  ASSUME TaskStateAssumption, Types, ShapeInv, NEW t \in Threads, StoreException(t)
  PROVE  LET f == Top(t) IN
         /\ Types' /\ err' = [err EXCEPT ![Subject(t)] = f.exc]
         /\ \E g : Steps(t, g, "exchange", f.making, f.cur, None, f.exc)
<1>. DEFINE f == Top(t)  h == [f EXCEPT !.pc = "exchange"]
<1>1. stack[t] # <<>> /\ f.pc = "store" /\ UNCHANGED <<refs, cont, nodeVars, ctlVars, hold, queued, histVars>>
      /\ err' = [err EXCEPT ![Subject(t)] = f.exc] /\ Become(t, h) /\ Goto(t, "exchange")
  BY DEF StoreException, At, Goto
<1>2. Shape(t, f) /\ f \in FrameSet /\ f.exc \in Tasks \cup {None, AllocError}
  BY <1>1, TopShape, FrameTyped
<1>3. Subject(t) \in Tasks /\ f.nxt = None
  BY <1>1, SettleTop DEF SettlerPcs, SettlePcs
<1>4. Is(h, f, "exchange", f.making, f.cur, None, f.exc)
  <2>1. "exchange" \in PCs
    BY DEF PCs
  <2>. HIDE DEF f
  <2>. QED BY <2>1, <1>2, <1>3, FrameGoto
<1>5. Shape(t, h)
  <2>. HIDE DEF h
  <2>. QED BY <1>1, <1>4, SettleShape DEF SettlerPcs, SettlePcs
<1>6. Steps(t, h, "exchange", f.making, f.cur, None, f.exc)
  <2>. HIDE DEF h
  <2>. QED BY <1>1, <1>4, <1>5, StepOf
<1>7. Types'
  <2>1. stack' \in [Threads -> Seq(FrameSet)]
    BY <1>6 DEF Steps
  <2>2. err' \in [Tasks -> Tasks \cup {None, AllocError}]
    <3>. HIDE DEF f
    <3>. QED BY <1>1, <1>2, <1>3 DEF Types
  <2>. QED BY <2>1, <2>2, <1>1, TypesNext DEF nodeVars, ctlVars, histVars
<1>. QED BY <1>1, <1>6, <1>7

LEMMA ExchangeStep ==
  ASSUME TaskStateAssumption, Types, ShapeInv, NEW t \in Threads, Exchange(t)
  PROVE  LET f == Top(t)
             c == IF cont[Subject(t)] = Finished THEN None ELSE cont[Subject(t)] IN
         /\ Types' /\ cont' = [cont EXCEPT ![Subject(t)] = Finished]
         /\ \E g : Steps(t, g, "notify", f.making, c, None, f.exc)
<1>. DEFINE f == Top(t)  k == Subject(t)  c == IF cont[k] = Finished THEN None ELSE cont[k]
            h == [f EXCEPT !.pc = "notify", !.cur = c]
<1>1. /\ stack[t] # <<>> /\ f.pc = "exchange" /\ UNCHANGED <<refs, err, nodeVars, ctlVars, hold, queued, runs>>
      /\ cont' = [cont EXCEPT ![k] = Finished] /\ Become(t, h)
      /\ aborted' = (aborted \/ cont[k] = Finished)
  BY DEF Exchange, At
<1>2. Shape(t, f) /\ f \in FrameSet
  BY <1>1, TopShape
<1>3. k \in Tasks /\ f.nxt = None
  BY <1>1, SettleTop DEF SettlerPcs, SettlePcs
<1>4. c \in Nodes \cup {None}
  BY <1>3 DEF Types
<1>5. Is(h, f, "notify", f.making, c, None, f.exc)
  <2>1. "notify" \in PCs
    BY DEF PCs
  <2>. HIDE DEF f, c
  <2>. QED BY <2>1, <1>2, <1>3, <1>4, FrameCur
<1>6. Shape(t, h)
  <2>. HIDE DEF h, c
  <2>. QED BY <1>1, <1>5, SettleShape DEF SettlerPcs, SettlePcs
<1>7. Steps(t, h, "notify", f.making, c, None, f.exc)
  <2>. HIDE DEF h, c
  <2>. QED BY <1>1, <1>5, <1>6, StepOf
<1>8. Types'
  <2>1. stack' \in [Threads -> Seq(FrameSet)]
    BY <1>7 DEF Steps
  <2>2. cont' \in [Tasks -> Nodes \cup {None, Finished}]
    <3>. HIDE DEF k
    <3>. QED BY <1>1, <1>3 DEF Types
  <2>3. aborted' \in BOOLEAN
    BY <1>1, Zenon DEF Types
  <2>. QED BY <2>1, <2>2, <2>3, <1>1, TypesNext DEF nodeVars, ctlVars
<1>. QED BY <1>1, <1>7, <1>8

LEMMA NotifyStep ==
  ASSUME TaskStateAssumption, Types, ShapeInv, NEW t \in Threads, Notify(t)
  PROVE  LET f == Top(t) IN
         Types' /\ \E g : Steps(t, g, "schedule", f.making, f.cur, None, f.exc)
<1>. DEFINE f == Top(t)  h == [f EXCEPT !.pc = "schedule"]
<1>1. stack[t] # <<>> /\ f.pc = "notify" /\ UNCHANGED <<stateVars, nodeVars, ctlVars, hold, queued, histVars>>
  BY DEF Notify, At
<1>2. Shape(t, f) /\ f \in FrameSet
  BY <1>1, TopShape
<1>3. Subject(t) \in Tasks /\ f.nxt = None
  BY <1>1, SettleTop DEF SettlerPcs, LeavePcs
<1>4. Is(h, f, "schedule", f.making, f.cur, None, f.exc)
  <2>1. "schedule" \in PCs
    BY DEF PCs
  <2>. HIDE DEF f
  <2>. QED BY <2>1, <1>2, <1>3, FrameGoto
<1>5. Shape(t, h)
  <2>. HIDE DEF h
  <2>. QED BY <1>1, <1>4, SettleShape DEF SettlerPcs, LeavePcs
<1>6. Moves(t, h) /\ stack' \in [Threads -> Seq(FrameSet)]
  BY NotifyMoves
<1>7. ShapeInv'
  <2>1. h \in FrameSet /\ h.node = Top(t).node
    <3>. HIDE DEF h
    <3>. QED BY <1>4 DEF Is
  <2>. HIDE DEF h
  <2>. QED BY <1>1, <1>5, <1>6, <2>1, MoveShape
<1>8. Steps(t, h, "schedule", f.making, f.cur, None, f.exc)
  <2>. HIDE DEF h
  <2>. QED BY <1>1, <1>4, <1>6, <1>7 DEF Steps
<1>9. Types'
  BY <1>6, <1>1, TypesNext DEF stateVars, nodeVars, ctlVars, histVars
<1>. QED BY <1>8, <1>9

LEMMA ScheduleStep ==
  ASSUME TaskStateAssumption, Types, ShapeInv, NEW t \in Threads, Schedule(t)
  PROVE  LET f == Top(t)
             k == Subject(t) IN
         /\ Types'
         /\ \/ /\ f.cur # None /\ f.cur \in Nodes /\ next' = [next EXCEPT ![f.cur] = None]
               /\ \E g : Steps(t, g, "submit", f.making, f.cur, next[f.cur], f.exc)
            \/ /\ f.cur = None /\ next' = next /\ Pred[k] = <<>> /\ f.making = k
               /\ \E g : Steps(t, g, "user", None, None, None, None)
            \/ /\ f.cur = None /\ next' = next /\ Kind[k] = "then" /\ f.making = None
               /\ \E g : Steps(t, g, "release_pred", None, None, None, f.exc)
            \/ /\ f.cur = None /\ next' = next /\ Kind[k] # "then"
               /\ f.making # None => f.making = k /\ Kind[k] = "all" /\ Pred[k] # <<>>
               /\ \E g : Steps(t, g, "release_result", f.making, None, None, f.exc)
<1>. DEFINE f == Top(t)  k == Subject(t)
<1>1. stack[t] # <<>> /\ f.pc = "schedule" /\ UNCHANGED <<stateVars, nodes, ctlVars, hold, queued, histVars>>
  BY DEF Schedule, At
<1>2. Shape(t, f) /\ f \in FrameSet /\ f.cur \in Nodes \cup {None}
  BY <1>1, TopShape, FrameTyped
<1>3. /\ k \in Tasks /\ f.nxt = None
      /\ f.making = None => f.node \in Nodes /\ f.node # None /\ k = f.node[1]
      /\ f.making # None => f.making = k /\ Kind[k] = "all"
  BY <1>1, SettleTop DEF SettlerPcs, LeavePcs
<1>4. k # None /\ k = SubjectOf(f)
  BY <1>3, Names DEF Subject
<1>5. ASSUME f.cur # None
      PROVE  /\ f.cur \in Nodes /\ next' = [next EXCEPT ![f.cur] = None]
             /\ \E g : Steps(t, g, "submit", f.making, f.cur, next[f.cur], f.exc)
  <2>. DEFINE h == [f EXCEPT !.pc = "submit", !.nxt = next[f.cur]]
  <2>1. f.cur \in Nodes /\ next[f.cur] \in Nodes \cup {None}
    BY <1>2, <1>5 DEF Types
  <2>. USE <1>5
  <2>2. Become(t, h) /\ next' = [next EXCEPT ![f.cur] = None]
    BY <1>5 DEF Schedule
  <2>3. Is(h, f, "submit", f.making, f.cur, next[f.cur], f.exc)
    <3>1. "submit" \in PCs
      BY DEF PCs
    <3>. HIDE DEF f
    <3>. QED BY <3>1, <2>1, <1>2, FrameNxt
  <2>4. Shape(t, h)
    <3>1. /\ "submit" \notin AddPcs \cup {"attach"} \cup UserPcs \cup ArrivePcs \cup {"look", "release_pred"}
          /\ f.making # None => "submit" \in MakerPcs(f.making)
      BY <1>3 DEF AddPcs, UserPcs, ArrivePcs, LeavePcs, MakerPcs, SettlerPcs
    <3>. HIDE DEF f, h
    <3>. QED BY <3>1, <1>2, <1>3, <1>5, <2>3, PathShape
  <2>5. Steps(t, h, "submit", f.making, f.cur, next[f.cur], f.exc)
    <3>. HIDE DEF h
    <3>. QED BY <1>1, <2>2, <2>3, <2>4, StepOf
  <2>. QED BY <2>1, <2>2, <2>5
<1>6. ASSUME f.cur = None
      PROVE  /\ next' = next
             /\ Become(t, IF Pred[k] = <<>> /\ f.making = k THEN Returned(f)
                       ELSE IF Kind[k] = "then" THEN [f EXCEPT !.pc = "release_pred"]
                       ELSE [f EXCEPT !.pc = "release_result"])
  BY <1>6 DEF Schedule
<1>7. ASSUME f.cur = None, Pred[k] = <<>>, f.making = k
      PROVE  \E g : Steps(t, g, "user", None, None, None, None)
  <2>. DEFINE h == Returned(f)
  <2>1. Become(t, h)
    BY <1>6, <1>7
  <2>2. Is(h, f, "user", None, None, None, None)
    <3>. HIDE DEF f
    <3>. QED BY <1>2, <1>3, FrameReturned
  <2>3. Shape(t, h)
    <3>1. Own(f) \in UserPcs
      BY <1>4, <1>7 DEF Own, UserPcs
    <3>. HIDE DEF f
    <3>. QED BY <3>1, <1>2, <1>3, ReturnedShape
  <2>4. Steps(t, h, "user", None, None, None, None)
    <3>. HIDE DEF h
    <3>. QED BY <1>1, <2>1, <2>2, <2>3, StepOf
  <2>. QED BY <2>4
<1>8. ASSUME f.cur = None, ~(Pred[k] = <<>> /\ f.making = k), Kind[k] = "then"
      PROVE  f.making = None /\ \E g : Steps(t, g, "release_pred", None, None, None, f.exc)
  BY <1>6, <1>8, <1>3, <1>1, GoOn DEF Goto, PCs, UserPcs, AddPcs, ArrivePcs
<1>9. ASSUME f.cur = None, ~(Pred[k] = <<>> /\ f.making = k), Kind[k] # "then"
      PROVE  /\ f.making # None => f.making = k /\ Kind[k] = "all" /\ Pred[k] # <<>>
             /\ \E g : Steps(t, g, "release_result", f.making, None, None, f.exc)
  BY <1>6, <1>9, <1>3, <1>1, GoOn DEF Goto, PCs, MakerPcs, SettlerPcs, UserPcs, AddPcs, ArrivePcs
<1>10. \/ /\ f.cur # None /\ f.cur \in Nodes /\ next' = [next EXCEPT ![f.cur] = None]
          /\ \E g : Steps(t, g, "submit", f.making, f.cur, next[f.cur], f.exc)
       \/ /\ f.cur = None /\ next' = next /\ Pred[k] = <<>> /\ f.making = k
          /\ \E g : Steps(t, g, "user", None, None, None, None)
       \/ /\ f.cur = None /\ next' = next /\ Kind[k] = "then" /\ f.making = None
          /\ \E g : Steps(t, g, "release_pred", None, None, None, f.exc)
       \/ /\ f.cur = None /\ next' = next /\ Kind[k] # "then"
          /\ f.making # None => f.making = k /\ Kind[k] = "all" /\ Pred[k] # <<>>
          /\ \E g : Steps(t, g, "release_result", f.making, None, None, f.exc)
  <2>. HIDE DEF f, k
  <2>. QED BY <1>5, <1>6, <1>7, <1>8, <1>9
<1>11. Types'
  <2>1. stack' \in [Threads -> Seq(FrameSet)]
    <3>. HIDE DEF f, k
    <3>. QED BY <1>10 DEF Steps
  <2>2. next' = next \/ next' \in [Nodes -> Nodes \cup {None}]
    <3>. HIDE DEF f, k
    <3>. QED BY <1>10 DEF Types
  <2>. QED BY <2>1, <2>2, <1>1, TypesNext DEF stateVars, ctlVars, histVars
<1>. QED BY <1>10, <1>11

LEMMA SubmitStep ==
  ASSUME TaskStateAssumption, Types, ShapeInv, NEW t \in Threads, Submit(t)
  PROVE  LET f == Top(t) IN
         /\ Types' /\ f.cur \in Nodes
         /\ \E g : Steps(t, g, "schedule", f.making, f.nxt, None, f.exc)
<1>. DEFINE f == Top(t)  h == [f EXCEPT !.pc = "schedule", !.cur = f.nxt, !.nxt = None]
<1>1. stack[t] # <<>> /\ f.pc = "submit" /\ UNCHANGED <<stateVars, nodeVars, ctlVars, hold, histVars>>
      /\ Become(t, h)
  BY DEF Submit, At
<1>2. Shape(t, f) /\ f \in FrameSet
  BY <1>1, TopShape
<1>3. Is(h, f, "schedule", f.making, f.nxt, None, f.exc)
  <2>. HIDE DEF f
  <2>. QED BY <1>2, FrameSubmitted
<1>4. Shape(t, h)
  <2>. HIDE DEF h
  <2>. QED BY <1>1, <1>3, SettleShape DEF SettlerPcs, LeavePcs
<1>5. Steps(t, h, "schedule", f.making, f.nxt, None, f.exc)
  <2>. HIDE DEF h
  <2>. QED BY <1>1, <1>3, <1>4, StepOf
<1>6. f.cur \in Nodes
  BY <1>1, <1>2, FrameTyped DEF Shape
<1>7. Types'
  <2>1. stack' \in [Threads -> Seq(FrameSet)]
    BY <1>5 DEF Steps
  <2>2. queued' = queued \cup {f.cur}
    BY DEF Submit
  <2>3. queued' \in SUBSET Nodes
    BY <2>2, <1>6 DEF Types
  <2>. QED BY <1>1, <2>1, <2>3, TypesNext DEF stateVars, nodeVars, ctlVars, histVars
<1>. QED BY <1>5, <1>6, <1>7

LEMMA ReleasePredStep ==
  ASSUME TaskStateAssumption, Types, ShapeInv, NEW t \in Threads, ReleasePred(t)
  PROVE  LET f == Top(t) IN
         /\ Types' /\ stack[t] # <<>> /\ f.pc = "release_pred"
         /\ f.making = None /\ f.node \in Nodes /\ f.node # None /\ PredOf(f.node) \in Tasks
         /\ refs' = [refs EXCEPT ![PredOf(f.node)] = @ - 1]
         /\ \/ Kind[f.node[1]] = "then" /\ \E g : Steps(t, g, "release_result", None, f.cur, None, f.exc)
            \/ Kind[f.node[1]] = "all" /\ f.exc # None /\ \E g : Steps(t, g, "claim", None, f.cur, None, f.exc)
            \/ Kind[f.node[1]] = "all" /\ f.exc = None /\ \E g : Steps(t, g, "arrive", None, f.cur, None, f.exc)
<1>. DEFINE f == Top(t)  k == Subject(t)
<1>1. stack[t] # <<>> /\ f.pc = "release_pred" /\ UNCHANGED <<cont, err, nodeVars, ctlVars, hold, queued, histVars>>
      /\ refs' = [refs EXCEPT ![PredOf(f.node)] = @ - 1]
      /\ Goto(t, IF Kind[k] = "then" THEN "release_result" ELSE IF f.exc # None THEN "claim" ELSE "arrive")
  BY DEF ReleasePred, At, Release
<1>2. Shape(t, f) /\ f \in FrameSet
  BY <1>1, TopShape
<1>3. f.making = None
  BY <1>1, <1>2 DEF Shape, ShapeMaking, MakerPcs, AddPcs, SettlePcs, LeavePcs, ArrivePcs, SettlerPcs
<1>4. /\ f.node \in Nodes /\ f.node # None /\ f.node[1] \in Tasks /\ k = f.node[1]
      /\ Kind[k] # "produce" /\ PredOf(f.node) \in Tasks /\ f.nxt = None
  BY <1>1, <1>3, NodeTop DEF UserPcs, Subject
<1>5. Kind[k] \in {"then", "all"}
  BY <1>4 DEF TaskStateAssumption
<1>6. ASSUME NEW l \in {"release_result", "claim", "arrive"}, Goto(t, l), l # "release_result" => Kind[k] = "all"
      PROVE  \E g : Steps(t, g, l, None, f.cur, None, f.exc)
  BY <1>1, <1>3, <1>4, <1>6, GoOn DEF PCs, UserPcs, AddPcs, ArrivePcs
<1>7. \/ Kind[k] = "then" /\ \E g : Steps(t, g, "release_result", None, f.cur, None, f.exc)
      \/ Kind[k] = "all" /\ f.exc # None /\ \E g : Steps(t, g, "claim", None, f.cur, None, f.exc)
      \/ Kind[k] = "all" /\ f.exc = None /\ \E g : Steps(t, g, "arrive", None, f.cur, None, f.exc)
  BY <1>1, <1>6, <1>5
<1>8. Types'
  <2>1. stack' \in [Threads -> Seq(FrameSet)]
    <3>. HIDE DEF f, k
    <3>. QED BY <1>7 DEF Steps
  <2>2. refs' \in [Tasks -> Int]
    <3>. HIDE DEF f
    <3>. QED BY <1>1, <1>4 DEF Types
  <2>. QED BY <2>1, <2>2, <1>1, TypesNext DEF nodeVars, ctlVars, histVars
<1>. QED BY <1>1, <1>3, <1>4, <1>7, <1>8

\* A frame that is done with its node, or with a call.
LEMMA FreeStep ==
  ASSUME TaskStateAssumption, Types, ShapeInv, NEW t \in Threads, stack[t] # <<>>,
         Top(t).pc \in {"release_result"} \cup ArrivePcs, FreeNode(t)
  PROVE  LET f == Top(t) IN
         /\ nodes' \in SUBSET Nodes /\ IsFiniteSet(nodes') /\ stack' \in [Threads -> Seq(FrameSet)]
         /\ \/ /\ f.making = None /\ nodes' = nodes \ {f.node} /\ Pops(t) /\ ShapeInv'
            \/ /\ f.making # None /\ nodes' = nodes /\ \E g : Steps(t, g, "user", None, None, None, None)
<1>. DEFINE f == Top(t)
<1>1. Shape(t, f) /\ f \in FrameSet
  BY TopShape
<1>2. f.nxt = None
  BY SettleTop DEF SettlerPcs, ArrivePcs
<1>3. nodes \in SUBSET Nodes /\ IsFiniteSet(nodes)
  BY DEF Types
<1>4. CASE f.making = None
  BY <1>4, PopPops, PopShape, <1>3, FS_Subset DEF FreeNode
<1>5. CASE f.making # None
  <2>. DEFINE h == Returned(f)
  <2>1. nodes' = nodes /\ Become(t, h)
    BY <1>5 DEF FreeNode
  <2>2. Is(h, f, "user", None, None, None, None)
    <3>. HIDE DEF f
    <3>. QED BY <1>1, <1>2, FrameReturned
  <2>3. Shape(t, h)
    <3>1. Own(f) \in UserPcs
      BY <1>5 DEF Own, UserPcs
    <3>. HIDE DEF f
    <3>. QED BY <3>1, <1>1, <1>2, ReturnedShape
  <2>4. Steps(t, h, "user", None, None, None, None)
    <3>. HIDE DEF h
    <3>. QED BY <2>1, <2>2, <2>3, StepOf
  <2>5. stack' \in [Threads -> Seq(FrameSet)]
    BY <2>4 DEF Steps
  <2>. QED BY <1>3, <1>5, <2>1, <2>4, <2>5
<1>. QED BY <1>4, <1>5

LEMMA ReleaseResultStep ==
  ASSUME TaskStateAssumption, Types, ShapeInv, NEW t \in Threads, ReleaseResult(t)
  PROVE  LET f == Top(t) IN
         /\ Types' /\ refs' = [refs EXCEPT ![Subject(t)] = @ - 1]
         /\ \/ /\ f.making = None /\ nodes' = nodes \ {f.node} /\ Pops(t) /\ ShapeInv'
               /\ stack' \in [Threads -> Seq(FrameSet)]
            \/ /\ f.making # None /\ nodes' = nodes /\ \E g : Steps(t, g, "user", None, None, None, None)
<1>. DEFINE f == Top(t)  k == Subject(t)
<1>1. stack[t] # <<>> /\ f.pc = "release_result" /\ UNCHANGED <<cont, err, next, ctlVars, hold, queued, histVars>>
      /\ refs' = [refs EXCEPT ![k] = @ - 1] /\ FreeNode(t)
  BY DEF ReleaseResult, At, Release
<1>2. /\ nodes' \in SUBSET Nodes /\ IsFiniteSet(nodes') /\ stack' \in [Threads -> Seq(FrameSet)]
      /\ \/ /\ f.making = None /\ nodes' = nodes \ {f.node} /\ Pops(t) /\ ShapeInv'
         \/ /\ f.making # None /\ nodes' = nodes /\ \E g : Steps(t, g, "user", None, None, None, None)
  BY <1>1, FreeStep
<1>3. k \in Tasks
  BY <1>1, SettleTop DEF SettlerPcs
<1>4. Types'
  <2>. HIDE DEF f, k
  <2>1. refs' \in [Tasks -> Int]
    BY <1>1, <1>3 DEF Types
  <2>. QED BY <2>1, <1>1, <1>2, TypesNext DEF ctlVars, histVars
<1>. QED BY <1>1, <1>2, <1>4

\* The places of a frame that arrives at its when_all.
LEMMA ArriveTop ==
  ASSUME TaskStateAssumption, Types, ShapeInv, NEW t \in Threads, stack[t] # <<>>,
         Top(t).pc \in ArrivePcs
  PROVE  LET f == Top(t)
             k == Subject(t) IN
         /\ Shape(t, f) /\ f \in FrameSet /\ f.nxt = None /\ k \in Tasks /\ Kind[k] = "all" /\ k = SubjectOf(f)
         /\ f.making = None => f.node \in Nodes /\ f.node # None /\ k = f.node[1]
         /\ f.making # None => /\ k = f.making /\ Pred[k] # <<>> /\ f.cur \in Nodes /\ f.cur[1] = k
                               /\ f.exc = AllocError /\ k \in MayFail
                               /\ ArrivePcs \cup SettlePcs \subseteq MakerPcs(k)
<1>. DEFINE f == Top(t)  k == Subject(t)
<1>1. Shape(t, f) /\ f \in FrameSet
  BY TopShape
<1>2. /\ k \in Tasks /\ f.nxt = None /\ Kind[k] = "all" /\ k = SubjectOf(f)
      /\ f.making = None => f.node \in Nodes /\ f.node # None /\ k = f.node[1]
      /\ f.making # None => k = f.making /\ Pred[k] # <<>>
  BY SettleTop DEF ArrivePcs
<1>3. f.making # None => f.exc = AllocError /\ f.making \in MayFail /\ f.cur \in Nodes /\ f.cur[1] = f.making
  BY <1>1 DEF Shape, ShapeMaking
<1>4. f.making # None => ArrivePcs \cup SettlePcs \subseteq MakerPcs(k)
  BY <1>2 DEF MakerPcs, SettlerPcs
<1>. HIDE DEF f, k
<1>. QED BY <1>1, <1>2, <1>3, <1>4 DEF f, k

LEMMA ClaimStep ==
  ASSUME TaskStateAssumption, Types, ShapeInv, NEW t \in Threads, Claim(t)
  PROVE  LET f == Top(t)
             k == Subject(t) IN
         /\ Types' /\ claimed' = [claimed EXCEPT ![k] = TRUE]
         /\ \/ claimed[k] /\ \E g : Steps(t, g, "arrive", f.making, f.cur, None, f.exc)
            \/ ~claimed[k] /\ \E g : Steps(t, g, "write", f.making, f.cur, None, f.exc)
<1>. DEFINE f == Top(t)  k == Subject(t)
<1>1. stack[t] # <<>> /\ f.pc = "claim" /\ UNCHANGED <<stateVars, nodeVars, remaining, ctlErr, hold, queued, histVars>>
      /\ claimed' = [claimed EXCEPT ![k] = TRUE] /\ Goto(t, IF claimed[k] THEN "arrive" ELSE "write")
  BY DEF Claim, At
<1>2. f.pc \in ArrivePcs
  BY <1>1 DEF ArrivePcs
<1>3. ASSUME NEW l \in {"arrive", "write"}, Goto(t, l)
      PROVE  \E g : Steps(t, g, l, f.making, f.cur, None, f.exc)
  BY <1>1, <1>2, <1>3, ArriveTop, GoOn DEF PCs, UserPcs, AddPcs, ArrivePcs
<1>4. \/ claimed[k] /\ \E g : Steps(t, g, "arrive", f.making, f.cur, None, f.exc)
      \/ ~claimed[k] /\ \E g : Steps(t, g, "write", f.making, f.cur, None, f.exc)
  BY <1>1, <1>3
<1>5. Types'
  <2>1. stack' \in [Threads -> Seq(FrameSet)]
    <3>. HIDE DEF f, k
    <3>. QED BY <1>4 DEF Steps
  <2>2. claimed' \in [Tasks -> BOOLEAN]
    <3>. HIDE DEF f, k
    <3>. QED BY <1>1 DEF Types
  <2>. QED BY <2>1, <2>2, <1>1, TypesNext DEF stateVars, nodeVars, histVars
<1>. QED BY <1>1, <1>4, <1>5

LEMMA WriteExceptionStep ==
  ASSUME TaskStateAssumption, Types, ShapeInv, NEW t \in Threads, WriteException(t)
  PROVE  LET f == Top(t)
             k == Subject(t) IN
         /\ Types' /\ ctlErr' = [ctlErr EXCEPT ![k] = f.exc]
         /\ \E g : Steps(t, g, "arrive", f.making, f.cur, None, f.exc)
<1>. DEFINE f == Top(t)  k == Subject(t)
<1>1. stack[t] # <<>> /\ f.pc = "write" /\ UNCHANGED <<stateVars, nodeVars, remaining, claimed, hold, queued, histVars>>
      /\ ctlErr' = [ctlErr EXCEPT ![k] = f.exc] /\ Goto(t, "arrive")
  BY DEF WriteException, At
<1>2. f.pc \in ArrivePcs
  BY <1>1 DEF ArrivePcs
<1>3. \E g : Steps(t, g, "arrive", f.making, f.cur, None, f.exc)
  <2>. DEFINE l == "arrive"
  <2>1. l \in PCs /\ l \notin UserPcs \cup {"look", "submit"} /\ l \notin AddPcs \cup {"attach"} /\ l # "release_pred"
        /\ l \in ArrivePcs
    BY DEF PCs, UserPcs, AddPcs, ArrivePcs
  <2>. QED BY <1>1, <1>2, <2>1, ArriveTop, GoOn
<1>4. Types'
  <2>1. stack' \in [Threads -> Seq(FrameSet)]
    <3>. HIDE DEF f, k
    <3>. QED BY <1>3 DEF Steps
  <2>2. ctlErr' \in [Tasks -> Tasks \cup {None, AllocError}]
    <3>1. f.exc \in Tasks \cup {None, AllocError}
      BY <1>1, TopShape, FrameTyped
    <3>. HIDE DEF f, k
    <3>. QED BY <3>1, <1>1 DEF Types
  <2>. QED BY <2>1, <2>2, <1>1, TypesNext DEF stateVars, nodeVars, histVars
<1>. QED BY <1>1, <1>3, <1>4

LEMMA ArriveStep ==
  ASSUME TaskStateAssumption, Types, ShapeInv, NEW t \in Threads, Arrive(t)
  PROVE  LET f == Top(t)
             k == Subject(t) IN
         /\ Types' /\ remaining' = [remaining EXCEPT ![k] = @ - 1]
         /\ \/ /\ remaining[k] = 1 /\ nodes' = nodes
               /\ \E g : Steps(t, g, "store", f.making, f.cur, None, ctlErr[k])
            \/ /\ remaining[k] # 1 /\ More(f) /\ nodes' = nodes
               /\ f.making # None /\ <<f.cur[1], f.cur[2] + 1>> \in Nodes
               /\ \E g : Steps(t, g, "claim", f.making, <<f.cur[1], f.cur[2] + 1>>, None, f.exc)
            \/ /\ remaining[k] # 1 /\ f.making = None /\ nodes' = nodes \ {f.node} /\ Pops(t) /\ ShapeInv'
               /\ stack' \in [Threads -> Seq(FrameSet)]
            \/ /\ remaining[k] # 1 /\ ~More(f) /\ f.making # None /\ nodes' = nodes
               /\ \E g : Steps(t, g, "user", None, None, None, None)
<1>. DEFINE f == Top(t)  k == Subject(t)
<1>1. stack[t] # <<>> /\ f.pc = "arrive" /\ UNCHANGED <<stateVars, next, claimed, ctlErr, hold, queued, histVars>>
      /\ remaining' = [remaining EXCEPT ![k] = @ - 1] /\ f.pc \in ArrivePcs
  BY DEF Arrive, At, ArrivePcs
<1>2. /\ Shape(t, f) /\ f \in FrameSet /\ f.nxt = None /\ k \in Tasks /\ Kind[k] = "all"
      /\ f.making = None => f.node \in Nodes /\ f.node # None /\ k = f.node[1]
      /\ f.making # None => /\ k = f.making /\ Pred[k] # <<>> /\ f.cur \in Nodes /\ f.cur[1] = k
                            /\ f.exc = AllocError /\ k \in MayFail
                            /\ ArrivePcs \cup SettlePcs \subseteq MakerPcs(k)
  BY <1>1, ArriveTop
<1>3. ASSUME remaining[k] = 1
      PROVE  nodes' = nodes /\ \E g : Steps(t, g, "store", f.making, f.cur, None, ctlErr[k])
  <2>. DEFINE e == ctlErr[k]  h == [f EXCEPT !.pc = "store", !.exc = e]
  <2>1. nodes' = nodes /\ Become(t, h)
    BY <1>3 DEF Arrive
  <2>2. Is(h, f, "store", f.making, f.cur, None, e)
    <3>1. e \in Tasks \cup {None, AllocError} /\ "store" \in PCs
      BY <1>2 DEF Types, PCs
    <3>. HIDE DEF f, e
    <3>. QED BY <3>1, <1>2, FrameExc
  <2>3. Shape(t, h)
    <3>. HIDE DEF h, e
    <3>. QED BY <2>2, <1>1, SettleShape
  <2>4. Steps(t, h, "store", f.making, f.cur, None, e)
    <3>. HIDE DEF h, e
    <3>. QED BY <2>1, <2>2, <2>3, <1>1, StepOf
  <2>. QED BY <2>1, <2>4
<1>4. ASSUME remaining[k] # 1, More(f)
      PROVE  /\ nodes' = nodes /\ f.making # None /\ <<f.cur[1], f.cur[2] + 1>> \in Nodes
             /\ \E g : Steps(t, g, "claim", f.making, <<f.cur[1], f.cur[2] + 1>>, None, f.exc)
  <2>. DEFINE c == <<f.cur[1], f.cur[2] + 1>>  h == [f EXCEPT !.pc = "claim", !.cur = c]
  <2>1. nodes' = nodes /\ Become(t, h) /\ f.making # None
    BY <1>4 DEF Arrive, More, FreeNode
  <2>2. c \in Nodes /\ c[1] = f.making
    <3>1. c[1] = f.making
      BY <1>2, <2>1
    <3>2. c \in Nodes
      <4>. HIDE DEF f
      <4>. QED BY <1>2, <1>4, <2>1, NextNode
    <3>. QED BY <3>1, <3>2
  <2>3. Is(h, f, "claim", f.making, c, None, f.exc)
    <3>1. "claim" \in PCs
      BY DEF PCs
    <3>. HIDE DEF f, c
    <3>. QED BY <3>1, <2>2, <1>2, FrameCur
  <2>4. Shape(t, h)
    <3>1. "claim" \notin UserPcs \cup {"look"} /\ "claim" \in MakerPcs(f.making)
      BY <1>2, <2>1 DEF UserPcs, ArrivePcs
    <3>. HIDE DEF f, h, c
    <3>. QED BY <3>1, <2>1, <2>2, <2>3, <1>2, PathShape
  <2>5. Steps(t, h, "claim", f.making, c, None, f.exc)
    <3>. HIDE DEF h, c
    <3>. QED BY <2>1, <2>3, <2>4, <1>1, StepOf
  <2>. QED BY <2>1, <2>2, <2>5
<1>5. ASSUME remaining[k] # 1, ~More(f)
      PROVE  /\ nodes' \in SUBSET Nodes /\ IsFiniteSet(nodes') /\ stack' \in [Threads -> Seq(FrameSet)]
             /\ \/ /\ f.making = None /\ nodes' = nodes \ {f.node} /\ Pops(t) /\ ShapeInv'
                \/ /\ f.making # None /\ nodes' = nodes /\ \E g : Steps(t, g, "user", None, None, None, None)
  <2>1. FreeNode(t)
    BY <1>5 DEF Arrive
  <2>. QED BY <2>1, <1>1, FreeStep
<1>6. Types'
  <2>1. stack' \in [Threads -> Seq(FrameSet)] /\ (nodes' = nodes \/ (nodes' \in SUBSET Nodes /\ IsFiniteSet(nodes')))
    <3>. HIDE DEF f, k
    <3>. QED BY <1>3, <1>4, <1>5 DEF Steps
  <2>2. remaining' \in [Tasks -> Int]
    <3>1. remaining \in [Tasks -> Int] /\ k \in Tasks
      BY <1>2 DEF Types
    <3>. HIDE DEF f, k
    <3>. QED BY <3>1, <1>1
  <2>. QED BY <2>1, <2>2, <1>1, TypesNext DEF stateVars, histVars
<1>7. \/ /\ remaining[k] = 1 /\ nodes' = nodes
         /\ \E g : Steps(t, g, "store", f.making, f.cur, None, ctlErr[k])
      \/ /\ remaining[k] # 1 /\ More(f) /\ nodes' = nodes
         /\ f.making # None /\ <<f.cur[1], f.cur[2] + 1>> \in Nodes
         /\ \E g : Steps(t, g, "claim", f.making, <<f.cur[1], f.cur[2] + 1>>, None, f.exc)
      \/ /\ remaining[k] # 1 /\ f.making = None /\ nodes' = nodes \ {f.node} /\ Pops(t) /\ ShapeInv'
         /\ stack' \in [Threads -> Seq(FrameSet)]
      \/ /\ remaining[k] # 1 /\ ~More(f) /\ f.making # None /\ nodes' = nodes
         /\ \E g : Steps(t, g, "user", None, None, None, None)
  <2>. HIDE DEF f, k
  <2>. QED BY <1>3, <1>4, <1>5
<1>. QED BY <1>1, <1>6, <1>7

\* A call that returns, or goes on waiting.
LEMMA WaitingStep ==
  ASSUME TaskStateAssumption, Types, ShapeInv, NEW t \in Threads, stack[t] # <<>>,
         Top(t).pc \in UserPcs
  PROVE  LET f == Top(t) IN
         /\ Become(t, Returned(f)) => \E g : Steps(t, g, "user", None, None, None, None)
         /\ \A l \in {"wait", "help"} :
              InCall(t, f, {"wait"}) /\ Goto(t, l) => \E g : Steps(t, g, l, None, f.cur, None, None)
         /\ \A l \in {"block", "parked"} :
              InCall(t, f, {"block"}) /\ Goto(t, l) => \E g : Steps(t, g, l, None, f.cur, None, None)
         /\ \A c \in Nodes \cup {None} :
              InCall(t, f, {"block"}) /\ Become(t, [f EXCEPT !.pc = "compare", !.cur = c])
                => \E g : Steps(t, g, "compare", None, c, None, None)
<1>. DEFINE f == Top(t)
<1>1. Shape(t, f) /\ f \in FrameSet
  BY TopShape
<1>2. f.making = None /\ f.nxt = None /\ f.exc = None
  BY UserTop
<1>3. Own(f) \in UserPcs
  BY <1>2 DEF Own
<1>4. ASSUME Become(t, Returned(f)) PROVE \E g : Steps(t, g, "user", None, None, None, None)
  <2>. DEFINE h == Returned(f)
  <2>1. Is(h, f, "user", None, None, None, None) /\ Shape(t, h)
    <3>. HIDE DEF f
    <3>. QED BY <1>1, <1>2, <1>3, FrameReturned, ReturnedShape
  <2>2. Steps(t, h, "user", None, None, None, None)
    <3>. HIDE DEF h
    <3>. QED BY <2>1, <1>4, StepOf DEF h
  <2>. QED BY <2>2
<1>5. ASSUME NEW l \in {"wait", "help", "block", "compare", "parked"}, NEW c \in Nodes \cup {None}, NEW h,
             Is(h, f, l, None, c, None, None), Become(t, h),
             l \in {"wait", "help"} => InCall(t, f, {"wait"}),
             l \in {"block", "compare", "parked"} => InCall(t, f, {"block"})
      PROVE  Steps(t, h, l, None, c, None, None)
  <2>1. Shape(t, h)
    <3>. HIDE DEF f
    <3>. QED BY <1>1, <1>3, <1>5, WaitShape
  <2>. QED BY <2>1, <1>5, StepOf
<1>6. ASSUME NEW l \in {"wait", "help", "block", "parked"}, Goto(t, l),
             l \in {"wait", "help"} => InCall(t, f, {"wait"}),
             l \in {"block", "compare", "parked"} => InCall(t, f, {"block"})
      PROVE  \E g : Steps(t, g, l, None, f.cur, None, None)
  <2>. DEFINE h == [f EXCEPT !.pc = l]
  <2>1. Become(t, h) /\ f.cur \in Nodes \cup {None}
    BY <1>1, <1>6, FrameTyped DEF Goto
  <2>2. Is(h, f, l, None, f.cur, None, None)
    <3>1. l \in PCs
      BY DEF PCs
    <3>. HIDE DEF f
    <3>. QED BY <3>1, <1>1, <1>2, FrameGoto
  <2>3. Steps(t, h, l, None, f.cur, None, None)
    <3>. HIDE DEF h, f
    <3>. QED BY <2>1, <2>2, <1>5, <1>6
  <2>. QED BY <2>3
<1>7. ASSUME NEW c \in Nodes \cup {None}, InCall(t, f, {"block"}), Become(t, [f EXCEPT !.pc = "compare", !.cur = c])
      PROVE  \E g : Steps(t, g, "compare", None, c, None, None)
  <2>. DEFINE h == [f EXCEPT !.pc = "compare", !.cur = c]
  <2>1. Is(h, f, "compare", None, c, None, None)
    <3>1. "compare" \in PCs
      BY DEF PCs
    <3>. HIDE DEF f
    <3>. QED BY <3>1, <1>1, <1>2, FrameCur
  <2>2. Steps(t, h, "compare", None, c, None, None)
    <3>1. Become(t, h)
      BY <1>7
    <3>. HIDE DEF h, f
    <3>. QED BY <2>1, <3>1, <1>5, <1>7
  <2>. QED BY <2>2
<1>. HIDE DEF f
<1>. QED BY <1>4, <1>6, <1>7 DEF f

LEMMA WaitStep ==
  ASSUME TaskStateAssumption, Types, ShapeInv, NEW t \in Threads, Wait(t)
  PROVE  LET f == Top(t) IN
         /\ Types'
         /\ \/ \E g : Steps(t, g, "user", None, None, None, None)
            \/ \E g : Steps(t, g, "help", None, f.cur, None, None)
<1>. DEFINE f == Top(t)
<1>1. /\ stack[t] # <<>> /\ f.pc \in {"user", "wait"}
      /\ UNCHANGED <<stateVars, nodeVars, ctlVars, hold, queued, runs>>
      /\ Become(t, Returned(f)) \/ Goto(t, "help")
      /\ f.pc = "user" => Calls(t, "wait")
  BY DEF Wait, At, Calls
<1>2. f.pc \in UserPcs
  BY <1>1 DEF UserPcs
<1>3. InCall(t, f, {"wait"})
  BY <1>1, CallTop, <1>2, UserTop
<1>4. \/ \E g : Steps(t, g, "user", None, None, None, None)
      \/ \E g : Steps(t, g, "help", None, f.cur, None, None)
  BY <1>1, <1>2, <1>3, WaitingStep
<1>5. Types'
  <2>1. stack' \in [Threads -> Seq(FrameSet)]
    <3>. HIDE DEF f
    <3>. QED BY <1>4 DEF Steps
  <2>2. aborted' \in BOOLEAN
    <3>1. aborted' = (aborted \/ (At(t, "user") /\ Call(t).arg \in Ancestors(t)))
      BY DEF Wait
    <3>. QED BY <3>1, Zenon DEF Types
  <2>. QED BY <2>1, <2>2, <1>1, TypesNext DEF stateVars, nodeVars, ctlVars
<1>. QED BY <1>4, <1>5

LEMMA HelpNobodyStep ==
  ASSUME TaskStateAssumption, Types, ShapeInv, NEW t \in Threads, HelpNobody(t)
  PROVE  LET f == Top(t) IN
         Types' /\ \E g : Steps(t, g, "wait", None, f.cur, None, None)
<1>. DEFINE f == Top(t)
<1>1. /\ stack[t] # <<>> /\ f.pc = "help" /\ Goto(t, "wait")
      /\ UNCHANGED <<stateVars, nodeVars, ctlVars, hold, queued, histVars>>
  BY DEF HelpNobody, At
<1>2. f.pc \in UserPcs
  BY <1>1 DEF UserPcs
<1>3. InCall(t, f, {"wait"})
  BY <1>1, <1>2, UserTop
<1>4. \E g : Steps(t, g, "wait", None, f.cur, None, None)
  BY <1>1, <1>2, <1>3, WaitingStep
<1>5. Types'
  <2>1. stack' \in [Threads -> Seq(FrameSet)]
    <3>. HIDE DEF f
    <3>. QED BY <1>4 DEF Steps
  <2>. QED BY <2>1, <1>1, TypesNext DEF stateVars, nodeVars, ctlVars, histVars
<1>. QED BY <1>4, <1>5

LEMMA BlockStep ==
  ASSUME TaskStateAssumption, Types, ShapeInv, NEW t \in Threads, Block(t)
  PROVE  LET f == Top(t)
             v == cont[Call(t).arg] IN
         /\ Types' /\ Call(t).arg \in Tasks
         /\ \/ \E g : Steps(t, g, "user", None, None, None, None)
            \/ v # Finished /\ \E g : Steps(t, g, "compare", None, v, None, None)
<1>. DEFINE f == Top(t)  v == cont[Call(t).arg]
<1>1. /\ stack[t] # <<>> /\ f.pc \in {"user", "block"}
      /\ UNCHANGED <<stateVars, nodeVars, ctlVars, hold, queued, histVars>>
      /\ Become(t, IF v = Finished THEN Returned(f) ELSE [f EXCEPT !.pc = "compare", !.cur = v])
      /\ f.pc = "user" => Calls(t, "block")
  BY DEF Block, At, Calls
<1>2. f.pc \in UserPcs
  BY <1>1 DEF UserPcs
<1>3. InCall(t, f, {"block"}) /\ Call(t).arg \in Tasks
  BY <1>1, CallTop, <1>2, UserTop
<1>4. \/ \E g : Steps(t, g, "user", None, None, None, None)
      \/ v # Finished /\ \E g : Steps(t, g, "compare", None, v, None, None)
  <2>1. CASE v = Finished
    BY <2>1, <1>1, <1>2, WaitingStep
  <2>2. CASE v # Finished
    <3>1. v \in Nodes \cup {None} /\ Become(t, [f EXCEPT !.pc = "compare", !.cur = v])
      BY <2>2, <1>1, <1>3 DEF Types
    <3>. HIDE DEF v
    <3>. QED BY <2>2, <3>1, <1>1, <1>2, <1>3, WaitingStep
  <2>. QED BY <2>1, <2>2
<1>5. Types'
  <2>1. stack' \in [Threads -> Seq(FrameSet)]
    <3>. HIDE DEF f, v
    <3>. QED BY <1>4 DEF Steps
  <2>. QED BY <2>1, <1>1, TypesNext DEF stateVars, nodeVars, ctlVars, histVars
<1>. QED BY <1>3, <1>4, <1>5

LEMMA CompareStep ==
  ASSUME TaskStateAssumption, Types, ShapeInv, NEW t \in Threads, Compare(t)
  PROVE  LET f == Top(t) IN
         /\ Types' /\ Call(t).arg \in Tasks
         /\ \/ \E g : Steps(t, g, "block", None, f.cur, None, None)
            \/ cont[Call(t).arg] = f.cur /\ \E g : Steps(t, g, "parked", None, f.cur, None, None)
<1>. DEFINE f == Top(t)
<1>1. /\ stack[t] # <<>> /\ f.pc = "compare"
      /\ UNCHANGED <<stateVars, nodeVars, ctlVars, hold, queued, histVars>>
      /\ Goto(t, IF cont[Call(t).arg] = f.cur THEN "parked" ELSE "block")
  BY DEF Compare, At
<1>2. f.pc \in UserPcs
  BY <1>1 DEF UserPcs
<1>3. InCall(t, f, {"block"}) /\ Call(t).arg \in Tasks
  BY <1>1, <1>2, UserTop
<1>4. \/ \E g : Steps(t, g, "block", None, f.cur, None, None)
      \/ cont[Call(t).arg] = f.cur /\ \E g : Steps(t, g, "parked", None, f.cur, None, None)
  <2>1. CASE cont[Call(t).arg] = f.cur
    BY <2>1, <1>1, <1>2, <1>3, WaitingStep
  <2>2. CASE cont[Call(t).arg] # f.cur
    BY <2>2, <1>1, <1>2, <1>3, WaitingStep
  <2>. QED BY <2>1, <2>2
<1>5. Types'
  <2>1. stack' \in [Threads -> Seq(FrameSet)]
    <3>. HIDE DEF f
    <3>. QED BY <1>4 DEF Steps
  <2>. QED BY <2>1, <1>1, TypesNext DEF stateVars, nodeVars, ctlVars, histVars
<1>. QED BY <1>3, <1>4, <1>5

LEMMA CopyStep ==
  ASSUME TaskStateAssumption, Types, ShapeInv, NEW t \in Threads, Copy(t)
  PROVE  Types' /\ \E g : Steps(t, g, "user", None, None, None, None)
<1>1. /\ Calls(t, "copy") /\ Become(t, Returned(Top(t)))
      /\ refs' = [refs EXCEPT ![Call(t).arg] = @ + 1]
      /\ hold' = [hold EXCEPT ![Call(t).arg] = @ \cup {Call(t).to}]
      /\ UNCHANGED <<cont, err, nodeVars, ctlVars, queued, histVars>>
  BY DEF Copy, AddRef
<1>2. stack[t] # <<>> /\ Top(t).pc = "user" /\ Call(t) \in Op /\ Call(t).arg \in Tasks /\ Call(t).op = "copy"
  BY <1>1, CallTop
<1>3. \E g : Steps(t, g, "user", None, None, None, None)
  BY <1>1, <1>2, WaitingStep DEF UserPcs
<1>4. stack' \in [Threads -> Seq(FrameSet)]
  BY <1>3 DEF Steps
<1>. DEFINE k == Call(t).arg  b == Call(t).to
<1>5. k \in Tasks /\ b \in Bodies
  BY <1>2, OpTyped
<1>6. /\ refs' = [refs EXCEPT ![k] = @ + 1] /\ hold' = [hold EXCEPT ![k] = @ \cup {b}]
  BY <1>1
<1>. HIDE DEF k, b
<1>7. refs' \in [Tasks -> Int]
  BY <1>5, <1>6 DEF Types
<1>8. hold' \in [Tasks -> SUBSET Bodies] /\ \A j \in Tasks : IsFiniteSet(hold'[j])
  <2>1. hold \in [Tasks -> SUBSET Bodies] /\ \A j \in Tasks : IsFiniteSet(hold[j])
    BY DEF Types
  <2>2. IsFiniteSet(hold[k] \cup {b}) /\ hold[k] \cup {b} \in SUBSET Bodies
    BY <2>1, <1>5, FS_AddElement
  <2>. QED BY <2>1, <2>2, <1>5, <1>6
<1>. QED BY <1>1, <1>3, <1>4, <1>7, <1>8, TypesNext DEF nodeVars, ctlVars, histVars

LEMMA DropStep ==
  ASSUME TaskStateAssumption, Types, ShapeInv, NEW t \in Threads, Drop(t)
  PROVE  Types' /\ \E g : Steps(t, g, "user", None, None, None, None)
<1>1. /\ Calls(t, "drop") /\ Become(t, Returned(Top(t)))
      /\ refs' = [refs EXCEPT ![Call(t).arg] = @ - 1]
      /\ hold' = [hold EXCEPT ![Call(t).arg] = @ \ {Body(t)}]
      /\ UNCHANGED <<cont, err, nodeVars, ctlVars, queued, histVars>>
  BY DEF Drop, Release
<1>2. stack[t] # <<>> /\ Top(t).pc = "user" /\ Call(t) \in Op /\ Call(t).arg \in Tasks
  BY <1>1, CallTop
<1>3. \E g : Steps(t, g, "user", None, None, None, None)
  BY <1>1, <1>2, WaitingStep DEF UserPcs
<1>4. stack' \in [Threads -> Seq(FrameSet)]
  BY <1>3 DEF Steps
<1>. DEFINE k == Call(t).arg  b == Body(t)
<1>5. k \in Tasks
  BY <1>2
<1>6. /\ refs' = [refs EXCEPT ![k] = @ - 1] /\ hold' = [hold EXCEPT ![k] = @ \ {b}]
  BY <1>1
<1>. HIDE DEF k, b
<1>7. refs' \in [Tasks -> Int]
  BY <1>5, <1>6 DEF Types
<1>8. hold' \in [Tasks -> SUBSET Bodies] /\ \A j \in Tasks : IsFiniteSet(hold'[j])
  BY <1>5, FS_Subset, <1>6 DEF Types
<1>. QED BY <1>1, <1>3, <1>4, <1>7, <1>8, TypesNext DEF nodeVars, ctlVars, histVars

-----------------------------------------------------------------------------
(* No notification is lost.                                                *)

Notified(k) == \E y \in Frames : FrameAt(y).pc = "notify" /\ SubjectOf(FrameAt(y)) = k
ParkOK(t, f) == f.pc = "parked" => \/ cont[CallOf(t, f).arg] # Finished
                                   \/ Notified(CallOf(t, f).arg)
ParkInv == \A x \in Frames : ParkOK(x[1], FrameAt(x))

\* A frame that is parked after a step of another was parked before.
LEMMA AlikeParked ==
  ASSUME NEW f, NEW h, Alike(f, h)
  PROVE  /\ h.pc = "parked" => h = f
         /\ f.pc = "notify" => h = f
BY DEF Alike

\* A step that completes no task, or goes on to notify.
Completes(t, g) == \A k \in Tasks : cont'[k] = Finished =>
                     \/ cont[k] = Finished
                     \/ g.pc = "notify" /\ SubjectOf(g) = k

LEMMA ParkArg ==
  ASSUME TaskStateAssumption, Types, ShapeInv, NEW x \in Frames, FrameAt(x).pc = "parked"
  PROVE  CallOf(x[1], FrameAt(x)).arg \in Tasks
BY Position, HelpShape, BodyTyped, OpTyped DEF ShapeInv, Shape, ShapeOwn, InCall

LEMMA ParkMove ==
  ASSUME TaskStateAssumption, Types, ShapeInv, ParkInv, NEW t \in Threads, NEW g,
         stack[t] # <<>>, Moves(t, g), Top(t).pc # "notify",
         g.pc = "parked" => cont[CallOf(t, g).arg] # Finished /\ cont' = cont,
         Completes(t, g)
  PROVE  ParkInv'
<1>1. ASSUME NEW y \in Frames, FrameAt(y).pc = "notify" PROVE y \in Frames' /\ FrameAt(y)' = FrameAt(y)
  <2>2. y # Tip(t)
    BY <1>1, TipTyped
  <2>. QED BY <1>1, <2>2, AlikeParked DEF Moves
<1>2. SUFFICES ASSUME NEW x \in Frames', NEW h, h = FrameAt(x)', h.pc = "parked"
               PROVE  \/ cont'[CallOf(x[1], h).arg] # Finished
                      \/ \E y \in Frames' : /\ FrameAt(y)'.pc = "notify"
                                             /\ SubjectOf(FrameAt(y)') = CallOf(x[1], h).arg
  BY DEF ParkInv, ParkOK, Notified
<1>3. x \in Frames
  BY DEF Moves
<1>4. CASE x = Tip(t)
  <2>1. FrameAt(x)' = g /\ x[1] = t
    BY <1>3, <1>4, TipTyped DEF Moves
  <2>. QED BY <2>1, <1>2
<1>5. CASE x # Tip(t)
  <2>1. FrameAt(x)' = FrameAt(x) /\ h = FrameAt(x)
    BY <1>2, <1>3, <1>5, AlikeParked DEF Moves
  <2>2. FrameAt(x).pc = "parked"
    BY <2>1, <1>2
  <2>. DEFINE k == CallOf(x[1], FrameAt(x)).arg
  <2>3. k \in Tasks /\ (cont[k] # Finished \/ Notified(k))
    BY <1>3, <2>2, ParkArg DEF ParkInv, ParkOK
  <2>4. CASE Notified(k)
    <3>1. PICK y \in Frames : FrameAt(y).pc = "notify" /\ SubjectOf(FrameAt(y)) = k
      BY <2>4 DEF Notified
    <3>. QED BY <3>1, <1>1, <2>1, <1>2
  <2>5. CASE cont[k] # Finished /\ cont'[k] = Finished
    <3>1. g.pc = "notify" /\ SubjectOf(g) = k
      BY <2>3, <2>5 DEF Completes
    <3>3. \A y \in Frames : y = Tip(t) => y \in Frames' /\ FrameAt(y)' = g
      BY DEF Moves
    <3>4. \E y \in Frames' : FrameAt(y)'.pc = "notify" /\ SubjectOf(FrameAt(y)') = k
      BY <3>1, <3>3, TipTyped
    <3>. HIDE DEF k
    <3>. QED BY <3>4, <2>1, <1>2 DEF k
  <2>. QED BY <2>1, <2>3, <2>4, <2>5, <1>2
<1>. QED BY <1>4, <1>5

LEMMA ParkPop ==
  ASSUME TaskStateAssumption, Types, ShapeInv, ParkInv, NEW t \in Threads,
         stack[t] # <<>>, Pops(t), Top(t).pc # "notify", cont' = cont
  PROVE  ParkInv'
<1>1. ASSUME NEW y \in Frames, FrameAt(y).pc = "notify" PROVE y \in Frames' /\ FrameAt(y)' = FrameAt(y)
  <2>2. y # Tip(t)
    BY <1>1, TipTyped
  <2>. QED BY <1>1, <2>2, AlikeParked DEF Pops
<1>2. SUFFICES ASSUME NEW x \in Frames', NEW h, h = FrameAt(x)', h.pc = "parked"
               PROVE  \/ cont'[CallOf(x[1], h).arg] # Finished
                      \/ \E y \in Frames' : /\ FrameAt(y)'.pc = "notify"
                                             /\ SubjectOf(FrameAt(y)') = CallOf(x[1], h).arg
  BY DEF ParkInv, ParkOK, Notified
<1>3. x \in Frames /\ FrameAt(x)' = FrameAt(x)
  BY <1>2, AlikeParked DEF Pops
<1>. DEFINE k == CallOf(x[1], FrameAt(x)).arg
<1>4. cont'[k] # Finished \/ Notified(k)
  BY <1>2, <1>3 DEF ParkInv, ParkOK
<1>5. CASE Notified(k)
  <2>1. PICK y \in Frames : FrameAt(y).pc = "notify" /\ SubjectOf(FrameAt(y)) = k
    BY <1>5 DEF Notified
  <2>. QED BY <2>1, <1>1, <1>3, <1>2
<1>. QED BY <1>4, <1>5, <1>3, <1>2

LEMMA ParkPush ==
  ASSUME TaskStateAssumption, Types, ShapeInv, ParkInv, NEW t \in Threads, NEW g,
         Pushes(t, g), g.pc # "parked", cont' = cont
  PROVE  ParkInv'
<1>1. ASSUME NEW y \in Frames, FrameAt(y).pc = "notify" PROVE y \in Frames' /\ FrameAt(y)' = FrameAt(y)
  BY <1>1, AlikeParked DEF Pushes
<1>2. SUFFICES ASSUME NEW x \in Frames', NEW h, h = FrameAt(x)', h.pc = "parked"
               PROVE  \/ cont'[CallOf(x[1], h).arg] # Finished
                      \/ \E y \in Frames' : /\ FrameAt(y)'.pc = "notify"
                                             /\ SubjectOf(FrameAt(y)') = CallOf(x[1], h).arg
  BY DEF ParkInv, ParkOK, Notified
<1>3. x \in Frames /\ FrameAt(x)' = FrameAt(x)
  BY <1>2, AlikeParked DEF Pushes
<1>. DEFINE k == CallOf(x[1], FrameAt(x)).arg
<1>4. cont'[k] # Finished \/ Notified(k)
  BY <1>2, <1>3 DEF ParkInv, ParkOK
<1>5. CASE Notified(k)
  <2>1. PICK y \in Frames : FrameAt(y).pc = "notify" /\ SubjectOf(FrameAt(y)) = k
    BY <1>5 DEF Notified
  <2>. QED BY <2>1, <1>1, <1>3, <1>2
<1>. QED BY <1>4, <1>5, <1>3, <1>2

\* Most steps leave continuations_ alone, and do not park.
LEMMA ParkKeep ==
  ASSUME TaskStateAssumption, Types, ShapeInv, ParkInv, NEW t \in Threads,
         NEW g, NEW l, NEW m, NEW c, NEW x, NEW e, Steps(t, g, l, m, c, x, e),
         Top(t).pc # "notify", l # "parked", cont' = cont
  PROVE  ParkInv'
BY ParkMove DEF Steps, Is, Completes

\* The head of a list is linked.
LEMMA ParkLink ==
  ASSUME TaskStateAssumption, Types, ShapeInv, ParkInv, NEW t \in Threads, CompareExchange(t)
  PROVE  ParkInv'
<1>. DEFINE f == Top(t)
            p == PredOf(Top(t).cur)
<1>1. f.pc = "cas" /\ stack[t] # <<>> /\ f \in FrameSet
  BY TipTyped DEF CompareExchange, At
<1>2. ASSUME NEW g, NEW l, NEW m, NEW c, NEW x, NEW e, Steps(t, g, l, m, c, x, e), l # "parked",
             cont' = [cont EXCEPT ![p] = f.cur] \/ cont' = cont
      PROVE  ParkInv'
  <2>1. Moves(t, g) /\ g.pc = l
    BY <1>2 DEF Steps, Is
  <2>2. f.cur # Finished
    BY <1>1, FrameTyped, Names
  <2>3. cont \in [Tasks -> Nodes \cup {None, Finished}]
    BY DEF Types
  <2>4. Completes(t, g)
    <3>. HIDE DEF p, f
    <3>. QED BY <1>2, <2>2, <2>3 DEF Completes
  <2>. QED BY <1>1, <1>2, <2>1, <2>4, ParkMove
<1>. QED BY <1>2, CompareExchangeStep

LEMMA ParkExchange ==
  ASSUME TaskStateAssumption, Types, ShapeInv, ParkInv, NEW t \in Threads, Exchange(t)
  PROVE  ParkInv'
<1>1. Top(t).pc = "exchange"
  BY DEF Exchange, At
<1>2. PICK c, g : Steps(t, g, "notify", Top(t).making, c, None, Top(t).exc)
  BY ExchangeStep
<1>3. stack[t] # <<>> /\ Moves(t, g) /\ g.pc = "notify" /\ SubjectOf(g) = Subject(t)
  BY <1>2 DEF Steps, Is, SubjectOf, Subject
<1>4. cont' = [cont EXCEPT ![Subject(t)] = Finished] /\ cont \in [Tasks -> Nodes \cup {None, Finished}]
  BY DEF Types, Exchange
<1>5. Completes(t, g)
  BY <1>3, <1>4 DEF Completes
<1>. QED BY <1>1, <1>3, <1>5, ParkMove

\* The value that a thread parks on is not the tag of a complete task.
LEMMA ParkCompare ==
  ASSUME TaskStateAssumption, Types, ShapeInv, ParkInv, NEW t \in Threads, Compare(t)
  PROVE  ParkInv'
<1>1. Top(t).pc = "compare" /\ stack[t] # <<>> /\ Top(t) \in FrameSet /\ cont' = cont
  BY TipTyped DEF Compare, At, stateVars
<1>2. CASE \E g : Steps(t, g, "block", None, Top(t).cur, None, None)
  BY <1>1, <1>2, ParkKeep
<1>3. CASE cont[Call(t).arg] = Top(t).cur /\ \E g : Steps(t, g, "parked", None, Top(t).cur, None, None)
  <2>1. PICK g : Steps(t, g, "parked", None, Top(t).cur, None, None)
    BY <1>3
  <2>2. Moves(t, g) /\ CallOf(t, g) = Call(t)
    BY <2>1, SameCall DEF Steps, Is, Call
  <2>3. Top(t).cur # Finished
    BY <1>1, FrameTyped, Names
  <2>4. Completes(t, g)
    BY <1>1 DEF Completes
  <2>. QED BY <1>1, <1>3, <2>2, <2>3, <2>4, ParkMove
<1>. QED BY <1>2, <1>3, CompareStep

\* The notification reaches all who are parked on the task.
LEMMA ParkNotify ==
  ASSUME TaskStateAssumption, Types, ShapeInv, ParkInv, NEW t \in Threads, Notify(t)
  PROVE  ParkInv'
<1>1. stack[t] # <<>> /\ Top(t).pc = "notify" /\ cont' = cont
  BY DEF Notify, At, stateVars
<1>2. PICK g : Moves(t, g) /\ g.pc = "schedule"
  BY NotifyStep DEF Steps, Is
<1>3. SUFFICES ASSUME NEW x \in Frames', NEW h, h = FrameAt(x)', h.pc = "parked"
               PROVE  \/ cont'[CallOf(x[1], h).arg] # Finished
                      \/ \E y \in Frames' : /\ FrameAt(y)'.pc = "notify"
                                             /\ SubjectOf(FrameAt(y)') = CallOf(x[1], h).arg
  BY DEF ParkInv, ParkOK, Notified
<1>4. x \in Frames /\ x # Tip(t) /\ FrameAt(x)' = FrameAt(x) /\ FrameAt(x).pc = "parked"
  BY <1>2, <1>3, AlikeParked DEF Moves
<1>. DEFINE u == x[1]
<1>5. u \in Threads /\ stack[u] # <<>> /\ x = Tip(u) /\ FrameAt(x) = Top(u) /\ u # t
      /\ stack[u] \in Seq(FrameSet) /\ x[2] = Len(stack[u])
  <2>1. u \in Threads /\ stack[u] # <<>> /\ x = <<u, x[2]>> /\ x[2] \in 1 .. Len(stack[u])
        /\ Len(stack[u]) \in Nat
    BY <1>4, Position
  <2>2. ~(x[2] < Len(stack[u]))
    BY <1>4 DEF ShapeInv, Stacked
  <2>3. x[2] = Len(stack[u])
    BY <2>1, <2>2
  <2>. QED BY <2>1, <2>3, <1>4, TipTyped DEF Tip, Types
<1>6. Call(u).arg # Subject(t)
  <2>1. SUFFICES ASSUME ParkedOn(u, Subject(t)) PROVE FALSE
    BY <1>4, <1>5 DEF ParkedOn, At
  <2>2. stack'[u] = [stack[u] EXCEPT ![Len(stack[u])].pc = "compare"]
    BY <2>1, <1>5 DEF Notify
  <2>3. Top(u) \in FrameSet /\ Len(stack[u]) \in DOMAIN stack[u]
    BY <1>5, EmptySeq, TipTyped, ElementOfSeq
  <2>4. stack'[u][Len(stack[u])] = [Top(u) EXCEPT !.pc = "compare"]
    BY <2>2, <2>3, <1>5 DEF Top
  <2>5. stack'[u][Len(stack[u])].pc = "compare"
    BY <2>4, <2>3 DEF FrameSet
  <2>. QED BY <2>5, <1>3, <1>5 DEF FrameAt
<1>7. CallOf(x[1], h).arg = Call(u).arg
  BY <1>3, <1>4, <1>5 DEF Call
<1>8. cont[Call(u).arg] # Finished \/ Notified(Call(u).arg)
  BY <1>4, <1>5 DEF ParkInv, ParkOK, Call
<1>9. ASSUME Notified(Call(u).arg)
      PROVE  \E y \in Frames' : FrameAt(y)'.pc = "notify" /\ SubjectOf(FrameAt(y)') = Call(u).arg
  <2>1. PICK y \in Frames : FrameAt(y).pc = "notify" /\ SubjectOf(FrameAt(y)) = Call(u).arg
    BY <1>9 DEF Notified
  <2>2. y # Tip(t)
    BY <2>1, <1>1, <1>6, TipTyped DEF Subject
  <2>. QED BY <2>1, <2>2, <1>2, AlikeParked DEF Moves
<1>. QED BY <1>1, <1>7, <1>8, <1>9

LEMMA ParkTake ==
  ASSUME TaskStateAssumption, Types, ShapeInv, ParkInv, NEW t \in Threads, Take(t)
  PROVE  Types' /\ ShapeInv' /\ ParkInv'
<1>1. PICK n \in queued :
        /\ queued' = queued \ {n}
        /\ stack' = [stack EXCEPT ![t] =
             Append([i \in DOMAIN stack[t] |->
                       IF stack[t][i].pc = "help" THEN [stack[t][i] EXCEPT !.pc = "wait"]
                                                  ELSE stack[t][i]],
                    Frame(n, IF Kind[n[1]] = "produce" THEN "user" ELSE "look"))]
        /\ runs' = IF Kind[n[1]] = "produce" THEN [runs EXCEPT ![n[1]] = @ + 1] ELSE runs
  BY DEF Take
<1>2. /\ Idle(t) \/ At(t, "help") \/ Blocked(t)
      /\ UNCHANGED <<stateVars, nodeVars, ctlVars, hold, aborted>> /\ cont' = cont
  BY DEF Take, stateVars
<1>. DEFINE g == Frame(n, IF Kind[n[1]] = "produce" THEN "user" ELSE "look")
<1>3. Types' /\ Pushes(t, g) /\ ShapeInv'
  BY <1>1, <1>2, TakeStep
<1>4. g.pc # "parked"
  BY DEF Frame
<1>. HIDE DEF g
<1>. QED BY <1>2, <1>3, <1>4, ParkPush

LEMMA StepKeeps ==
  ASSUME TaskStateAssumption, Types, ShapeInv, ParkInv, NEW t \in Threads, Step(t)
  PROVE  Types' /\ ShapeInv' /\ ParkInv'
<1>. USE ParkKeep DEF Steps
<1>1. ASSUME SubmitTask(t) PROVE Types' /\ ShapeInv' /\ ParkInv'
  BY <1>1, SubmitTaskStep DEF SubmitTask, CallsMake, Calls, At
<1>2. ASSUME Then(t) PROVE Types' /\ ShapeInv' /\ ParkInv'
  BY <1>2, ThenStep DEF Then, CallsMake, Calls, At
<1>3. ASSUME WhenAll(t) PROVE Types' /\ ShapeInv' /\ ParkInv'
  BY <1>3, WhenAllStep DEF WhenAll, CallsMake, Calls, At
<1>4. ASSUME Attach(t) PROVE Types' /\ ShapeInv' /\ ParkInv'
  BY <1>4, AttachStep DEF Attach, At
<1>5. ASSUME AttachFails(t) PROVE Types' /\ ShapeInv' /\ ParkInv'
  <2>1. Top(t).pc # "notify" /\ cont' = cont
    BY <1>5 DEF AttachFails, At, stateVars
  <2>. QED BY <1>5, <2>1, AttachFailsStep
<1>6. ASSUME Load(t) PROVE Types' /\ ShapeInv' /\ ParkInv'
  BY <1>6, LoadStep DEF Load, At, stateVars
<1>7. ASSUME CompareExchange(t) PROVE Types' /\ ShapeInv' /\ ParkInv'
  BY <1>7, CompareExchangeStep, ParkLink
<1>8. ASSUME Give(t) PROVE Types' /\ ShapeInv' /\ ParkInv'
  BY <1>8, GiveStep DEF Give, At, stateVars
<1>9. ASSUME Take(t) PROVE Types' /\ ShapeInv' /\ ParkInv'
  BY <1>9, ParkTake
<1>10. ASSUME Look(t) PROVE Types' /\ ShapeInv' /\ ParkInv'
  <2>1. Top(t).pc # "notify" /\ cont' = cont
    BY <1>10 DEF Look, At, stateVars
  <2>. QED BY <1>10, <2>1, LookStep
<1>11. ASSUME Return(t) PROVE Types' /\ ShapeInv' /\ ParkInv'
  <2>1. Top(t).pc # "notify" /\ cont' = cont
    BY <1>11 DEF Return, At, stateVars
  <2>. QED BY <1>11, <2>1, ReturnStep, ParkPop
<1>12. ASSUME StoreException(t) PROVE Types' /\ ShapeInv' /\ ParkInv'
  BY <1>12, StoreExceptionStep DEF StoreException, At
<1>13. ASSUME Exchange(t) PROVE Types' /\ ShapeInv' /\ ParkInv'
  BY <1>13, ExchangeStep, ParkExchange
<1>14. ASSUME Notify(t) PROVE Types' /\ ShapeInv' /\ ParkInv'
  BY <1>14, NotifyStep, ParkNotify
<1>15. ASSUME Schedule(t) PROVE Types' /\ ShapeInv' /\ ParkInv'
  <2>1. Top(t).pc # "notify" /\ cont' = cont
    BY <1>15 DEF Schedule, At, stateVars
  <2>. QED BY <1>15, <2>1, ScheduleStep
<1>16. ASSUME Submit(t) PROVE Types' /\ ShapeInv' /\ ParkInv'
  <2>1. Top(t).pc # "notify" /\ cont' = cont
    BY <1>16 DEF Submit, At, stateVars
  <2>. QED BY <1>16, <2>1, SubmitStep
<1>17. ASSUME ReleasePred(t) PROVE Types' /\ ShapeInv' /\ ParkInv'
  BY <1>17, ReleasePredStep DEF ReleasePred, At
<1>18. ASSUME ReleaseResult(t) PROVE Types' /\ ShapeInv' /\ ParkInv'
  BY <1>18, ReleaseResultStep, ParkPop DEF ReleaseResult, At
<1>19. ASSUME Claim(t) PROVE Types' /\ ShapeInv' /\ ParkInv'
  BY <1>19, ClaimStep DEF Claim, At, stateVars
<1>20. ASSUME WriteException(t) PROVE Types' /\ ShapeInv' /\ ParkInv'
  BY <1>20, WriteExceptionStep DEF WriteException, At, stateVars
<1>21. ASSUME Arrive(t) PROVE Types' /\ ShapeInv' /\ ParkInv'
  <2>1. Top(t).pc # "notify" /\ stack[t] # <<>> /\ cont' = cont
    BY <1>21 DEF Arrive, At, stateVars
  <2>. QED BY <1>21, <2>1, ArriveStep, ParkPop
<1>22. ASSUME Wait(t) PROVE Types' /\ ShapeInv' /\ ParkInv'
  BY <1>22, WaitStep DEF Wait, Calls, At, stateVars
<1>23. ASSUME HelpNobody(t) PROVE Types' /\ ShapeInv' /\ ParkInv'
  BY <1>23, HelpNobodyStep DEF HelpNobody, At, stateVars
<1>24. ASSUME Block(t) PROVE Types' /\ ShapeInv' /\ ParkInv'
  <2>1. Top(t).pc # "notify" /\ cont' = cont
    BY <1>24 DEF Block, Calls, At, stateVars
  <2>. QED BY <1>24, <2>1, BlockStep
<1>25. ASSUME Compare(t) PROVE Types' /\ ShapeInv' /\ ParkInv'
  BY <1>25, CompareStep, ParkCompare
<1>26. ASSUME Copy(t) PROVE Types' /\ ShapeInv' /\ ParkInv'
  BY <1>26, CopyStep DEF Copy, Calls, At
<1>27. ASSUME Drop(t) PROVE Types' /\ ShapeInv' /\ ParkInv'
  BY <1>27, DropStep DEF Drop, Calls, At
<1>. QED BY <1>1, <1>2, <1>3, <1>4, <1>5, <1>6, <1>7, <1>8, <1>9, <1>10, <1>11, <1>12, <1>13, <1>14,
            <1>15, <1>16, <1>17, <1>18, <1>19, <1>20, <1>21, <1>22, <1>23, <1>24, <1>25, <1>26, <1>27,
            Zenon DEF Step

-----------------------------------------------------------------------------
(* The waits, in every state.                                              *)

LEMMA TypesInit ==
  ASSUME TaskStateAssumption, Init
  PROVE  Types /\ ShapeInv /\ ParkInv
<1>. DEFINE f0 == Frame(None, "user")
<1>1. /\ f0 \in FrameSet /\ f0.pc = "user" /\ f0.node = None /\ f0.making = None /\ f0.nxt = None
      /\ f0.exc = None
  BY DEF Frame, FrameSet, PCs
<1>2. stack = [t \in Threads |-> IF Home[t] = None THEN <<>> ELSE <<f0>>]
  BY DEF Init
<1>. HIDE DEF f0
<1>3. stack \in [Threads -> Seq(FrameSet)]
  BY <1>1, <1>2
<1>4. Types
  <2>1. IsFiniteSet({})
    BY FS_EmptySet
  <2>2. \A k \in Tasks : hold[k] = {}
    BY DEF Init
  <2>3. claimed \in [Tasks -> BOOLEAN] /\ aborted \in BOOLEAN
    BY Zenon DEF Init
  <2>. QED BY <1>3, <2>1, <2>2, <2>3 DEF Init, Types
<1>5. ASSUME NEW x \in Frames
      PROVE  x[1] \in Threads /\ Home[x[1]] # None /\ x[2] = 1 /\ Len(stack[x[1]]) = 1 /\ FrameAt(x) = f0
  BY <1>4, Position, <1>2 DEF FrameAt
<1>6. ASSUME NEW x \in Frames PROVE Shape(x[1], FrameAt(x)) /\ Stacked(x)
  <2>1. Home[x[1]] \in Programs
    BY <1>5 DEF TaskStateAssumption
  <2>2. ShapeOwn(x[1], f0)
    BY <1>1 DEF ShapeOwn, UserPcs, AddPcs, ArrivePcs
  <2>3. Shape(x[1], f0)
    BY <1>1, <2>1, <2>2 DEF Shape
  <2>4. Stacked(x)
    BY <1>5, <1>6 DEF Stacked
  <2>. QED BY <1>5, <1>6, <2>3, <2>4
<1>. QED BY <1>4, <1>5, <1>6, <1>1 DEF ShapeInv, ParkInv, ParkOK

LEMMA SameKeeps ==
  ASSUME Types, ShapeInv, ParkInv, UNCHANGED vars
  PROVE  Types' /\ ShapeInv' /\ ParkInv'
<1>. USE DEF vars
<1>1. Types'
  BY DEF Types
<1>2. Frames' = Frames /\ \A x : FrameAt(x)' = FrameAt(x)
  BY DEF Frames, FrameAt
<1>3. ShapeInv'
  BY <1>2 DEF ShapeInv, Stacked
<1>4. ParkInv'
  BY <1>2 DEF ParkInv, ParkOK, Notified
<1>. QED BY <1>1, <1>3, <1>4

LEMMA ParkCorrect == TaskStateAssumption => (Spec => [](Types /\ ShapeInv /\ ParkInv))
<1>. SUFFICES ASSUME TaskStateAssumption PROVE Spec => [](Types /\ ShapeInv /\ ParkInv)
  OBVIOUS
<1>1. Init => Types /\ ShapeInv /\ ParkInv
  BY TypesInit
<1>2. Types /\ ShapeInv /\ ParkInv /\ [Next]_vars => Types' /\ ShapeInv' /\ ParkInv'
  BY StepKeeps, SameKeeps DEF Next, Stopped
<1>. QED BY <1>1, <1>2, PTL DEF Spec

LEMMA ParkMeans ==
  ASSUME TaskStateAssumption, Types, ParkInv
  PROVE  NoLostWakeup
<1>. SUFFICES ASSUME NEW t \in Threads, At(t, "parked")
              PROVE  \/ cont[Call(t).arg] # Finished
                     \/ \E x \in Frames : FrameAt(x).pc = "notify" /\ SubjectOf(FrameAt(x)) = Call(t).arg
  BY DEF NoLostWakeup
<1>1. Tip(t) \in Frames /\ FrameAt(Tip(t)) = Top(t) /\ Tip(t)[1] = t /\ Top(t).pc = "parked"
  BY TipTyped DEF At
<1>2. ParkOK(t, Top(t))
  BY <1>1 DEF ParkInv
<1>. QED BY <1>1, <1>2 DEF ParkOK, Notified, Call

-----------------------------------------------------------------------------
(* How a step changes the marks.                                           *)

LEMMA HasRules ==
  ASSUME NEW f, NEW n
  PROVE  /\ Has(f, "run", n) <=> n # None /\ f.node = n
         /\ Has(f, "make", n) <=> n # None /\ f.making = n
         /\ Has(f, "link", n) <=> n # None /\ f.pc \in AddPcs /\ f.cur = n
         /\ Has(f, "give", n) <=> n # None /\ f.pc = "give" /\ f.cur = n
         /\ Has(f, "pass", n) <=> n # None /\ Passed(f) /\ f.node = n
         /\ Has(f, "arrived", n) <=> n # None /\ Own(f) \in SettlerPcs /\ f.node = n
         /\ Has(f, "settle", n) <=> n # None /\ f.pc \in SettlerPcs /\ SubjectOf(f) = n
         /\ Has(f, "come", n) <=> n # None /\ ToCome(f, n)
BY DEF Has

LEMMA MarksAre ==
  /\ "run" \in Marks /\ "make" \in Marks /\ "link" \in Marks /\ "give" \in Marks
  /\ "pass" \in Marks /\ "arrived" \in Marks /\ "settle" \in Marks /\ "come" \in Marks
  /\ \A m \in Marks : m \in {"run", "make", "link", "give", "pass", "arrived", "settle", "come"}
BY DEF Marks

\* Frames that are marked alike.
SameHas(f, g) == \A m \in Marks : \A n \in Nodes \cup Tasks : Has(g, m, n) <=> Has(f, m, n)

LEMMA SameHasOf ==
  ASSUME NEW f, NEW g, g.node = f.node, g.making = f.making,
         \A n \in Nodes \cup Tasks :
           /\ g.pc \in AddPcs /\ g.cur = n <=> f.pc \in AddPcs /\ f.cur = n
           /\ g.pc = "give" /\ g.cur = n <=> f.pc = "give" /\ f.cur = n
           /\ ToCome(g, n) <=> ToCome(f, n),
         Passed(g) <=> Passed(f), Own(g) \in SettlerPcs <=> Own(f) \in SettlerPcs,
         g.pc \in SettlerPcs <=> f.pc \in SettlerPcs
  PROVE  SameHas(f, g)
<1>1. SubjectOf(g) = SubjectOf(f)
  BY DEF SubjectOf
<1>. SUFFICES ASSUME NEW m \in Marks, NEW n \in Nodes \cup Tasks PROVE Has(g, m, n) <=> Has(f, m, n)
  BY DEF SameHas
<1>2. /\ Has(g, "run", n) <=> Has(f, "run", n)
      /\ Has(g, "make", n) <=> Has(f, "make", n)
      /\ Has(g, "link", n) <=> Has(f, "link", n)
      /\ Has(g, "give", n) <=> Has(f, "give", n)
  BY HasRules
<1>3. /\ Has(g, "pass", n) <=> Has(f, "pass", n)
      /\ Has(g, "arrived", n) <=> Has(f, "arrived", n)
      /\ Has(g, "settle", n) <=> Has(f, "settle", n)
      /\ Has(g, "come", n) <=> Has(f, "come", n)
  BY <1>1, HasRules
<1>. QED BY <1>2, <1>3, MarksAre

LEMMA AlikeHas ==
  ASSUME NEW f, NEW h, Alike(f, h)
  PROVE  SameHas(f, h)
<1>1. CASE h = f
  BY <1>1 DEF SameHas
<1>2. CASE h # f
  BY <1>2, SameHasOf DEF Alike, Passed, Own, Runner, ToCome, AddPcs, SettlerPcs, SettlePcs, LeavePcs
<1>. QED BY <1>1, <1>2

\* The nodes (or tasks) in G get mark m and those in L lose it.
Change(m, G, L) == \A n \in Nodes \cup Tasks : Marked(m, n)' <=> n \in G \/ (Marked(m, n) /\ n \notin L)

LEMMA ChangeMove ==
  ASSUME Types, Once, NEW t \in Threads, stack[t] # <<>>, NEW g, Moves(t, g),
         NEW m \in Marks, NEW G, NEW L,
         \A n \in Nodes \cup Tasks : Has(g, m, n) <=> n \in G \/ (Has(Top(t), m, n) /\ n \notin L),
         \A n \in Nodes \cup Tasks : n \in L => Has(Top(t), m, n)
  PROVE  Change(m, G, L)
<1>. SUFFICES ASSUME NEW n \in Nodes \cup Tasks
              PROVE  Marked(m, n)' <=> n \in G \/ (Marked(m, n) /\ n \notin L)
  BY DEF Change
<1>. DEFINE x0 == Tip(t)
<1>1. x0 \in Frames /\ FrameAt(x0) = Top(t) /\ Frames' = Frames
  BY TipTyped DEF Moves
<1>2. \A x \in Frames : x # x0 => (Has(FrameAt(x)', m, n) <=> Has(FrameAt(x), m, n))
  BY AlikeHas DEF Moves, SameHas
<1>3. \A x \in Frames : x = x0 => (Has(FrameAt(x)', m, n) <=> Has(g, m, n))
  BY DEF Moves
<1>4. Marked(m, n)' <=> \E x \in Frames : Has(FrameAt(x)', m, n)
  BY <1>1 DEF Marked
<1>5. \A x, y \in Frames : Has(FrameAt(x), m, n) /\ Has(FrameAt(y), m, n) => x = y
  BY DEF Once
<1>. HIDE DEF x0
<1>6. ASSUME Marked(m, n)' PROVE n \in G \/ (Marked(m, n) /\ n \notin L)
  <2>1. PICK x \in Frames : Has(FrameAt(x)', m, n)
    BY <1>4, <1>6
  <2>. QED BY <2>1, <1>1, <1>2, <1>3, <1>5 DEF Marked
<1>7. ASSUME n \in G \/ (Marked(m, n) /\ n \notin L) PROVE Marked(m, n)'
  BY <1>1, <1>2, <1>3, <1>4, <1>7 DEF Marked
<1>. QED BY <1>6, <1>7

\* A step in which no frame gets a mark that another has keeps Once.
LEMMA OnceMove ==
  ASSUME Types, Once, NEW t \in Threads, stack[t] # <<>>, NEW g, Moves(t, g),
         \A m \in Marks : \A n \in Nodes \cup Tasks : Has(g, m, n) => Has(Top(t), m, n) \/ ~Marked(m, n)
  PROVE  Once'
<1>. DEFINE x0 == Tip(t)
<1>1. x0 \in Frames /\ FrameAt(x0) = Top(t) /\ Frames' = Frames
  BY TipTyped DEF Moves
<1>. SUFFICES ASSUME NEW m \in Marks, NEW n \in Nodes \cup Tasks, NEW x \in Frames, NEW y \in Frames,
                     Has(FrameAt(x)', m, n), Has(FrameAt(y)', m, n)
              PROVE  x = y
  BY <1>1 DEF Once
<1>2. \A z \in Frames : z # x0 => (Has(FrameAt(z)', m, n) <=> Has(FrameAt(z), m, n))
  BY AlikeHas DEF Moves, SameHas
<1>3. \A z \in Frames : z = x0 => (Has(FrameAt(z)', m, n) <=> Has(g, m, n))
  BY DEF Moves
<1>5. \A z, w \in Frames : Has(FrameAt(z), m, n) /\ Has(FrameAt(w), m, n) => z = w
  BY DEF Once
<1>. HIDE DEF x0
<1>. QED BY <1>1, <1>2, <1>3, <1>5 DEF Marked

\* The marks of a frame that stays marked as it was.
LEMMA SameMove ==
  ASSUME Types, Once, NEW t \in Threads, stack[t] # <<>>, NEW g, Moves(t, g), SameHas(Top(t), g)
  PROVE  Once' /\ \A m \in Marks : Change(m, {}, {})
BY OnceMove, ChangeMove DEF SameHas

LEMMA ChangePop ==
  ASSUME Types, Once, NEW t \in Threads, stack[t] # <<>>, Pops(t)
  PROVE  /\ Once'
         /\ \A m \in Marks : Change(m, {}, {n \in Nodes \cup Tasks : Has(Top(t), m, n)})
<1>. DEFINE x0 == Tip(t)
<1>1. x0 \in Frames /\ FrameAt(x0) = Top(t) /\ Frames' = Frames \ {x0}
  BY TipTyped DEF Pops
<1>2. \A m \in Marks : \A n \in Nodes \cup Tasks : \A x \in Frames' :
        Has(FrameAt(x)', m, n) <=> Has(FrameAt(x), m, n)
  BY AlikeHas DEF Pops, SameHas
<1>. HIDE DEF x0
<1>3. Once'
  BY <1>1, <1>2 DEF Once
<1>4. ASSUME NEW m \in Marks, NEW n \in Nodes \cup Tasks
      PROVE  Marked(m, n)' <=> Marked(m, n) /\ ~Has(Top(t), m, n)
  BY <1>1, <1>2 DEF Marked, Once
<1>. QED BY <1>3, <1>4 DEF Change

LEMMA ChangePush ==
  ASSUME Types, Once, NEW t \in Threads, NEW g, Pushes(t, g),
         \A m \in Marks : \A n \in Nodes \cup Tasks : Has(g, m, n) => ~Marked(m, n)
  PROVE  /\ Once'
         /\ \A m \in Marks : Change(m, {n \in Nodes \cup Tasks : Has(g, m, n)}, {})
<1>. DEFINE x0 == Over(t)
<1>1. x0 \notin Frames /\ Frames' = Frames \cup {x0} /\ \A x \in Frames' : x = x0 => FrameAt(x)' = g
  BY DEF Pushes
<1>2. \A m \in Marks : \A n \in Nodes \cup Tasks : \A x \in Frames :
        Has(FrameAt(x)', m, n) <=> Has(FrameAt(x), m, n)
  BY AlikeHas DEF Pushes, SameHas
<1>. HIDE DEF x0
<1>3. Once'
  <2>. SUFFICES ASSUME NEW m \in Marks, NEW n \in Nodes \cup Tasks, NEW x \in Frames', NEW y \in Frames',
                       Has(FrameAt(x)', m, n), Has(FrameAt(y)', m, n)
                PROVE  x = y
    BY DEF Once
  <2>1. \A z, w \in Frames : Has(FrameAt(z), m, n) /\ Has(FrameAt(w), m, n) => z = w
    BY DEF Once
  <2>2. \A z \in Frames : Has(FrameAt(z), m, n) => ~Has(g, m, n)
    BY DEF Marked
  <2>. QED BY <1>1, <1>2, <2>1, <2>2
<1>4. ASSUME NEW m \in Marks, NEW n \in Nodes \cup Tasks
      PROVE  Marked(m, n)' <=> Marked(m, n) \/ Has(g, m, n)
  BY <1>1, <1>2 DEF Marked
<1>. QED BY <1>3, <1>4 DEF Change

-----------------------------------------------------------------------------
(* What the invariant says of a state.                                     *)

RefsInv == /\ Types /\ ShapeInv /\ HandleInv /\ NodeInv /\ ListInv /\ RefInv /\ StageInv /\ CountInv

LEMMA RefsCount ==
  ASSUME Types, RefInv, NEW k \in Tasks
  PROVE  /\ IsFiniteSet(Waiters(k)) /\ Cardinality(Waiters(k)) \in Nat
         /\ IsFiniteSet(hold[k]) /\ Cardinality(hold[k]) \in Nat
         /\ refs[k] \in Nat
         /\ hold[k] # {} \/ Waiters(k) # {} \/ ResultRef(k) => refs[k] > 0
<1>1. IsFiniteSet(hold[k]) /\ IsFiniteSet(nodes)
  BY DEF Types
<1>2. Waiters(k) \subseteq nodes
  BY DEF Waiters
<1>3. IsFiniteSet(Waiters(k))
  BY <1>1, <1>2, FS_Subset
<1>4. Cardinality(Waiters(k)) \in Nat /\ (Waiters(k) # {} => Cardinality(Waiters(k)) # 0)
  BY <1>3, FS_CardinalityType, FS_EmptySet
<1>5. Cardinality(hold[k]) \in Nat /\ (hold[k] # {} => Cardinality(hold[k]) # 0)
  BY <1>1, FS_CardinalityType, FS_EmptySet
<1>. HIDE DEF Waiters, ResultRef
<1>6. refs[k] = Cardinality(hold[k]) + Cardinality(Waiters(k)) + (IF ResultRef(k) THEN 1 ELSE 0)
  BY DEF RefInv
<1>. DEFINE a == Cardinality(hold[k])  b == Cardinality(Waiters(k))
<1>9. a \in Nat /\ b \in Nat
  BY <1>4, <1>5
<1>8. ResultRef(k) => refs[k] = a + b + 1
  BY <1>6
<1>7. refs[k] = a + b + 1 \/ refs[k] = a + b
  <2>1. CASE ResultRef(k)
    BY <1>8, <2>1
  <2>2. CASE ~ResultRef(k)
    <3>1. refs[k] = a + b + 0
      BY <1>6, <2>2
    <3>. HIDE DEF a, b
    <3>. QED BY <3>1, <1>9
  <2>. QED BY <2>1, <2>2
<1>10. (hold[k] # {} => a # 0) /\ (Waiters(k) # {} => b # 0)
  BY <1>4, <1>5
<1>. HIDE DEF a, b
<1>11. refs[k] \in Nat
  BY <1>7, <1>9
<1>12. a # 0 \/ b # 0 => refs[k] > 0
  BY <1>7, <1>9
<1>13. ResultRef(k) => refs[k] > 0
  BY <1>8, <1>9
<1>14. hold[k] # {} \/ Waiters(k) # {} \/ ResultRef(k) => refs[k] > 0
  BY <1>10, <1>12, <1>13
<1>. QED BY <1>1, <1>3, <1>4, <1>5, <1>11, <1>14

\* A frame gives its marks.
LEMMA MarkedBy ==
  ASSUME NEW x \in Frames, NEW m, NEW n, Has(FrameAt(x), m, n)
  PROVE  Marked(m, n)
BY DEF Marked

LEMMA TopMarked ==
  ASSUME Types, NEW t \in Threads, stack[t] # <<>>, NEW m, NEW n, Has(Top(t), m, n)
  PROVE  Marked(m, n)
BY TipTyped, MarkedBy

\* Marks that go together.
LEMMA MarkRules ==
  ASSUME TaskStateAssumption, Types, ShapeInv, NEW n \in Nodes
  PROVE  /\ Marked("pass", n) \/ Marked("arrived", n) => Marked("run", n)
         /\ Marked("give", n) => Marked("link", n)
         /\ Marked("come", n) => Marked("make", n[1])
         /\ Marked("link", n) => Marked("make", n[1])
BY HasRules, NodeTyped, Names, MarkedBy DEF Marked, AddPcs, ToCome, ShapeInv, Shape, ShapeOwn,
   ShapeMaking

\* Who settles a task makes it or runs a node of it.
LEMMA SettleRules ==
  ASSUME TaskStateAssumption, Types, ShapeInv, NEW k \in Tasks, Marked("settle", k)
  PROVE  Marked("make", k) \/ \E n \in Nodes : n[1] = k /\ Marked("run", n)
<1>1. PICK x \in Frames : Has(FrameAt(x), "settle", k)
  BY DEF Marked
<1>. DEFINE f == FrameAt(x)
<1>2. f.pc \in SettlerPcs /\ SubjectOf(f) = k /\ k # None /\ Shape(x[1], f) /\ f \in FrameSet
  BY <1>1, HasRules, Position DEF ShapeInv
<1>3. CASE f.making # None
  BY <1>2, <1>3, HasRules, MarkedBy DEF SubjectOf
<1>4. CASE f.making = None
  <2>1. ShapeOwn(x[1], f)
    BY <1>2, <1>4 DEF Shape
  <2>2. f.node # None /\ f.node \in Nodes /\ f.node[1] = k
    BY <1>2, <1>4, <2>1, FrameTyped DEF ShapeOwn, SubjectOf, UserPcs, SettlerPcs, SettlePcs, LeavePcs
  <2>. HIDE DEF f
  <2>3. Has(f, "run", f.node)
    BY <2>2, HasRules
  <2>. QED BY <2>2, <2>3, MarkedBy DEF f
<1>. QED BY <1>3, <1>4

LEMMA UnmadeMarks ==
  ASSUME TaskStateAssumption, Types, ShapeInv, Apart, NEW k \in Tasks, Unmade(k)
  PROVE  /\ ~Marked("make", k) /\ ~Marked("settle", k)
         /\ \A n \in Nodes : n[1] = k => \A m \in Marks \ {"make", "settle"} : ~Marked(m, n)
BY MarkRules, SettleRules, MarksAre DEF Unmade, Apart

\* The maker of a task has handles of it and of its predecessors; so has its call.
LEMMA MakerHolds ==
  ASSUME TaskStateAssumption, Types, ShapeInv, HandleInv, NEW k \in Tasks, Marked("make", k)
  PROVE  hold[k] # {} /\ \A i \in DOMAIN Pred[k] : hold[Pred[k][i]] # {}
<1>1. PICK x \in Frames : FrameAt(x).making = k /\ k # None
  BY HasRules DEF Marked
<1>2. Handles(x[1], FrameAt(x))
  BY DEF HandleInv
<1>. QED BY <1>1, <1>2 DEF Handles

LEMMA MakeFresh ==
  ASSUME TaskStateAssumption, RefsInv, NEW k \in Tasks, refs[k] = 0, cont[k] = None
  PROVE  Unmade(k)
<1>. USE DEF RefsInv
<1>1. hold[k] = {} /\ Waiters(k) = {} /\ ~ResultRef(k)
  BY RefsCount
<1>2. ~Marked("make", k)
  BY <1>1, MakerHolds
<1>3. Unmade(k) \/ Marked("make", k) \/ ResultRef(k) \/ cont[k] = Finished
  BY DEF StageInv
<1>. QED BY <1>1, <1>2, <1>3, Names

-----------------------------------------------------------------------------
(* The marks after each step.                                              *)

\* All marks but those of the set S stay as they are.
Unchanged(S) == \A m \in Marks \ S : Change(m, {}, {})

\* The marks of g are those of the uppermost frame of t, but for the set G of mark m; the others have
\* none of G.
LEMMA GainMark ==
  ASSUME Types, Once, NEW t \in Threads, stack[t] # <<>>, NEW g, Moves(t, g), NEW m \in Marks, NEW G,
         \A n \in Nodes \cup Tasks : Has(g, m, n) <=> n \in G \/ Has(Top(t), m, n),
         \A n \in Nodes \cup Tasks : n \in G => ~Marked(m, n)
  PROVE  /\ Change(m, G, {})
         /\ \A n \in Nodes \cup Tasks : Has(g, m, n) => Has(Top(t), m, n) \/ ~Marked(m, n)
BY ChangeMove

\* A frame in a program or a function is not marked but with its node.
LEMMA UserMarks ==
  ASSUME NEW f, NEW n, f.pc \in UserPcs, f.making = None
  PROVE  /\ ~Has(f, "make", n) /\ ~Has(f, "link", n) /\ ~Has(f, "give", n) /\ ~Has(f, "settle", n)
         /\ ~Has(f, "come", n) /\ ~Has(f, "arrived", n)
BY HasRules DEF UserPcs, AddPcs, SettlerPcs, SettlePcs, LeavePcs, ToCome, Own

\* The nodes of task k that a maker at place l has still to make, after node c or with it.
Coming(k, l, c) == {n \in Nodes : /\ n[1] = k
                                  /\ \/ l \in {"give", "load"} /\ n[2] > c[2]
                                     \/ l = "attach" /\ n[2] >= c[2]}

LEMMA MakingMarks ==
  ASSUME TaskStateAssumption, Types, ShapeInv, NodeInv, NEW t \in Threads, NEW k \in Tasks, Unmade(k),
         Top(t).pc = "user", Top(t).making = None,
         NEW g, NEW l \in {"give", "load", "store", "attach"}, NEW c, Steps(t, g, l, k, c, None, None),
         l # "store" => c \in Nodes /\ c[1] = k
  PROVE  /\ Once' /\ Unchanged({"make", "link", "give", "settle", "come"})
         /\ Change("make", {k}, {})
         /\ Change("link", IF l \in {"give", "load"} THEN {c} ELSE {}, {})
         /\ Change("give", IF l = "give" THEN {c} ELSE {}, {})
         /\ Change("settle", IF l = "store" THEN {k} ELSE {}, {})
         /\ Change("come", Coming(k, l, c), {})
<1>. DEFINE f == Top(t)
            come == Coming(k, l, c)
            link == IF l \in {"give", "load"} THEN {c} ELSE {}
            give == IF l = "give" THEN {c} ELSE {}
            settle == IF l = "store" THEN {k} ELSE {}
            D == Nodes \cup Tasks
<1>1. /\ stack[t] # <<>> /\ Moves(t, g) /\ g.node = f.node /\ g.pc = l /\ g.making = k /\ g.cur = c
      /\ k # None /\ None \notin D /\ Once /\ Apart
  BY Names DEF Steps, Is, NodeInv
<1>2. /\ ~Marked("make", k) /\ ~Marked("settle", k)
      /\ \A n \in Nodes : n[1] = k => \A m \in Marks \ {"make", "settle"} : ~Marked(m, n)
  BY <1>1, UnmadeMarks
<1>3. \A n : /\ ~Has(f, "make", n) /\ ~Has(f, "link", n) /\ ~Has(f, "give", n) /\ ~Has(f, "settle", n)
             /\ ~Has(f, "come", n) /\ ~Has(f, "arrived", n)
  BY UserMarks DEF UserPcs
<1>4. Own(f) = "user" /\ Own(g) = "user" /\ SubjectOf(g) = k
  BY <1>1 DEF Own, SubjectOf
<1>5. \A m \in {"run", "pass", "arrived"} : \A n \in D : Has(g, m, n) <=> Has(f, m, n)
  BY <1>1, <1>4, HasRules DEF Passed, Runner
<1>6. \A n \in D : Has(g, "make", n) <=> n \in {k} \/ Has(f, "make", n)
  BY <1>1, <1>3, HasRules
<1>7. \A n \in D : Has(g, "link", n) <=> n \in link \/ Has(f, "link", n)
  BY <1>1, <1>3, HasRules DEF AddPcs
<1>8. \A n \in D : Has(g, "give", n) <=> n \in give \/ Has(f, "give", n)
  BY <1>1, <1>3, HasRules
<1>9. \A n \in D : Has(g, "settle", n) <=> n \in settle \/ Has(f, "settle", n)
  BY <1>1, <1>3, <1>4, HasRules DEF SettlerPcs, SettlePcs, LeavePcs
<1>10. \A n \in D : Has(g, "come", n) <=> n \in come \/ Has(f, "come", n)
  BY <1>1, <1>3, HasRules DEF Coming, ToCome, AddPcs, ArrivePcs
<1>11. \A n \in D : /\ n \in {k} => ~Marked("make", n)
                    /\ n \in settle => ~Marked("settle", n)
                    /\ n \in link => ~Marked("link", n)
                    /\ n \in give => ~Marked("give", n)
                    /\ n \in come => ~Marked("come", n)
  BY <1>2, MarksAre DEF Coming
<1>. HIDE DEF f, come, link, give, settle, D
<1>12. \A m \in {"run", "pass", "arrived"} : Change(m, {}, {})
  <2>. TAKE m \in {"run", "pass", "arrived"}
  <2>1. \A n \in D : Has(g, m, n) <=> n \in {} \/ Has(f, m, n)
    BY <1>5
  <2>. QED BY <1>1, <2>1, GainMark, MarksAre DEF D, f
<1>13. /\ Change("make", {k}, {}) /\ Change("link", link, {}) /\ Change("give", give, {})
       /\ Change("settle", settle, {}) /\ Change("come", come, {})
  BY <1>1, <1>6, <1>7, <1>8, <1>9, <1>10, <1>11, GainMark, MarksAre DEF D, f
<1>14. Once'
  <2>1. \A m \in Marks : \A n \in D : Has(g, m, n) => Has(f, m, n) \/ ~Marked(m, n)
    BY <1>5, <1>6, <1>7, <1>8, <1>9, <1>10, <1>11, MarksAre
  <2>. QED BY <1>1, <2>1, OnceMove DEF D, f
<1>15. Unchanged({"make", "link", "give", "settle", "come"})
  BY <1>12, MarksAre DEF Unchanged
<1>. QED BY <1>13, <1>14, <1>15 DEF link, give, settle, come

\* A node runs in one frame only.
LEMMA RunOnly ==
  ASSUME TaskStateAssumption, Types, Once, NEW t \in Threads, stack[t] # <<>>, Top(t).node # None
  PROVE  /\ Top(t).node \in Nodes /\ Marked("run", Top(t).node)
         /\ \A y \in Frames : FrameAt(y).node = Top(t).node => y = Tip(t)
         /\ \A m \in {"pass", "arrived"} : ~Has(Top(t), m, Top(t).node) => ~Marked(m, Top(t).node)
<1>. DEFINE n == Top(t).node
<1>1. n \in Nodes /\ Tip(t) \in Frames /\ FrameAt(Tip(t)) = Top(t)
  BY TipTyped, FrameTyped
<1>2. Has(Top(t), "run", n)
  BY HasRules
<1>3. ASSUME NEW y \in Frames, FrameAt(y).node = n PROVE y = Tip(t)
  <2>1. Has(FrameAt(y), "run", n)
    BY <1>3, HasRules
  <2>. HIDE DEF n
  <2>. QED BY <1>1, <1>2, <2>1, MarksAre DEF Once
<1>4. ASSUME NEW m \in {"pass", "arrived"}, NEW y \in Frames, Has(FrameAt(y), m, n) PROVE y = Tip(t)
  <2>1. FrameAt(y).node = n
    BY <1>4, HasRules
  <2>. QED BY <1>3, <2>1
<1>5. \A m \in {"pass", "arrived"} : ~Has(Top(t), m, n) => ~Marked(m, n)
  BY <1>1, <1>4 DEF Marked
<1>. QED BY <1>1, <1>2, <1>3, <1>5, TopMarked

LEMMA AttachMarks ==
  ASSUME TaskStateAssumption, Types, ShapeInv, NodeInv, NEW t \in Threads, Top(t).pc = "attach",
         NEW g, Steps(t, g, "load", Top(t).making, Top(t).cur, None, Top(t).exc)
  PROVE  /\ Once' /\ Unchanged({"link", "come"})
         /\ Change("link", {Top(t).cur}, {}) /\ Change("come", {}, {Top(t).cur})
         /\ Marked("come", Top(t).cur)
<1>. DEFINE f == Top(t)  c == Top(t).cur  D == Nodes \cup Tasks
<1>1. /\ stack[t] # <<>> /\ Moves(t, g) /\ g.node = f.node /\ g.pc = "load" /\ g.making = f.making /\ g.cur = c
      /\ None \notin D /\ Once /\ Apart /\ f.pc = "attach"
  BY Names DEF Steps, Is, NodeInv
<1>2. f.making \in Tasks /\ c \in Nodes /\ c[1] = f.making /\ c # None /\ f.making # None
  BY <1>1, AddTop DEF AddPcs, ArrivePcs
<1>3. ToCome(f, c)
  <2>1. c[2] >= c[2]
    BY <1>2, NodeTyped
  <2>. HIDE DEF c
  <2>. QED BY <1>1, <1>2, <2>1 DEF ToCome, c
<1>4. Marked("come", c)
  BY <1>1, <1>2, <1>3, HasRules, TopMarked
<1>5. ~Marked("link", c)
  BY <1>1, <1>2, <1>4 DEF Apart
<1>6. Own(g) = Own(f) /\ SubjectOf(g) = SubjectOf(f)
  BY <1>1, <1>2 DEF Own, SubjectOf
<1>7. \A m \in {"run", "make", "pass", "arrived", "give", "settle"} : \A n \in D : Has(g, m, n) <=> Has(f, m, n)
  BY <1>1, <1>6, HasRules DEF Passed, Runner, SettlerPcs, SettlePcs, LeavePcs
<1>8. \A n \in D : Has(g, "link", n) <=> n \in {c} \/ Has(f, "link", n)
  BY <1>1, <1>2, HasRules DEF AddPcs
<1>9. ASSUME NEW n \in D
      PROVE  /\ Has(g, "come", n) <=> n \in {} \/ (Has(f, "come", n) /\ n \notin {c})
             /\ n \in {c} => Has(f, "come", n)
  <2>1. n \in Nodes /\ n[1] = c[1] => (n[2] > c[2] <=> n[2] >= c[2] /\ n # c)
    BY <1>2, NodeTyped
  <2>2. ToCome(g, n) <=> n \in Nodes /\ n[1] = f.making /\ n[2] > c[2]
    BY <1>1, <1>2 DEF ToCome, AddPcs, ArrivePcs
  <2>3. ToCome(f, n) <=> n \in Nodes /\ n[1] = f.making /\ n[2] >= c[2]
    BY <1>1, <1>2 DEF ToCome, AddPcs, ArrivePcs
  <2>4. ToCome(g, n) <=> ToCome(f, n) /\ n # c
    BY <2>1, <2>2, <2>3, <1>2
  <2>. HIDE DEF c, f
  <2>. QED BY <1>1, <1>3, <2>4, HasRules
<1>. HIDE DEF f, c, D
<1>10. \A m \in {"run", "make", "pass", "arrived", "give", "settle"} : Change(m, {}, {})
  <2>. TAKE m \in {"run", "make", "pass", "arrived", "give", "settle"}
  <2>1. \A n \in D : Has(g, m, n) <=> n \in {} \/ Has(f, m, n)
    BY <1>7
  <2>. QED BY <1>1, <2>1, GainMark, MarksAre DEF D, f
<1>11. Change("link", {c}, {})
  BY <1>1, <1>5, <1>8, GainMark, MarksAre DEF D, f
<1>12. Change("come", {}, {c})
  BY <1>1, <1>9, ChangeMove, MarksAre DEF D, f
<1>13. Once'
  BY <1>5, <1>7, <1>8, <1>9, MarksAre, <1>1, OnceMove DEF D, f
<1>14. Unchanged({"link", "come"})
  BY <1>10, MarksAre DEF Unchanged
<1>. QED BY <1>4, <1>11, <1>12, <1>13, <1>14 DEF c

\* A node whose predecessor turns out to be complete is given to the scheduler.
LEMMA GivenMarks ==
  ASSUME TaskStateAssumption, Types, ShapeInv, NodeInv, NEW t \in Threads, Top(t).pc \in {"load", "cas"},
         NEW g, Steps(t, g, "give", Top(t).making, Top(t).cur, None, Top(t).exc)
  PROVE  Once' /\ Unchanged({"give"}) /\ Change("give", {Top(t).cur}, {})
<1>. DEFINE f == Top(t)  c == Top(t).cur  D == Nodes \cup Tasks
<1>1. /\ stack[t] # <<>> /\ Moves(t, g) /\ g.node = f.node /\ g.pc = "give" /\ g.making = f.making /\ g.cur = c
      /\ None \notin D /\ Once /\ f.pc \in {"load", "cas"}
  BY Names DEF Steps, Is, NodeInv
<1>2. f.making \in Tasks /\ c \in Nodes /\ c # None /\ f.making # None
  BY <1>1, AddTop DEF AddPcs, ArrivePcs
<1>3. Own(g) = Own(f) /\ SubjectOf(g) = SubjectOf(f)
  BY <1>1, <1>2 DEF Own, SubjectOf
<1>4. \A m \in {"run", "make", "pass", "arrived", "link", "settle", "come"} : \A n \in D :
        Has(g, m, n) <=> Has(f, m, n)
  BY <1>1, <1>3, HasRules DEF Passed, Runner, SettlerPcs, SettlePcs, LeavePcs, AddPcs, ArrivePcs, ToCome
<1>5. \A n \in D : Has(g, "give", n) <=> n \in {c} \/ Has(f, "give", n)
  BY <1>1, <1>2, HasRules
<1>6. ~Marked("give", c)
  <2>1. SUFFICES ASSUME NEW y \in Frames, Has(FrameAt(y), "give", c) PROVE FALSE
    BY DEF Marked
  <2>2. Has(FrameAt(y), "link", c) /\ Has(f, "link", c)
    BY <1>1, <1>2, <2>1, HasRules DEF AddPcs
  <2>3. y = Tip(t) /\ FrameAt(y) = f
    BY <1>1, <1>2, <2>2, TipTyped, MarksAre DEF Once
  <2>. QED BY <1>1, <2>1, <2>3, HasRules
<1>. HIDE DEF f, c, D
<1>7. \A m \in {"run", "make", "pass", "arrived", "link", "settle", "come"} : Change(m, {}, {})
  <2>. TAKE m \in {"run", "make", "pass", "arrived", "link", "settle", "come"}
  <2>1. \A n \in D : Has(g, m, n) <=> n \in {} \/ Has(f, m, n)
    BY <1>4
  <2>. QED BY <1>1, <2>1, GainMark, MarksAre DEF D, f
<1>8. Change("give", {c}, {})
  BY <1>1, <1>5, <1>6, GainMark, MarksAre DEF D, f
<1>9. Once'
  BY <1>4, <1>5, <1>6, MarksAre, <1>1, OnceMove DEF D, f
<1>10. Unchanged({"give"})
  BY <1>7, MarksAre DEF Unchanged
<1>. QED BY <1>8, <1>9, <1>10 DEF c

\* The node has been linked or given, and the maker goes on or is done.
LEMMA LinkedMarks ==
  ASSUME TaskStateAssumption, Types, ShapeInv, NodeInv, NEW t \in Threads, Top(t).pc \in {"cas", "give"},
         NEW g,
         \/ More(Top(t)) /\ Steps(t, g, "attach", Top(t).making, <<Top(t).cur[1], Top(t).cur[2] + 1>>, None, Top(t).exc)
         \/ ~More(Top(t)) /\ Steps(t, g, "user", None, None, None, None)
  PROVE  /\ Once' /\ Unchanged({"make", "link", "give"})
         /\ Change("link", {}, {Top(t).cur})
         /\ Change("give", {}, IF Top(t).pc = "give" THEN {Top(t).cur} ELSE {})
         /\ Change("make", {}, IF More(Top(t)) THEN {} ELSE {Top(t).making})
<1>. DEFINE f == Top(t)  c == Top(t).cur  D == Nodes \cup Tasks
            give == IF Top(t).pc = "give" THEN {Top(t).cur} ELSE {}
            make == IF More(Top(t)) THEN {} ELSE {Top(t).making}
<1>1. /\ stack[t] # <<>> /\ Moves(t, g) /\ g.node = f.node
      /\ None \notin D /\ Once /\ f.pc \in {"cas", "give"}
      /\ More(f) => g.pc = "attach" /\ g.making = f.making /\ g.cur = <<c[1], c[2] + 1>>
      /\ ~More(f) => g.pc = "user" /\ g.making = None /\ g.cur = None
  BY Names DEF Steps, Is, NodeInv
<1>2. f.making \in Tasks /\ c \in Nodes /\ c # None /\ f.making # None /\ c[1] = f.making
      /\ Kind[f.making] \in {"produce", "then", "all"}
  BY <1>1, AddTop DEF AddPcs, ArrivePcs
<1>3. Own(g) = "user" /\ Own(f) = "user"
  BY <1>1, <1>2 DEF Own
<1>4. \A m \in {"run", "pass", "arrived"} : \A n \in D : Has(g, m, n) <=> Has(f, m, n)
  BY <1>1, <1>3, HasRules DEF Passed, Runner
<1>5. \A n \in D : ~Has(g, "settle", n) /\ ~Has(f, "settle", n)
  BY <1>1, HasRules DEF SettlerPcs, SettlePcs, LeavePcs
<1>6. \A n \in D : /\ Has(g, "link", n) <=> n \in {} \/ (Has(f, "link", n) /\ n \notin {c})
                   /\ n \in {c} => Has(f, "link", n)
  BY <1>1, <1>2, HasRules DEF AddPcs
<1>7. \A n \in D : /\ Has(g, "give", n) <=> n \in {} \/ (Has(f, "give", n) /\ n \notin give)
                   /\ n \in give => Has(f, "give", n)
  BY <1>1, <1>2, HasRules
<1>8. \A n \in D : /\ Has(g, "make", n) <=> n \in {} \/ (Has(f, "make", n) /\ n \notin make)
                   /\ n \in make => Has(f, "make", n)
  BY <1>1, <1>2, HasRules
<1>9. ASSUME NEW n \in D PROVE Has(g, "come", n) <=> Has(f, "come", n)
  <2>1. ToCome(f, n) <=> n \in Nodes /\ n[1] = f.making /\ n[2] > c[2]
    BY <1>1, <1>2 DEF ToCome, AddPcs, ArrivePcs
  <2>2. ASSUME More(f) PROVE ToCome(g, n) <=> ToCome(f, n)
    BY <1>1, <2>2, <1>2, NodeTyped, <2>1 DEF ToCome, AddPcs, ArrivePcs
  <2>3. ASSUME ~More(f) PROVE ~ToCome(g, n) /\ ~ToCome(f, n)
    <3>1. ~ToCome(g, n)
      BY <1>1, <2>3 DEF ToCome
    <3>2. SUFFICES ASSUME n \in Nodes, n[1] = f.making, n[2] > c[2] PROVE FALSE
      BY <2>1, <3>1
    <3>3. n[2] \in Places(f.making) /\ n[2] \in Nat /\ c[2] \in Nat \ {0} /\ Len(Pred[f.making]) \in Nat
      BY <1>2, <3>2, NodeTyped DEF TaskStateAssumption
    <3>4. Kind[f.making] = "all"
      BY <1>2, <3>2, <3>3, NodeTyped
    <3>5. ~(c[2] < Len(Pred[f.making]))
      BY <1>2, <2>3, <3>4 DEF More
    <3>. QED BY <3>2, <3>3, <3>4, <3>5 DEF Places
  <2>. HIDE DEF f
  <2>. QED BY <2>2, <2>3, HasRules
<1>. HIDE DEF f, c, D, give, make
<1>10. \A m \in {"run", "pass", "arrived", "settle", "come"} : Change(m, {}, {})
  <2>. TAKE m \in {"run", "pass", "arrived", "settle", "come"}
  <2>1. \A n \in D : Has(g, m, n) <=> n \in {} \/ Has(f, m, n)
    BY <1>4, <1>5, <1>9
  <2>. QED BY <1>1, <2>1, GainMark, MarksAre DEF D, f
<1>11. Change("link", {}, {c})
  BY <1>1, <1>6, ChangeMove, MarksAre DEF D, f
<1>12. Change("give", {}, give)
  BY <1>1, <1>7, ChangeMove, MarksAre DEF D, f
<1>13. Change("make", {}, make)
  BY <1>1, <1>8, ChangeMove, MarksAre DEF D, f
<1>14. Once'
  BY <1>4, <1>5, <1>6, <1>7, <1>8, <1>9, MarksAre, <1>1, OnceMove DEF D, f
<1>15. Unchanged({"make", "link", "give"})
  BY <1>10, MarksAre DEF Unchanged
<1>. QED BY <1>11, <1>12, <1>13, <1>14, <1>15 DEF c, give, make

LEMMA TakeMarks ==
  ASSUME TaskStateAssumption, Types, NodeInv, NEW t \in Threads, NEW n \in queued,
         Pushes(t, Frame(n, IF Kind[n[1]] = "produce" THEN "user" ELSE "look"))
  PROVE  Once' /\ Unchanged({"run"}) /\ Change("run", {n}, {})
<1>. DEFINE g == Frame(n, IF Kind[n[1]] = "produce" THEN "user" ELSE "look")  D == Nodes \cup Tasks
<1>1. n \in Nodes /\ n # None /\ n[1] \in Tasks /\ Once /\ Apart
  BY NodeTyped, Names DEF Types, NodeInv
<1>2. g.node = n /\ g.making = None /\ g.cur = None /\ g.pc = IF Kind[n[1]] = "produce" THEN "user" ELSE "look"
  BY DEF Frame
<1>3. ~Passed(g) /\ Own(g) \notin SettlerPcs
  BY <1>2 DEF Passed, Own, Runner, SettlerPcs, SettlePcs, LeavePcs
<1>4. \A m \in Marks \ {"run"} : \A i \in D : ~Has(g, m, i)
  BY <1>2, <1>3, HasRules, MarksAre DEF AddPcs, ToCome, SettlerPcs, SettlePcs, LeavePcs
<1>5. \A i \in D : Has(g, "run", i) <=> i = n
  BY <1>1, <1>2, HasRules
<1>6. ~Marked("run", n)
  BY <1>1 DEF Apart
<1>7. Pushes(t, g)
  OBVIOUS
<1>. HIDE DEF g, D
<1>8. \A m \in Marks : \A i \in D : Has(g, m, i) => ~Marked(m, i)
  BY <1>4, <1>5, <1>6
<1>9. Once' /\ \A m \in Marks : Change(m, {i \in D : Has(g, m, i)}, {})
  BY <1>1, <1>7, <1>8, ChangePush DEF D
<1>10. {i \in D : Has(g, "run", i)} = {n}
  BY <1>1, <1>5 DEF D
<1>11. \A m \in Marks \ {"run"} : {i \in D : Has(g, m, i)} = {}
  BY <1>4
<1>. QED BY <1>9, <1>10, <1>11, MarksAre DEF Unchanged

\* The frame that runs a node of submit_task or then is the only one that settles its task.
LEMMA NotSettled ==
  ASSUME TaskStateAssumption, Types, ShapeInv, Once, NEW t \in Threads, stack[t] # <<>>,
         Top(t).node # None, Kind[Top(t).node[1]] # "all", ~Has(Top(t), "settle", Top(t).node[1])
  PROVE  ~Marked("settle", Top(t).node[1])
<1>. DEFINE n == Top(t).node  k == Top(t).node[1]
<1>1. n \in Nodes /\ n = <<k, 1>> /\ k \in Tasks /\ \A y \in Frames : FrameAt(y).node = n => y = Tip(t)
  BY RunOnly, NodeTyped
<1>2. SUFFICES ASSUME NEW y \in Frames, Has(FrameAt(y), "settle", k) PROVE FALSE
  BY DEF Marked
<1>. DEFINE h == FrameAt(y)
<1>3. h.pc \in SettlerPcs /\ SubjectOf(h) = k /\ Shape(y[1], h) /\ h \in FrameSet
  BY <1>2, HasRules, Position DEF ShapeInv
<1>4. h.making = None
  <2>1. SUFFICES ASSUME h.making # None PROVE FALSE
    OBVIOUS
  <2>2. h.making = k /\ h.pc \in MakerPcs(k)
    BY <1>3, <2>1 DEF SubjectOf, Shape, ShapeMaking
  <2>3. Kind[k] \in {"produce", "then"}
    BY <1>1 DEF TaskStateAssumption
  <2>. QED BY <1>3, <2>2, <2>3 DEF MakerPcs, SettlerPcs, SettlePcs, LeavePcs, AddPcs
<1>5. h.node # None /\ h.node[1] = k /\ h.node \in Nodes
  BY <1>3, <1>4, FrameTyped DEF Shape, ShapeOwn, SubjectOf, UserPcs, SettlerPcs, SettlePcs, LeavePcs
<1>6. h.node = n
  BY <1>1, <1>5, NodeTyped
<1>7. h = Top(t)
  BY <1>1, <1>6, TipTyped
<1>. QED BY <1>2, <1>7

LEMMA EndMarks ==
  ASSUME TaskStateAssumption, Types, ShapeInv, Once, NEW t \in Threads,
         Top(t).pc \in {"look", "user", "arrive"}, Top(t).making = None, Top(t).node # None,
         Top(t).pc = "look" => Kind[Top(t).node[1]] # "all",
         ~Marked("settle", Top(t).node[1]),
         NEW g, NEW c, NEW e, Steps(t, g, "store", None, c, None, e)
  PROVE  /\ Once' /\ Unchanged({"arrived", "settle"})
         /\ Change("arrived", {Top(t).node}, {}) /\ Change("settle", {Top(t).node[1]}, {})
<1>. DEFINE f == Top(t)  n == Top(t).node  k == Top(t).node[1]  D == Nodes \cup Tasks
<1>1. /\ stack[t] # <<>> /\ Moves(t, g) /\ g.node = n /\ g.pc = "store" /\ g.making = None
      /\ None \notin D /\ f.pc \in {"look", "user", "arrive"} /\ f.making = None /\ f.node = n /\ n # None
  BY Names DEF Steps, Is
<1>2. Own(g) = "store" /\ Own(f) = f.pc /\ SubjectOf(g) = k /\ n \in Nodes /\ k \in Tasks
  BY <1>1, RunOnly, NodeTyped DEF Own, SubjectOf
<1>3. Passed(g) <=> Passed(f)
  BY <1>1, <1>2 DEF Passed, Runner
<1>4. \A m \in {"run", "make", "link", "give", "pass", "come"} : \A i \in D : Has(g, m, i) <=> Has(f, m, i)
  BY <1>1, <1>3, HasRules DEF AddPcs, ToCome
<1>5. \A i \in D : Has(g, "arrived", i) <=> i \in {n} \/ Has(f, "arrived", i)
  BY <1>1, <1>2, HasRules DEF SettlerPcs, SettlePcs, LeavePcs
<1>6. \A i \in D : Has(g, "settle", i) <=> i \in {k} \/ Has(f, "settle", i)
  BY <1>1, <1>2, HasRules DEF SettlerPcs, SettlePcs, LeavePcs
<1>7. ~Marked("arrived", n)
  <2>1. ~Has(f, "arrived", n)
    BY <1>1, <1>2, HasRules DEF SettlerPcs, SettlePcs, LeavePcs
  <2>. QED BY <1>1, <2>1, RunOnly
<1>8. ~Marked("settle", k)
  OBVIOUS
<1>. HIDE DEF f, n, k, D
<1>9. \A m \in {"run", "make", "link", "give", "pass", "come"} : Change(m, {}, {})
  <2>. TAKE m \in {"run", "make", "link", "give", "pass", "come"}
  <2>1. \A i \in D : Has(g, m, i) <=> i \in {} \/ Has(f, m, i)
    BY <1>4
  <2>. QED BY <1>1, <2>1, GainMark, MarksAre DEF D, f
<1>10. Change("arrived", {n}, {}) /\ Change("settle", {k}, {})
  BY <1>1, <1>5, <1>6, <1>7, <1>8, GainMark, MarksAre DEF D, f
<1>11. Once'
  BY <1>4, <1>5, <1>6, <1>7, <1>8, MarksAre, <1>1, OnceMove DEF D, f
<1>12. Unchanged({"arrived", "settle"})
  BY <1>9, MarksAre DEF Unchanged
<1>. QED BY <1>10, <1>11, <1>12 DEF n, k

\* A then has settled its task, and releases its predecessor ...
LEMMA LeaveMarks ==
  ASSUME TaskStateAssumption, Types, ShapeInv, Once, NEW t \in Threads,
         Top(t).pc = "schedule", Top(t).making = None,
         NEW g, NEW c, NEW e, Steps(t, g, "release_pred", None, c, None, e),
         Kind[SubjectOf(Top(t))] = "then"
  PROVE  /\ Once' /\ Unchanged({"arrived", "settle"})
         /\ Change("arrived", {}, {Top(t).node}) /\ Change("settle", {}, {Top(t).node[1]})
<1>. DEFINE f == Top(t)  n == Top(t).node  k == Top(t).node[1]  D == Nodes \cup Tasks
<1>1. /\ stack[t] # <<>> /\ Moves(t, g) /\ g.node = n /\ g.pc = "release_pred" /\ g.making = None
      /\ None \notin D /\ f.pc = "schedule" /\ f.making = None /\ f.node = n
  BY Names DEF Steps, Is
<1>2. Own(g) = "release_pred" /\ Own(f) = "schedule" /\ SubjectOf(f) = k /\ n \in Nodes /\ k \in Tasks
      /\ n # None /\ Kind[k] = "then"
  BY <1>1, NodeTop DEF Own, SubjectOf, UserPcs
<1>3. Passed(g) <=> Passed(f)
  BY <1>1, <1>2 DEF Passed, Runner
<1>4. \A m \in {"run", "make", "link", "give", "pass", "come"} : \A i \in D : Has(g, m, i) <=> Has(f, m, i)
  BY <1>1, <1>3, HasRules DEF AddPcs, ToCome
<1>5. \A i \in D : /\ Has(g, "arrived", i) <=> i \in {} \/ (Has(f, "arrived", i) /\ i \notin {n})
                   /\ i \in {n} => Has(f, "arrived", i)
  BY <1>1, <1>2, HasRules DEF SettlerPcs, SettlePcs, LeavePcs
<1>6. \A i \in D : /\ Has(g, "settle", i) <=> i \in {} \/ (Has(f, "settle", i) /\ i \notin {k})
                   /\ i \in {k} => Has(f, "settle", i)
  BY <1>1, <1>2, HasRules DEF SettlerPcs, SettlePcs, LeavePcs
<1>. HIDE DEF f, n, k, D
<1>9. \A m \in {"run", "make", "link", "give", "pass", "come"} : Change(m, {}, {})
  <2>. TAKE m \in {"run", "make", "link", "give", "pass", "come"}
  <2>1. \A i \in D : Has(g, m, i) <=> i \in {} \/ Has(f, m, i)
    BY <1>4
  <2>. QED BY <1>1, <2>1, GainMark, MarksAre DEF D, f
<1>10. Change("arrived", {}, {n}) /\ Change("settle", {}, {k})
  BY <1>1, <1>5, <1>6, ChangeMove, MarksAre DEF D, f
<1>11. Once'
  BY <1>4, <1>5, <1>6, MarksAre, <1>1, OnceMove DEF D, f
<1>12. Unchanged({"arrived", "settle"})
  BY <1>9, MarksAre DEF Unchanged
<1>. QED BY <1>10, <1>11, <1>12 DEF n, k

\* ... and then its result.
LEMMA PassThenMarks ==
  ASSUME TaskStateAssumption, Types, ShapeInv, Once, NEW t \in Threads,
         Top(t).pc = "release_pred", Top(t).making = None, Kind[Top(t).node[1]] = "then",
         NEW g, NEW c, NEW e, Steps(t, g, "release_result", None, c, None, e)
  PROVE  /\ Once' /\ Unchanged({"pass", "arrived", "settle"})
         /\ Change("pass", {Top(t).node}, {}) /\ Change("arrived", {Top(t).node}, {})
         /\ Change("settle", {Top(t).node[1]}, {}) /\ ~Marked("pass", Top(t).node)
<1>. DEFINE f == Top(t)  n == Top(t).node  k == Top(t).node[1]  D == Nodes \cup Tasks
<1>1. /\ stack[t] # <<>> /\ Moves(t, g) /\ g.node = n /\ g.pc = "release_result" /\ g.making = None
      /\ None \notin D /\ f.pc = "release_pred" /\ f.making = None /\ f.node = n
  BY Names DEF Steps, Is
<1>2. Own(g) = "release_result" /\ Own(f) = "release_pred" /\ SubjectOf(g) = k /\ n \in Nodes /\ k \in Tasks
      /\ n # None /\ Kind[k] = "then"
  BY <1>1, NodeTop DEF Own, SubjectOf, UserPcs
<1>3. Passed(g) /\ ~Passed(f)
  BY <1>1, <1>2 DEF Passed, Runner
<1>4. \A m \in {"run", "make", "link", "give", "come"} : \A i \in D : Has(g, m, i) <=> Has(f, m, i)
  BY <1>1, HasRules DEF AddPcs, ToCome
<1>5. \A i \in D : Has(g, "arrived", i) <=> i \in {n} \/ Has(f, "arrived", i)
  BY <1>1, <1>2, HasRules DEF SettlerPcs, SettlePcs, LeavePcs
<1>6. \A i \in D : Has(g, "settle", i) <=> i \in {k} \/ Has(f, "settle", i)
  BY <1>1, <1>2, HasRules DEF SettlerPcs, SettlePcs, LeavePcs
<1>7. \A i \in D : Has(g, "pass", i) <=> i \in {n} \/ Has(f, "pass", i)
  BY <1>1, <1>2, <1>3, HasRules
<1>8. ~Marked("arrived", n) /\ ~Marked("pass", n) /\ ~Marked("settle", k)
  BY <1>1, <1>2, <1>3, HasRules, RunOnly, NotSettled DEF SettlerPcs, SettlePcs, LeavePcs
<1>. HIDE DEF f, n, k, D
<1>9. \A m \in {"run", "make", "link", "give", "come"} : Change(m, {}, {})
  <2>. TAKE m \in {"run", "make", "link", "give", "come"}
  <2>1. \A i \in D : Has(g, m, i) <=> i \in {} \/ Has(f, m, i)
    BY <1>4
  <2>. QED BY <1>1, <2>1, GainMark, MarksAre DEF D, f
<1>10. Change("arrived", {n}, {}) /\ Change("settle", {k}, {}) /\ Change("pass", {n}, {})
  BY <1>1, <1>5, <1>6, <1>7, <1>8, GainMark, MarksAre DEF D, f
<1>11. Once'
  BY <1>4, <1>5, <1>6, <1>7, <1>8, MarksAre, <1>1, OnceMove DEF D, f
<1>12. Unchanged({"pass", "arrived", "settle"})
  BY <1>9, MarksAre DEF Unchanged
<1>. QED BY <1>8, <1>10, <1>11, <1>12 DEF n, k

\* A node of a when_all has released its task.
LEMMA PassAllMarks ==
  ASSUME TaskStateAssumption, Types, ShapeInv, Once, NEW t \in Threads,
         Top(t).pc = "release_pred", Top(t).making = None, Kind[Top(t).node[1]] = "all",
         NEW g, NEW l \in {"claim", "arrive"}, NEW c, NEW e, Steps(t, g, l, None, c, None, e)
  PROVE  /\ Once' /\ Unchanged({"pass"}) /\ Change("pass", {Top(t).node}, {}) /\ ~Marked("pass", Top(t).node)
<1>. DEFINE f == Top(t)  n == Top(t).node  k == Top(t).node[1]  D == Nodes \cup Tasks
<1>1. /\ stack[t] # <<>> /\ Moves(t, g) /\ g.node = n /\ g.pc = l /\ g.making = None
      /\ None \notin D /\ f.pc = "release_pred" /\ f.making = None /\ f.node = n
  BY Names DEF Steps, Is
<1>2. Own(g) = l /\ Own(f) = "release_pred" /\ n \in Nodes /\ n # None /\ Kind[k] = "all"
  BY <1>1, NodeTop DEF Own, SubjectOf, UserPcs
<1>3. Passed(g) /\ ~Passed(f)
  BY <1>1, <1>2 DEF Passed, Runner
<1>4. \A m \in {"run", "make", "link", "give", "come", "arrived", "settle"} : \A i \in D :
        Has(g, m, i) <=> Has(f, m, i)
  BY <1>1, <1>2, HasRules DEF AddPcs, ToCome, SettlerPcs, SettlePcs, LeavePcs
<1>7. \A i \in D : Has(g, "pass", i) <=> i \in {n} \/ Has(f, "pass", i)
  BY <1>1, <1>2, <1>3, HasRules
<1>8. ~Marked("pass", n)
  <2>1. ~Has(f, "pass", n)
    BY <1>3, HasRules
  <2>. QED BY <1>1, <1>2, <2>1, RunOnly
<1>. HIDE DEF f, n, k, D
<1>9. \A m \in {"run", "make", "link", "give", "come", "arrived", "settle"} : Change(m, {}, {})
  <2>. TAKE m \in {"run", "make", "link", "give", "come", "arrived", "settle"}
  <2>1. \A i \in D : Has(g, m, i) <=> i \in {} \/ Has(f, m, i)
    BY <1>4
  <2>. QED BY <1>1, <2>1, GainMark, MarksAre DEF D, f
<1>10. Change("pass", {n}, {})
  BY <1>1, <1>7, <1>8, GainMark, MarksAre DEF D, f
<1>11. Once'
  BY <1>4, <1>7, <1>8, MarksAre, <1>1, OnceMove DEF D, f
<1>12. Unchanged({"pass"})
  BY <1>9, MarksAre DEF Unchanged
<1>. QED BY <1>8, <1>10, <1>11, <1>12 DEF n

\* The maker of a when_all that arrives for the nodes it could not make: as the last one ...
LEMMA MakerSettleMarks ==
  ASSUME TaskStateAssumption, Types, ShapeInv, Once, NEW t \in Threads,
         Top(t).pc = "arrive", Top(t).making # None, ~Marked("settle", Top(t).making),
         NEW g, NEW e, Steps(t, g, "store", Top(t).making, Top(t).cur, None, e)
  PROVE  /\ Once' /\ Unchanged({"settle", "come"})
         /\ Change("settle", {Top(t).making}, {})
         /\ Change("come", {}, {n \in Nodes : n[1] = Top(t).making /\ n[2] >= Top(t).cur[2]})
<1>. DEFINE f == Top(t)  c == Top(t).cur  k == Top(t).making  D == Nodes \cup Tasks
            come == {n \in Nodes : n[1] = Top(t).making /\ n[2] >= Top(t).cur[2]}
<1>1. /\ stack[t] # <<>> /\ Moves(t, g) /\ g.node = f.node /\ g.pc = "store" /\ g.making = k
      /\ None \notin D /\ f.pc = "arrive" /\ f.making = k /\ k # None /\ f.cur = c
  BY Names DEF Steps, Is
<1>2. Own(g) = "user" /\ Own(f) = "user" /\ SubjectOf(g) = k /\ k \in Tasks
  BY <1>1, AddTop DEF Own, SubjectOf, ArrivePcs
<1>3. Passed(g) <=> Passed(f)
  BY <1>1, <1>2 DEF Passed, Runner
<1>4. \A m \in {"run", "make", "link", "give", "pass", "arrived"} : \A i \in D : Has(g, m, i) <=> Has(f, m, i)
  BY <1>1, <1>2, <1>3, HasRules DEF AddPcs
<1>5. \A i \in D : Has(g, "settle", i) <=> i \in {k} \/ Has(f, "settle", i)
  BY <1>1, <1>2, HasRules DEF SettlerPcs, SettlePcs, LeavePcs
<1>6. \A i \in D : /\ Has(g, "come", i) <=> i \in {} \/ (Has(f, "come", i) /\ i \notin come)
                   /\ i \in come => Has(f, "come", i)
  BY <1>1, HasRules DEF ToCome, ArrivePcs, AddPcs
<1>7. ~Marked("settle", k)
  OBVIOUS
<1>. HIDE DEF f, c, k, D, come
<1>9. \A m \in {"run", "make", "link", "give", "pass", "arrived"} : Change(m, {}, {})
  <2>. TAKE m \in {"run", "make", "link", "give", "pass", "arrived"}
  <2>1. \A i \in D : Has(g, m, i) <=> i \in {} \/ Has(f, m, i)
    BY <1>4
  <2>. QED BY <1>1, <2>1, GainMark, MarksAre DEF D, f
<1>10. Change("settle", {k}, {})
  BY <1>1, <1>5, <1>7, GainMark, MarksAre DEF D, f
<1>11. Change("come", {}, come)
  BY <1>1, <1>6, ChangeMove, MarksAre DEF D, f
<1>12. Once'
  BY <1>4, <1>5, <1>6, <1>7, MarksAre, <1>1, OnceMove DEF D, f
<1>13. Unchanged({"settle", "come"})
  BY <1>9, MarksAre DEF Unchanged
<1>. QED BY <1>10, <1>11, <1>12, <1>13 DEF k, come

\* ... for one of them, with more to come ...
LEMMA MakerNextMarks ==
  ASSUME TaskStateAssumption, Types, ShapeInv, Once, NEW t \in Threads,
         Top(t).pc = "arrive", More(Top(t)),
         NEW g, NEW e, Steps(t, g, "claim", Top(t).making, <<Top(t).cur[1], Top(t).cur[2] + 1>>, None, e)
  PROVE  /\ Once' /\ Unchanged({"come"})
         /\ Change("come", {}, {Top(t).cur}) /\ Marked("come", Top(t).cur)
<1>. DEFINE f == Top(t)  c == Top(t).cur  k == Top(t).making  D == Nodes \cup Tasks
<1>1. /\ stack[t] # <<>> /\ Moves(t, g) /\ g.node = f.node /\ g.pc = "claim" /\ g.making = k
      /\ None \notin D /\ f.pc = "arrive" /\ f.making = k /\ k # None /\ f.cur = c
      /\ g.cur = <<c[1], c[2] + 1>>
  BY Names DEF Steps, Is, More
<1>2. Own(g) = "user" /\ Own(f) = "user" /\ k \in Tasks /\ c \in Nodes /\ c[1] = k /\ c # None
  BY <1>1, AddTop DEF Own, ArrivePcs
<1>3. Passed(g) <=> Passed(f)
  BY <1>1, <1>2 DEF Passed, Runner
<1>4. \A m \in {"run", "make", "link", "give", "pass", "arrived", "settle"} : \A i \in D :
        Has(g, m, i) <=> Has(f, m, i)
  BY <1>1, <1>2, <1>3, HasRules DEF AddPcs, SettlerPcs, SettlePcs, LeavePcs
<1>5. ASSUME NEW i \in D
      PROVE  /\ ToCome(g, i) <=> ToCome(f, i) /\ i # c
             /\ i = c => ToCome(f, i)
  <2>1. ToCome(f, i) <=> i \in Nodes /\ i[1] = k /\ i[2] >= c[2]
    BY <1>1 DEF ToCome, ArrivePcs, AddPcs
  <2>2. g.cur[2] = c[2] + 1
    BY <1>1
  <2>3. ToCome(g, i) <=> i \in Nodes /\ i[1] = k /\ i[2] >= c[2] + 1
    <3>. HIDE DEF c, k
    <3>. QED BY <1>1, <2>2 DEF ToCome, ArrivePcs, AddPcs
  <2>4. i \in Nodes => i[2] \in Nat /\ c[2] \in Nat /\ i = <<i[1], i[2]>> /\ c = <<c[1], c[2]>>
    BY <1>2, NodeTyped
  <2>. HIDE DEF c, k, f
  <2>. QED BY <1>2, <2>1, <2>3, <2>4
<1>6. \A i \in D : /\ Has(g, "come", i) <=> i \in {} \/ (Has(f, "come", i) /\ i \notin {c})
                   /\ i \in {c} => Has(f, "come", i)
  BY <1>1, <1>5, HasRules
<1>7. Marked("come", c)
  BY <1>1, <1>2, <1>6, TopMarked
<1>. HIDE DEF f, c, k, D
<1>9. \A m \in {"run", "make", "link", "give", "pass", "arrived", "settle"} : Change(m, {}, {})
  <2>. TAKE m \in {"run", "make", "link", "give", "pass", "arrived", "settle"}
  <2>1. \A i \in D : Has(g, m, i) <=> i \in {} \/ Has(f, m, i)
    BY <1>4
  <2>. QED BY <1>1, <2>1, GainMark, MarksAre DEF D, f
<1>11. Change("come", {}, {c})
  BY <1>1, <1>6, ChangeMove, MarksAre DEF D, f
<1>12. Once'
  BY <1>4, <1>6, MarksAre, <1>1, OnceMove DEF D, f
<1>13. Unchanged({"come"})
  BY <1>9, MarksAre DEF Unchanged
<1>. QED BY <1>7, <1>11, <1>12, <1>13 DEF c

\* ... or for the last node, but not as the last one.
LEMMA MakerLeaveMarks ==
  ASSUME TaskStateAssumption, Types, ShapeInv, Once, NEW t \in Threads,
         Top(t).pc = "arrive", Top(t).making # None, ~More(Top(t)),
         NEW g, Steps(t, g, "user", None, None, None, None)
  PROVE  /\ Once' /\ Unchanged({"make", "come"})
         /\ Change("make", {}, {Top(t).making})
         /\ Change("come", {}, {Top(t).cur}) /\ Marked("come", Top(t).cur)
<1>. DEFINE f == Top(t)  c == Top(t).cur  k == Top(t).making  D == Nodes \cup Tasks
<1>1. /\ stack[t] # <<>> /\ Moves(t, g) /\ g.node = f.node /\ g.pc = "user" /\ g.making = None
      /\ None \notin D /\ f.pc = "arrive" /\ f.making = k /\ k # None /\ f.cur = c
  BY Names DEF Steps, Is
<1>2. Own(g) = "user" /\ Own(f) = "user" /\ k \in Tasks /\ c \in Nodes /\ c[1] = k /\ c # None /\ Kind[k] = "all"
  BY <1>1, AddTop DEF Own, ArrivePcs, AddPcs
<1>3. Passed(g) <=> Passed(f)
  BY <1>1, <1>2 DEF Passed, Runner
<1>4. \A m \in {"run", "link", "give", "pass", "arrived", "settle"} : \A i \in D : Has(g, m, i) <=> Has(f, m, i)
  BY <1>1, <1>2, <1>3, HasRules DEF AddPcs, SettlerPcs, SettlePcs, LeavePcs
<1>5. ASSUME NEW i \in D
      PROVE  ToCome(f, i) <=> i = c
  <2>1. ToCome(f, i) <=> i \in Nodes /\ i[1] = k /\ i[2] >= c[2]
    BY <1>1 DEF ToCome, ArrivePcs, AddPcs
  <2>2. ~(c[2] < Len(Pred[k]))
    BY <1>1, <1>2 DEF More
  <2>3. c = <<c[1], c[2]>> /\ c[2] \in Places(k) /\ Len(Pred[k]) \in Nat /\ c[2] \in Nat
    BY <1>2, NodeTyped DEF TaskStateAssumption
  <2>4. i \in Nodes => i = <<i[1], i[2]>> /\ i[2] \in Places(i[1])
    BY NodeTyped
  <2>5. Places(k) = 1 .. Len(Pred[k])
    BY <1>2 DEF Places
  <2>. HIDE DEF c, k, f
  <2>. QED BY <1>2, <2>1, <2>2, <2>3, <2>4, <2>5
<1>6. \A i \in D : /\ Has(g, "come", i) <=> i \in {} \/ (Has(f, "come", i) /\ i \notin {c})
                   /\ i \in {c} => Has(f, "come", i)
  <2>1. \A i : ~ToCome(g, i)
    BY <1>1 DEF ToCome
  <2>. QED BY <1>1, <1>2, <1>5, <2>1, HasRules
<1>7. \A i \in D : /\ Has(g, "make", i) <=> i \in {} \/ (Has(f, "make", i) /\ i \notin {k})
                   /\ i \in {k} => Has(f, "make", i)
  BY <1>1, HasRules
<1>8. Marked("come", c)
  BY <1>1, <1>2, <1>6, TopMarked
<1>. HIDE DEF f, c, k, D
<1>9. \A m \in {"run", "link", "give", "pass", "arrived", "settle"} : Change(m, {}, {})
  <2>. TAKE m \in {"run", "link", "give", "pass", "arrived", "settle"}
  <2>1. \A i \in D : Has(g, m, i) <=> i \in {} \/ Has(f, m, i)
    BY <1>4
  <2>. QED BY <1>1, <2>1, GainMark, MarksAre DEF D, f
<1>11. Change("come", {}, {c}) /\ Change("make", {}, {k})
  BY <1>1, <1>6, <1>7, ChangeMove, MarksAre DEF D, f
<1>12. Once'
  BY <1>4, <1>6, <1>7, MarksAre, <1>1, OnceMove DEF D, f
<1>13. Unchanged({"make", "come"})
  BY <1>9, MarksAre DEF Unchanged
<1>. QED BY <1>8, <1>11, <1>12, <1>13 DEF c, k

\* A maker that has settled the task it made returns.
LEMMA ReturnedMarks ==
  ASSUME TaskStateAssumption, Types, ShapeInv, Once, NEW t \in Threads,
         Top(t).pc \in {"schedule", "release_result"}, Top(t).making # None,
         NEW g, Steps(t, g, "user", None, None, None, None)
  PROVE  /\ Once' /\ Unchanged({"make", "settle"})
         /\ Change("make", {}, {Top(t).making}) /\ Change("settle", {}, {Top(t).making})
<1>. DEFINE f == Top(t)  k == Top(t).making  D == Nodes \cup Tasks
<1>1. /\ stack[t] # <<>> /\ Moves(t, g) /\ g.node = f.node /\ g.pc = "user" /\ g.making = None
      /\ None \notin D /\ f.pc \in {"schedule", "release_result"} /\ f.making = k /\ k # None
  BY Names DEF Steps, Is
<1>2. Own(g) = "user" /\ Own(f) = "user" /\ SubjectOf(f) = k
  BY <1>1 DEF Own, SubjectOf
<1>3. Passed(g) <=> Passed(f)
  BY <1>1, <1>2 DEF Passed, Runner
<1>4. \A m \in {"run", "link", "give", "pass", "arrived", "come"} : \A i \in D : Has(g, m, i) <=> Has(f, m, i)
  BY <1>1, <1>2, <1>3, HasRules DEF AddPcs, ToCome, ArrivePcs
<1>5. \A i \in D : /\ Has(g, "make", i) <=> i \in {} \/ (Has(f, "make", i) /\ i \notin {k})
                   /\ i \in {k} => Has(f, "make", i)
  BY <1>1, HasRules
<1>6. \A i \in D : /\ Has(g, "settle", i) <=> i \in {} \/ (Has(f, "settle", i) /\ i \notin {k})
                   /\ i \in {k} => Has(f, "settle", i)
  BY <1>1, <1>2, HasRules DEF SettlerPcs, SettlePcs, LeavePcs
<1>. HIDE DEF f, k, D
<1>9. \A m \in {"run", "link", "give", "pass", "arrived", "come"} : Change(m, {}, {})
  <2>. TAKE m \in {"run", "link", "give", "pass", "arrived", "come"}
  <2>1. \A i \in D : Has(g, m, i) <=> i \in {} \/ Has(f, m, i)
    BY <1>4
  <2>. QED BY <1>1, <2>1, GainMark, MarksAre DEF D, f
<1>11. Change("make", {}, {k}) /\ Change("settle", {}, {k})
  BY <1>1, <1>5, <1>6, ChangeMove, MarksAre DEF D, f
<1>12. Once'
  BY <1>4, <1>5, <1>6, MarksAre, <1>1, OnceMove DEF D, f
<1>13. Unchanged({"make", "settle"})
  BY <1>9, MarksAre DEF Unchanged
<1>. QED BY <1>11, <1>12, <1>13 DEF k

SameMarks == \A m \in Marks : Change(m, {}, {})

\* Of the steps that leave all marks: one of a frame that settles a task, ...
LEMMA SettlerSame ==
  ASSUME TaskStateAssumption, Types, ShapeInv, Once, NEW t \in Threads,
         Top(t).pc \in SettlerPcs, NEW l \in SettlerPcs,
         l = "release_result" => Kind[SubjectOf(Top(t))] # "then",
         Top(t).pc # "release_result",
         NEW g, NEW c, NEW x, NEW e, Steps(t, g, l, Top(t).making, c, x, e)
  PROVE  Once' /\ SameMarks
<1>. DEFINE f == Top(t)
<1>1. /\ stack[t] # <<>> /\ Moves(t, g) /\ g.node = f.node /\ g.pc = l /\ g.making = f.making
  BY DEF Steps, Is
<1>2. Passed(g) <=> Passed(f)
  <2>1. CASE f.making # None
    BY <1>1, <2>1 DEF Passed, Own, Runner
  <2>2. CASE f.making = None
    <3>1. f.node # None /\ SubjectOf(f) = f.node[1]
      BY <1>1, <2>2, NodeTop DEF UserPcs, SettlerPcs, SettlePcs, LeavePcs
    <3>2. Own(f) = f.pc /\ Own(g) = l
      BY <1>1, <2>2 DEF Own
    <3>3. Kind[f.node[1]] = "then" => l # "release_result"
      BY <3>1
    <3>. HIDE DEF f
    <3>4. f.pc # "release_result" /\ f.pc \notin {"look", "release_pred"} /\ l \notin {"look", "release_pred"}
      BY DEF f, SettlerPcs, SettlePcs, LeavePcs
    <3>. QED BY <1>1, <3>1, <3>2, <3>3, <3>4 DEF Passed, Runner
  <2>. QED BY <2>1, <2>2
<1>3. Own(g) \in SettlerPcs <=> Own(f) \in SettlerPcs
  BY <1>1 DEF Own
<1>4. g.pc \notin AddPcs /\ f.pc \notin AddPcs /\ \A n : ~ToCome(g, n) /\ ~ToCome(f, n)
  BY <1>1 DEF ToCome, AddPcs, ArrivePcs, SettlerPcs, SettlePcs, LeavePcs
<1>5. SameHas(f, g)
  <2>1. g.pc # "give" /\ f.pc # "give"
    BY <1>4 DEF AddPcs
  <2>. HIDE DEF f
  <2>2. f.pc \in SettlerPcs
    BY DEF f
  <2>. QED BY <1>1, <1>2, <1>3, <1>4, <2>1, <2>2, SameHasOf
<1>. QED BY <1>1, <1>5, SameMove DEF SameMarks

\* ... one of a program or a function, ...
LEMMA UserSame ==
  ASSUME TaskStateAssumption, Types, ShapeInv, Once, NEW t \in Threads,
         Top(t).making = None,
         \/ Top(t).pc \in UserPcs
         \/ Top(t).pc = "look" /\ Kind[Top(t).node[1]] = "then",
         NEW l \in UserPcs, NEW g, NEW c, NEW x, NEW e, Steps(t, g, l, None, c, x, e)
  PROVE  Once' /\ SameMarks
<1>. DEFINE f == Top(t)
<1>1. /\ stack[t] # <<>> /\ Moves(t, g) /\ g.node = f.node /\ g.pc = l /\ g.making = None
  BY DEF Steps, Is
<1>2. Own(f) = f.pc /\ Own(g) = l
  BY <1>1 DEF Own
<1>3. f.pc # "release_result" /\ l # "release_result" /\ f.pc \notin SettlerPcs /\ l \notin SettlerPcs
  BY DEF UserPcs, SettlerPcs, SettlePcs, LeavePcs
<1>4. f.node # None => Kind[f.node[1]] # "all"
  BY <1>1, UserTop
<1>5. ~Passed(g) /\ ~Passed(f)
  BY <1>1, <1>2, <1>3, <1>4 DEF Passed, Runner
<1>6. g.pc \notin AddPcs /\ f.pc \notin AddPcs /\ \A n : ~ToCome(g, n) /\ ~ToCome(f, n)
  BY <1>1 DEF ToCome, AddPcs, UserPcs
<1>7. SameHas(f, g)
  <2>1. g.pc # "give" /\ f.pc # "give"
    BY <1>6 DEF AddPcs
  <2>2. f.making = None
    OBVIOUS
  <2>. HIDE DEF f
  <2>. QED BY <1>1, <1>2, <1>3, <1>5, <1>6, <2>1, <2>2, SameHasOf
<1>. QED BY <1>1, <1>7, SameMove DEF SameMarks

\* ... the look of a node of a when_all, ...
LEMMA LookSame ==
  ASSUME TaskStateAssumption, Types, ShapeInv, Once, NEW t \in Threads,
         Top(t).making = None, Top(t).pc = "look", Kind[Top(t).node[1]] = "all",
         NEW g, NEW c, NEW x, NEW e, Steps(t, g, "release_pred", None, c, x, e)
  PROVE  Once' /\ SameMarks
<1>. DEFINE f == Top(t)
<1>1. /\ stack[t] # <<>> /\ Moves(t, g) /\ g.node = f.node /\ g.pc = "release_pred" /\ g.making = None
      /\ f.making = None /\ f.pc = "look" /\ Kind[f.node[1]] = "all"
  BY DEF Steps, Is
<1>. HIDE DEF f
<1>2. Own(f) = "look" /\ Own(g) = "release_pred"
  BY <1>1 DEF Own
<1>3. ~Passed(g) /\ ~Passed(f)
  BY <1>1, <1>2 DEF Passed, Runner
<1>4. g.pc \notin AddPcs /\ f.pc \notin AddPcs /\ \A n : ~ToCome(g, n) /\ ~ToCome(f, n)
  BY <1>1 DEF ToCome, AddPcs, ArrivePcs
<1>5. f.pc \notin SettlerPcs /\ g.pc \notin SettlerPcs
  BY <1>1 DEF SettlerPcs, SettlePcs, LeavePcs
<1>6. SameHas(f, g)
  BY <1>1, <1>2, <1>3, <1>4, <1>5, SameHasOf
<1>. QED BY <1>1, <1>6, SameMove DEF SameMarks, f

\* ... one on the way to arrive, ...
LEMMA ArriveSame ==
  ASSUME TaskStateAssumption, Types, ShapeInv, Once, NEW t \in Threads,
         Top(t).pc \in {"attach", "claim", "write"}, NEW l \in ArrivePcs,
         NEW g, NEW x, NEW e, Steps(t, g, l, Top(t).making, Top(t).cur, x, e)
  PROVE  Once' /\ SameMarks
<1>. DEFINE f == Top(t)
<1>1. /\ stack[t] # <<>> /\ Moves(t, g) /\ g.node = f.node /\ g.pc = l /\ g.making = f.making /\ g.cur = f.cur
  BY DEF Steps, Is
<1>2. f.pc \notin SettlerPcs /\ g.pc \notin SettlerPcs /\ Own(f) \notin SettlerPcs /\ Own(g) \notin SettlerPcs
  BY <1>1 DEF SettlerPcs, SettlePcs, LeavePcs, ArrivePcs, Own
<1>3. Passed(g) <=> Passed(f)
  BY <1>1, AddTop, NodeTop DEF Passed, Own, Runner, ArrivePcs, UserPcs
<1>4. \A n : ToCome(g, n) <=> ToCome(f, n)
  BY <1>1 DEF ToCome, AddPcs, ArrivePcs
<1>5. g.pc \notin AddPcs /\ f.pc \notin AddPcs /\ g.pc # "give" /\ f.pc # "give"
  BY <1>1 DEF AddPcs, ArrivePcs
<1>. HIDE DEF f
<1>6. SameHas(f, g)
  BY <1>1, <1>2, <1>3, <1>4, <1>5, SameHasOf
<1>. QED BY <1>1, <1>6, SameMove DEF SameMarks, f

\* ... and one that adds a node to a list.
LEMMA CasSame ==
  ASSUME TaskStateAssumption, Types, ShapeInv, Once, NEW t \in Threads,
         Top(t).pc \in {"load", "cas"},
         NEW g, NEW x, NEW e, Steps(t, g, "cas", Top(t).making, Top(t).cur, x, e)
  PROVE  Once' /\ SameMarks
<1>. DEFINE f == Top(t)
<1>1. /\ stack[t] # <<>> /\ Moves(t, g) /\ g.node = f.node /\ g.pc = "cas" /\ g.making = f.making /\ g.cur = f.cur
  BY DEF Steps, Is
<1>2. f.making # None
  BY <1>1, AddTop DEF AddPcs, ArrivePcs
<1>3. Own(f) = "user" /\ Own(g) = "user" /\ f.pc \in {"load", "cas"}
  BY <1>1, <1>2 DEF Own
<1>. HIDE DEF f
<1>4. f.pc \notin SettlerPcs /\ g.pc \notin SettlerPcs
  BY <1>1, <1>3 DEF SettlerPcs, SettlePcs, LeavePcs
<1>5. Passed(g) <=> Passed(f)
  BY <1>1, <1>3 DEF Passed, Runner
<1>6. \A n : ToCome(g, n) <=> ToCome(f, n)
  BY <1>1, <1>3 DEF ToCome, AddPcs, ArrivePcs
<1>7. g.pc \in AddPcs /\ f.pc \in AddPcs /\ g.pc # "give" /\ f.pc # "give"
  BY <1>1, <1>3 DEF AddPcs
<1>8. SameHas(f, g)
  BY <1>1, <1>3, <1>4, <1>5, <1>6, <1>7, SameHasOf
<1>. QED BY <1>1, <1>8, SameMove DEF SameMarks, f

\* A frame that is done with its node leaves no mark of it.
LEMMA FreedMarks ==
  ASSUME TaskStateAssumption, Types, ShapeInv, Once, NEW t \in Threads, stack[t] # <<>>,
         Top(t).pc \in {"release_result", "arrive"}, Top(t).making = None, Pops(t)
  PROVE  /\ Once' /\ Unchanged({"run", "pass", "arrived", "settle"})
         /\ Change("run", {}, {Top(t).node}) /\ Change("pass", {}, {Top(t).node})
         /\ Change("arrived", {}, {Top(t).node})
         /\ Change("settle", {}, IF Top(t).pc = "release_result" THEN {Top(t).node[1]} ELSE {})
         /\ Marked("run", Top(t).node)
         /\ Top(t).pc = "release_result" =>
              Marked("settle", Top(t).node[1]) /\ Marked("arrived", Top(t).node)
         /\ Top(t).pc = "arrive" => ~Marked("arrived", Top(t).node)
         /\ Kind[Top(t).node[1]] # "produce" => Marked("pass", Top(t).node)
<1>. DEFINE f == Top(t)  n == Top(t).node  k == Top(t).node[1]  D == Nodes \cup Tasks
            settle == IF Top(t).pc = "release_result" THEN {Top(t).node[1]} ELSE {}
<1>1. /\ n \in Nodes /\ n # None /\ k \in Tasks /\ SubjectOf(f) = k /\ f.node = n /\ f.making = None
      /\ f.pc \in {"release_result", "arrive"} /\ Own(f) = f.pc /\ k # None
      /\ f.pc = "arrive" => Kind[k] = "all"
  BY NodeTop, Names DEF UserPcs, ArrivePcs, Own
<1>2. Once' /\ \A m \in Marks : Change(m, {}, {i \in D : Has(f, m, i)})
  BY ChangePop
<1>3. \A i \in D : /\ ~Has(f, "make", i) /\ ~Has(f, "link", i) /\ ~Has(f, "give", i) /\ ~Has(f, "come", i)
                   /\ Has(f, "run", i) <=> i = n
                   /\ Has(f, "settle", i) <=> i \in settle
                   /\ i # n => ~Has(f, "pass", i) /\ ~Has(f, "arrived", i)
                   /\ f.pc = "release_result" => (Has(f, "arrived", i) <=> i = n)
                   /\ f.pc = "arrive" => ~Has(f, "arrived", i)
  BY <1>1, HasRules DEF AddPcs, ToCome, SettlerPcs, SettlePcs, LeavePcs
<1>4. \A m \in {"pass", "arrived"} : ~Has(f, m, n) => ~Marked(m, n)
  BY <1>1, RunOnly
<1>5. Kind[k] # "produce" => Has(f, "pass", n)
  BY <1>1, HasRules DEF TaskStateAssumption, Passed, Runner
<1>9. n \in D /\ k \in D /\ (f.pc = "release_result" => k \in settle)
  BY <1>1
<1>. HIDE DEF n, k, settle, f
<1>10. \A m : \A i : Has(f, m, i) => Marked(m, i)
  BY TopMarked DEF f
<1>8. /\ Marked("run", n)
      /\ f.pc = "release_result" => Marked("settle", k) /\ Marked("arrived", n)
      /\ f.pc = "arrive" => ~Marked("arrived", n)
      /\ Kind[k] # "produce" => Marked("pass", n)
  BY <1>3, <1>4, <1>5, <1>9, <1>10
<1>6. /\ Change("make", {}, {}) /\ Change("link", {}, {}) /\ Change("give", {}, {}) /\ Change("come", {}, {})
      /\ Change("run", {}, {n}) /\ Change("settle", {}, settle)
  BY <1>2, <1>3, <1>9, MarksAre DEF Change
<1>7. Change("pass", {}, {n}) /\ Change("arrived", {}, {n})
  BY <1>2, <1>3, <1>4, <1>9, MarksAre DEF Change
<1>. QED BY <1>2, <1>6, <1>7, <1>8, MarksAre DEF Unchanged, f, n, k, settle

\* A program that ends leaves no marks.
LEMMA ProgramMarks ==
  ASSUME TaskStateAssumption, Types, ShapeInv, Once, NEW t \in Threads, stack[t] # <<>>,
         Top(t).pc = "user", Top(t).making = None, Top(t).node = None, Pops(t)
  PROVE  Once' /\ SameMarks
<1>. DEFINE f == Top(t)
<1>1. \A i \in Nodes \cup Tasks : \A m \in Marks : ~Has(f, m, i)
  BY Names, HasRules, MarksAre DEF AddPcs, ToCome, SettlerPcs, SettlePcs, LeavePcs, Passed
<1>2. Once' /\ \A m \in Marks : Change(m, {}, {i \in Nodes \cup Tasks : Has(f, m, i)})
  BY ChangePop
<1>. QED BY <1>1, <1>2 DEF SameMarks, Change

-----------------------------------------------------------------------------
(* What each part of the invariant needs of a step.                        *)

\* Handles, of any value of hold.
HandlesIn(t, f, H) ==
  /\ f.making = None /\ f.pc \in UserPcs \ {"user"} => BodyOf(t, f) \in H[CallOf(t, f).arg]
  /\ f.making # None => /\ BodyOf(t, f) \in H[f.making]
                        /\ \A i \in DOMAIN Pred[f.making] : BodyOf(t, f) \in H[Pred[f.making][i]]

LEMMA HandlesAre ==
  ASSUME \A x \in Frames' : HandlesIn(x[1], FrameAt(x)', hold')
  PROVE  HandleInv'
BY DEF HandleInv, Handles, HandlesIn

\* A frame keeps its handles while it is in a call.
LEMMA HandlesKept ==
  ASSUME TaskStateAssumption, NEW t \in Threads, NEW f \in FrameSet, Shape(t, f), NEW h, NEW G, NEW H,
         \A k \in Tasks : BodyOf(t, f) \in G[k] => BodyOf(t, f) \in H[k],
         h.node = f.node, h.making = f.making, h.at = f.at \/ f.making # None,
         h.making = None /\ h.pc \in UserPcs \ {"user"} => f.pc \in UserPcs \ {"user"},
         HandlesIn(t, f, G)
  PROVE  HandlesIn(t, h, H)
<1>1. BodyOf(t, h) = BodyOf(t, f)
  BY DEF BodyOf
<1>2. CASE f.making = None
  BY <1>2, BodyTyped, OpTyped, SameCall, <1>1 DEF Shape, ShapeOwn, UserPcs, InCall, HandlesIn
<1>3. CASE f.making # None
  BY <1>3, FrameTyped, <1>1 DEF TaskStateAssumption, HandlesIn
<1>. QED BY <1>2, <1>3

LEMMA AlikeHandles ==
  ASSUME TaskStateAssumption, NEW t \in Threads, NEW f \in FrameSet, Shape(t, f), NEW h, NEW G, NEW H,
         \A k \in Tasks : BodyOf(t, f) \in G[k] => BodyOf(t, f) \in H[k],
         Alike(f, h), HandlesIn(t, f, G)
  PROVE  HandlesIn(t, h, H)
BY HandlesKept DEF Alike, UserPcs

\* A frame holds on to what it has, or gets it.
LEMMA HandleMove ==
  ASSUME TaskStateAssumption, Types, ShapeInv, HandleInv, NEW t \in Threads,
         NEW g, NEW l, NEW m, NEW c, NEW x, NEW e, Steps(t, g, l, m, c, x, e),
         \A k \in Tasks : hold[k] \subseteq hold'[k],
         \/ m = None /\ l \notin UserPcs \ {"user"}
         \/ m = Top(t).making /\ m # None
         \/ HandlesIn(t, g, hold')
  PROVE  HandleInv'
<1>1. Moves(t, g) /\ Is(g, Top(t), l, m, c, x, e) /\ stack[t] # <<>>
  BY DEF Steps
<1>3. Tip(t) \in Frames /\ FrameAt(Tip(t)) = Top(t) /\ Tip(t)[1] = t
  BY <1>1, TipTyped
<1>. SUFFICES ASSUME NEW y \in Frames PROVE HandlesIn(y[1], FrameAt(y)', hold')
  BY <1>1, HandlesAre DEF Moves
<1>2. HandlesIn(y[1], FrameAt(y), hold) /\ Shape(y[1], FrameAt(y)) /\ FrameAt(y) \in FrameSet /\ y[1] \in Threads
  BY Position DEF HandleInv, ShapeInv, Handles, HandlesIn
<1>4. \A k \in Tasks : BodyOf(y[1], FrameAt(y)) \in hold[k] => BodyOf(y[1], FrameAt(y)) \in hold'[k]
  OBVIOUS
<1>5. CASE y = Tip(t)
  <2>1. FrameAt(y)' = g /\ y[1] = t
    BY <1>1, <1>3, <1>5 DEF Moves
  <2>2. CASE HandlesIn(t, g, hold')
    BY <2>1, <2>2
  <2>3. CASE m = None /\ l \notin UserPcs \ {"user"}
    BY <1>1, <2>1, <2>3 DEF HandlesIn, Is
  <2>4. CASE m = Top(t).making /\ m # None
    BY <1>1, <2>4, <1>2, <1>3, <1>4, <1>5, HandlesKept, <2>1 DEF Is
  <2>. QED BY <2>2, <2>3, <2>4
<1>6. CASE y # Tip(t)
  BY <1>1, <1>6, <1>2, <1>4, AlikeHandles DEF Moves
<1>. QED BY <1>5, <1>6

LEMMA HandlePop ==
  ASSUME TaskStateAssumption, Types, ShapeInv, HandleInv, NEW t \in Threads, stack[t] # <<>>, Pops(t),
         hold' = hold
  PROVE  HandleInv'
<1>. SUFFICES ASSUME NEW y \in Frames' PROVE HandlesIn(y[1], FrameAt(y)', hold')
  BY HandlesAre
<1>1. y \in Frames /\ Alike(FrameAt(y), FrameAt(y)')
  BY DEF Pops
<1>2. HandlesIn(y[1], FrameAt(y), hold) /\ Shape(y[1], FrameAt(y)) /\ FrameAt(y) \in FrameSet /\ y[1] \in Threads
  BY <1>1, Position DEF HandleInv, ShapeInv, Handles, HandlesIn
<1>. QED BY <1>1, <1>2, AlikeHandles

LEMMA HandlePush ==
  ASSUME TaskStateAssumption, Types, ShapeInv, HandleInv, NEW t \in Threads, NEW g, Pushes(t, g),
         g.making = None, g.pc \in {"user", "look"}, hold' = hold
  PROVE  HandleInv'
<1>. SUFFICES ASSUME NEW y \in Frames' PROVE HandlesIn(y[1], FrameAt(y)', hold')
  BY HandlesAre
<1>1. CASE y = Over(t)
  <2>1. FrameAt(y)' = g
    BY <1>1 DEF Pushes
  <2>. QED BY <2>1 DEF HandlesIn, UserPcs
<1>2. CASE y # Over(t)
  BY <1>2, Position, AlikeHandles DEF Pushes, HandleInv, ShapeInv, Handles, HandlesIn
<1>. QED BY <1>1, <1>2

\* A program or function is in one frame.
LEMMA OneBody ==
  ASSUME TaskStateAssumption, Types, ShapeInv, Once, NEW t \in Threads, stack[t] # <<>>,
         Own(Top(t)) \in UserPcs, NEW y \in Frames, Own(FrameAt(y)) \in UserPcs,
         BodyOf(y[1], FrameAt(y)) = Body(t)
  PROVE  y = Tip(t)
<1>. DEFINE f == Top(t)  h == FrameAt(y)
<1>1. /\ f \in FrameSet /\ Shape(t, f) /\ Stacked(Tip(t)) /\ FrameAt(Tip(t)) = f /\ Tip(t)[1] = t
      /\ Tip(t) = <<t, Tip(t)[2]>>
  BY TipTyped DEF ShapeInv, Tip
<1>2. h \in FrameSet /\ Shape(y[1], h) /\ Stacked(y) /\ y[1] \in Threads /\ y = <<y[1], y[2]>>
  BY Position DEF ShapeInv
<1>3. f.node = None => Body(t) = Home[t] /\ Home[t] \in Programs
  BY <1>1 DEF Shape, Body, BodyOf
<1>4. h.node = None => Body(t) = Home[y[1]] /\ Home[y[1]] \in Programs
  BY <1>2 DEF Shape, BodyOf
<1>5. f.node # None => Body(t) = f.node[1] /\ f.node \in Nodes /\ f.node = <<f.node[1], 1>> /\ f.node[1] \in Tasks
  <2>. SUFFICES ASSUME f.node # None PROVE Body(t) = f.node[1] /\ f.node \in Nodes /\ f.node = <<f.node[1], 1>> /\ f.node[1] \in Tasks
    OBVIOUS
  <2>1. f.node \in Nodes /\ Kind[f.node[1]] # "all" /\ Body(t) = f.node[1]
    BY <1>1, FrameTyped DEF Shape, Runner, Body, BodyOf
  <2>. HIDE DEF f
  <2>. QED BY <2>1, NodeTyped
<1>6. h.node # None => Body(t) = h.node[1] /\ h.node \in Nodes /\ h.node = <<h.node[1], 1>> /\ h.node[1] \in Tasks
  <2>. SUFFICES ASSUME h.node # None PROVE Body(t) = h.node[1] /\ h.node \in Nodes /\ h.node = <<h.node[1], 1>> /\ h.node[1] \in Tasks
    OBVIOUS
  <2>1. h.node \in Nodes /\ Kind[h.node[1]] # "all" /\ Body(t) = h.node[1]
    BY <1>2, FrameTyped DEF Shape, Runner, BodyOf
  <2>. HIDE DEF h
  <2>. QED BY <2>1, NodeTyped
<1>7. Programs \cap Tasks = {} /\ None \notin Programs
  BY Names DEF TaskStateAssumption, Bodies
<1>8. CASE f.node = None /\ h.node = None
  <2>1. y[1] = t
    BY <1>2, <1>3, <1>4, <1>7, <1>8 DEF TaskStateAssumption
  <2>2. y[2] = 1 /\ Tip(t)[2] = 1
    BY <1>1, <1>2, <1>8 DEF Stacked
  <2>. QED BY <1>1, <1>2, <2>1, <2>2
<1>9. CASE f.node # None /\ h.node # None
  <2>1. h.node = f.node
    BY <1>5, <1>6, <1>9
  <2>. QED BY <1>9, <2>1, RunOnly
<1>10. CASE f.node = None /\ h.node # None
  BY <1>3, <1>6, <1>7, <1>10
<1>11. CASE f.node # None /\ h.node = None
  BY <1>4, <1>5, <1>7, <1>11
<1>. QED BY <1>8, <1>9, <1>10, <1>11

LEMMA HandleDrop ==
  ASSUME TaskStateAssumption, Types, ShapeInv, HandleInv, Once, NEW t \in Threads, Drop(t),
         NEW g, Steps(t, g, "user", None, None, None, None)
  PROVE  HandleInv'
<1>. DEFINE k == Call(t).arg
<1>1. Moves(t, g) /\ Is(g, Top(t), "user", None, None, None, None) /\ stack[t] # <<>>
  BY DEF Steps
<1>2. hold' = [hold EXCEPT ![k] = @ \ {Body(t)}] /\ Calls(t, "drop")
  BY DEF Drop
<1>3. Top(t).pc = "user" /\ Top(t).making = None /\ Own(Top(t)) \in UserPcs /\ k \in Tasks
  BY <1>2, CallTop DEF Own, UserPcs
<1>. SUFFICES ASSUME NEW y \in Frames PROVE HandlesIn(y[1], FrameAt(y)', hold')
  BY <1>1, HandlesAre DEF Moves
<1>4. HandlesIn(y[1], FrameAt(y), hold) /\ Shape(y[1], FrameAt(y)) /\ FrameAt(y) \in FrameSet /\ y[1] \in Threads
  BY Position DEF HandleInv, ShapeInv, Handles, HandlesIn
<1>5. CASE y = Tip(t)
  BY <1>1, <1>5 DEF Moves, Is, HandlesIn
<1>6. CASE y # Tip(t)
  <2>1. Alike(FrameAt(y), FrameAt(y)')
    BY <1>1, <1>6 DEF Moves
  <2>2. CASE Own(FrameAt(y)) \in UserPcs
    <3>1. BodyOf(y[1], FrameAt(y)) # Body(t)
      BY <1>1, <1>3, <1>6, <2>2, OneBody
    <3>. DEFINE b == BodyOf(y[1], FrameAt(y))  d == Body(t)
    <3>2. \A j \in Tasks : b \in hold[j] => b \in hold'[j]
      <4>1. b # d /\ hold \in [Tasks -> SUBSET Bodies] /\ hold' = [hold EXCEPT ![k] = @ \ {d}]
        BY <1>2, <3>1 DEF Types
      <4>. HIDE DEF b, d, k
      <4>. QED BY <4>1
    <3>. QED BY <1>4, <2>1, <3>2, AlikeHandles
  <2>3. CASE Own(FrameAt(y)) \notin UserPcs
    BY <2>3, <2>1 DEF Own, UserPcs, Alike, HandlesIn
  <2>. QED BY <2>2, <2>3
<1>. QED BY <1>5, <1>6

LEMMA StayIs ==
  ASSUME NEW m, Change(m, {}, {})
  PROVE  \A n \in Nodes \cup Tasks : Marked(m, n)' <=> Marked(m, n)
BY DEF Change

LEMMA ApartSame ==
  ASSUME Apart, Change("run", {}, {}), Change("link", {}, {}), Change("come", {}, {}),
         nodes' = nodes, queued' = queued
  PROVE  Apart' /\ \A n \in Nodes : IsWaiting(n)' <=> IsWaiting(n)
BY StayIs DEF Apart, IsWaiting

LEMMA ReadyMove ==
  ASSUME TaskStateAssumption, ReadyInv,
         \A n \in Nodes : IsReady(n)' /\ Kind[n[1]] # "produce" => IsReady(n) \/ cont'[PredOf(n)] = Finished,
         \A k \in Tasks : cont[k] = Finished => cont'[k] = Finished
  PROVE  ReadyInv'
<1>. SUFFICES ASSUME NEW n \in Nodes, IsReady(n)', Kind[n[1]] # "produce" PROVE cont'[PredOf(n)] = Finished
  BY DEF ReadyInv, PredOf
<1>1. PredOf(n) \in Tasks
  BY PredTyped
<1>2. IsReady(n) => cont[PredOf(n)] = Finished
  BY DEF ReadyInv
<1>. QED BY <1>1, <1>2

LEMMA ReadySame ==
  ASSUME TaskStateAssumption, ReadyInv, Change("run", {}, {}), Change("give", {}, {}), queued' = queued,
         \A k \in Tasks : cont[k] = Finished => cont'[k] = Finished
  PROVE  ReadyInv'
BY StayIs, ReadyMove DEF IsReady

\* SettleOK, of any value of cont.
SettleIn(f, C) ==
  /\ f.pc \in SettlePcs => C[SubjectOf(f)] # Finished
  /\ f.pc \in LeavePcs \cup {"release_result"} => C[SubjectOf(f)] = Finished
  /\ f.node # None /\ Kind[Runner(f)] # "all" => (C[Runner(f)] = Finished <=> Left(f))

LEMMA SettlesAre ==
  ASSUME \A x \in Frames' : SettleIn(FrameAt(x)', cont'),
         \A n \in nodes' : ~Marked("run", n)' /\ Kind[n[1]] # "all" => cont'[n[1]] # Finished
  PROVE  SettleInv'
BY DEF SettleInv, SettleOK, SettleIn, Left, Own, Runner, SubjectOf

LEMMA SubjectTyped ==
  ASSUME TaskStateAssumption, NEW t, NEW f \in FrameSet, Shape(t, f)
  PROVE  /\ f.pc \in SettlerPcs => SubjectOf(f) \in Tasks
         /\ f.node # None => Runner(f) \in Tasks /\ f.node \in Nodes
         /\ f.pc \in SettlerPcs /\ f.making = None => f.node # None /\ SubjectOf(f) = Runner(f)
BY FrameTyped, NodeTyped DEF Runner, Shape, ShapeOwn, UserPcs, SettlerPcs, SettlePcs, LeavePcs,
   SubjectOf

LEMMA AlikeSettle ==
  ASSUME TaskStateAssumption, NEW t, NEW f \in FrameSet, Shape(t, f), NEW h, NEW C, NEW D, Alike(f, h),
         \A k \in Tasks : D[k] = Finished <=> C[k] = Finished, SettleIn(f, C)
  PROVE  SettleIn(h, D)
BY SubjectTyped DEF SettleIn, SettlerPcs, SettlePcs, LeavePcs, Alike, Left, Own, Runner

\* A step that completes no task.
LEMMA SettleMove ==
  ASSUME TaskStateAssumption, Types, ShapeInv, SettleInv, NEW t \in Threads,
         NEW g, NEW l, NEW m, NEW c, NEW x, NEW e, Steps(t, g, l, m, c, x, e),
         \A k \in Tasks : cont'[k] = Finished <=> cont[k] = Finished,
         Kind[Runner(Top(t))] # "all" => (Left(g) <=> Left(Top(t))),
         l \in SettlePcs => SubjectOf(g) \in Tasks /\ cont[SubjectOf(g)] # Finished,
         l \in LeavePcs \cup {"release_result"} => SubjectOf(g) \in Tasks /\ cont[SubjectOf(g)] = Finished,
         nodes' \in SUBSET Nodes,
         \A n \in nodes' : ~Marked("run", n)' /\ Kind[n[1]] # "all" =>
                             (n \in nodes /\ ~Marked("run", n)) \/ cont[n[1]] # Finished
  PROVE  SettleInv'
<1>1. Moves(t, g) /\ Is(g, Top(t), l, m, c, x, e) /\ stack[t] # <<>>
  BY DEF Steps
<1>2. Tip(t) \in Frames /\ FrameAt(Tip(t)) = Top(t) /\ Tip(t)[1] = t
  BY <1>1, TipTyped
<1>3. ASSUME NEW y \in Frames' PROVE SettleIn(FrameAt(y)', cont')
  <2>1. y \in Frames /\ SettleIn(FrameAt(y), cont) /\ Shape(y[1], FrameAt(y)) /\ FrameAt(y) \in FrameSet
    BY <1>1, Position DEF SettleInv, ShapeInv, SettleOK, SettleIn, Moves
  <2>2. CASE y = Tip(t)
    BY <1>1, <2>1, <2>2, <1>2, SubjectTyped DEF Moves, Is, Runner, SettleIn
  <2>3. CASE y # Tip(t)
    BY <1>1, <2>1, <2>3, AlikeSettle DEF Moves
  <2>. QED BY <2>2, <2>3
<1>4. ASSUME NEW n \in nodes', ~Marked("run", n)', Kind[n[1]] # "all" PROVE cont'[n[1]] # Finished
  <2>1. n[1] \in Tasks
    <3>1. n \in Nodes
      OBVIOUS
    <3>. QED BY <3>1, NodeTyped
  <2>. QED BY <1>4, <2>1 DEF SettleInv
<1>. QED BY <1>3, <1>4, SettlesAre

\* A step in which a frame goes.
LEMMA SettlePop ==
  ASSUME TaskStateAssumption, Types, ShapeInv, SettleInv, NEW t \in Threads, stack[t] # <<>>, Pops(t),
         cont' = cont, nodes' \in SUBSET nodes,
         \A n \in nodes' : ~Marked("run", n)' => ~Marked("run", n)
  PROVE  SettleInv'
<1>1. ASSUME NEW y \in Frames' PROVE SettleIn(FrameAt(y)', cont')
  BY Position, AlikeSettle DEF Pops, SettleInv, ShapeInv, SettleOK, SettleIn
<1>2. \A n \in nodes' : ~Marked("run", n)' /\ Kind[n[1]] # "all" => cont'[n[1]] # Finished
  BY DEF SettleInv
<1>. QED BY <1>1, <1>2, SettlesAre

\* A step in which a node is run.
LEMMA SettlePush ==
  ASSUME TaskStateAssumption, Types, ShapeInv, SettleInv, NEW t \in Threads, NEW g, Pushes(t, g),
         cont' = cont, nodes' = nodes, g.pc \in {"user", "look"}, g.making = None, g.node \in nodes,
         ~Marked("run", g.node),
         \A n \in nodes : ~Marked("run", n)' => ~Marked("run", n)
  PROVE  SettleInv'
<1>1. ASSUME NEW y \in Frames' PROVE SettleIn(FrameAt(y)', cont')
  <2>1. CASE y = Over(t)
    BY <2>1 DEF Pushes, Left, Own, SettlePcs, LeavePcs, SettleInv, Runner, SettleIn
  <2>2. CASE y # Over(t)
    <3>1. y \in Frames /\ Alike(FrameAt(y), FrameAt(y)')
      BY <2>2 DEF Pushes
    <3>2. SettleIn(FrameAt(y), cont) /\ Shape(y[1], FrameAt(y)) /\ FrameAt(y) \in FrameSet
      BY <3>1, Position DEF SettleInv, ShapeInv, SettleOK, SettleIn
    <3>. QED BY <3>1, <3>2, AlikeSettle
  <2>. QED BY <2>1, <2>2
<1>2. \A n \in nodes' : ~Marked("run", n)' /\ Kind[n[1]] # "all" => cont'[n[1]] # Finished
  BY DEF SettleInv
<1>. QED BY <1>1, <1>2, SettlesAre

-----------------------------------------------------------------------------
(* The lists after a step that leaves them alone.                          *)

LEMMA ListKeep ==
  ASSUME ListInv, cont' = cont, next' = next, \A n \in Nodes : IsWaiting(n)' <=> IsWaiting(n),
         nodes \in SUBSET Nodes, nodes' \in SUBSET Nodes,
         \A y \in Frames' : FrameAt(y)'.pc \in LeavePcs =>
            \E z \in Frames : /\ FrameAt(z).pc \in LeavePcs
                              /\ FrameAt(y)'.cur = FrameAt(z).cur /\ FrameAt(y)'.nxt = FrameAt(z).nxt
                              /\ SubjectOf(FrameAt(y)') = SubjectOf(FrameAt(z))
                              /\ FrameAt(y)'.pc = "submit" => FrameAt(z).pc = "submit",
         \A n \in Nodes : Casing(n) => Casing(n)'
  PROVE  ListInv'
<1>1. \A n, k : Continues(n, k)' <=> Continues(n, k)
  BY DEF Continues, PredOf
<1>2. ASSUME NEW k \in Tasks PROVE HeadOK(k)'
  <2>1. HeadOK(k)
    BY DEF ListInv
  <2>. QED BY <1>1, <2>1 DEF HeadOK
<1>3. ASSUME NEW y \in Frames' PROVE CurOK(FrameAt(y))'
  <2>1. CASE FrameAt(y)'.pc \notin LeavePcs
    BY <2>1 DEF CurOK
  <2>2. CASE FrameAt(y)'.pc \in LeavePcs
    <3>1. PICK z \in Frames : /\ FrameAt(z).pc \in LeavePcs
                              /\ FrameAt(y)'.cur = FrameAt(z).cur /\ FrameAt(y)'.nxt = FrameAt(z).nxt
                              /\ SubjectOf(FrameAt(y)') = SubjectOf(FrameAt(z))
                              /\ FrameAt(y)'.pc = "submit" => FrameAt(z).pc = "submit"
      BY <2>2
    <3>2. CurOK(FrameAt(z))
      BY DEF ListInv
    <3>3. SubjectOf(FrameAt(y))' = SubjectOf(FrameAt(y)')
      BY DEF SubjectOf
    <3>. QED BY <1>1, <3>1, <3>2, <3>3 DEF CurOK
  <2>. QED BY <2>1, <2>2
<1>4. ASSUME NEW n \in nodes' PROVE NextOK(n)'
  <2>. SUFFICES ASSUME IsWaiting(n)' PROVE NextOK(n)'
    BY DEF NextOK
  <2>1. IsWaiting(n) /\ n \in nodes /\ NextOK(n)
    BY DEF IsWaiting, ListInv
  <2>2. /\ Kind[n[1]] # "produce"
        /\ next[n] # None => Continues(next[n], PredOf(n))
        /\ \A k \in Tasks : next[n] = cont[k] => next[n] = None
        /\ \A m \in nodes : IsWaiting(m) /\ next[m] = next[n] => m = n \/ next[n] = None
        /\ \A x \in Frames : FrameAt(x).pc \in LeavePcs /\ next[n] \in {FrameAt(x).cur, FrameAt(x).nxt}
                              => next[n] = None
    BY <2>1 DEF NextOK
  <2>3. \A m \in nodes' : IsWaiting(m)' => m \in nodes /\ IsWaiting(m)
    BY DEF IsWaiting
  <2>4. PredOf(n)' = PredOf(n)
    BY DEF PredOf
  <2>5. \A y \in Frames' : FrameAt(y)'.pc \in LeavePcs /\ next[n] \in {FrameAt(y)'.cur, FrameAt(y)'.nxt}
                              => next[n] = None
    BY <2>2
  <2>6. \A m \in nodes' : IsWaiting(m)' /\ next[m] = next[n] => m = n \/ next[n] = None
    BY <2>2, <2>3
  <2>. QED BY <1>1, <2>2, <2>4, <2>5, <2>6 DEF NextOK
<1>5. \A n \in Nodes : next'[n] # None => IsWaiting(n)' \/ Casing(n)'
  BY DEF ListInv
<1>. QED BY <1>2, <1>3, <1>4, <1>5 DEF ListInv

\* A frame that leaves a task.
Leaver(f, h) == /\ f.pc \in LeavePcs /\ h.cur = f.cur /\ h.nxt = f.nxt /\ SubjectOf(h) = SubjectOf(f)
                /\ h.pc = "submit" => f.pc = "submit"

LEMMA AlikeLeaver ==
  ASSUME NEW f, NEW h, Alike(f, h)
  PROVE  /\ h.pc \in LeavePcs => Leaver(f, h)
         /\ f.pc = "cas" => h = f
BY DEF Alike, Leaver, LeavePcs

LEMMA ListMove ==
  ASSUME Types, ListInv, NEW t \in Threads,
         NEW g, NEW l, NEW m, NEW c, NEW x, NEW e, Steps(t, g, l, m, c, x, e),
         cont' = cont, next' = next, \A n \in Nodes : IsWaiting(n)' <=> IsWaiting(n),
         nodes' \in SUBSET Nodes,
         l \in LeavePcs => Leaver(Top(t), g),
         Top(t).pc = "cas" => l = "cas" /\ c = Top(t).cur
  PROVE  ListInv'
<1>1. Moves(t, g) /\ Is(g, Top(t), l, m, c, x, e) /\ stack[t] # <<>>
  BY DEF Steps
<1>2. Tip(t) \in Frames /\ FrameAt(Tip(t)) = Top(t)
  BY <1>1, TipTyped
<1>3. ASSUME NEW y \in Frames', FrameAt(y)'.pc \in LeavePcs
      PROVE  \E z \in Frames : Leaver(FrameAt(z), FrameAt(y)')
  BY <1>1, <1>2, <1>3, AlikeLeaver DEF Moves, Is
<1>4. ASSUME NEW n \in Nodes, Casing(n) PROVE Casing(n)'
  <2>1. PICK y \in Frames : FrameAt(y).pc = "cas" /\ FrameAt(y).cur = n
    BY <1>4 DEF Casing
  <2>2. FrameAt(y)'.pc = "cas" /\ FrameAt(y)'.cur = n
    BY <1>1, <1>2, <2>1, AlikeLeaver DEF Moves, Is
  <2>3. y \in Frames'
    BY <1>1 DEF Moves
  <2>. QED BY <2>2, <2>3 DEF Casing
<1>5. nodes \in SUBSET Nodes
  BY DEF Types
<1>. QED BY <1>3, <1>4, <1>5, ListKeep DEF Leaver

LEMMA ListPop ==
  ASSUME Types, ListInv, NEW t \in Threads, stack[t] # <<>>, Pops(t), Top(t).pc # "cas",
         cont' = cont, next' = next, \A n \in Nodes : IsWaiting(n)' <=> IsWaiting(n),
         nodes' \in SUBSET Nodes
  PROVE  ListInv'
<1>1. ASSUME NEW y \in Frames', FrameAt(y)'.pc \in LeavePcs
      PROVE  \E z \in Frames : Leaver(FrameAt(z), FrameAt(y)')
  BY <1>1, AlikeLeaver DEF Pops
<1>2. ASSUME NEW n \in Nodes, Casing(n) PROVE Casing(n)'
  <2>1. PICK y \in Frames : FrameAt(y).pc = "cas" /\ FrameAt(y).cur = n
    BY <1>2 DEF Casing
  <2>2. y # Tip(t)
    BY <2>1, TipTyped
  <2>3. y \in Frames' /\ Alike(FrameAt(y), FrameAt(y)')
    BY <2>2 DEF Pops
  <2>. QED BY <2>1, <2>3, AlikeLeaver DEF Casing
<1>3. nodes \in SUBSET Nodes
  BY DEF Types
<1>. QED BY <1>1, <1>2, <1>3, ListKeep DEF Leaver

LEMMA ListPush ==
  ASSUME Types, ListInv, NEW t \in Threads, NEW g, Pushes(t, g), g.pc \notin LeavePcs,
         cont' = cont, next' = next, \A n \in Nodes : IsWaiting(n)' <=> IsWaiting(n),
         nodes' \in SUBSET Nodes
  PROVE  ListInv'
<1>1. ASSUME NEW y \in Frames', FrameAt(y)'.pc \in LeavePcs
      PROVE  \E z \in Frames : Leaver(FrameAt(z), FrameAt(y)')
  <2>1. y # Over(t)
    BY <1>1 DEF Pushes
  <2>. QED BY <1>1, <2>1, AlikeLeaver DEF Pushes
<1>2. ASSUME NEW n \in Nodes, Casing(n) PROVE Casing(n)'
  <2>1. PICK y \in Frames : FrameAt(y).pc = "cas" /\ FrameAt(y).cur = n
    BY <1>2 DEF Casing
  <2>2. y \in Frames' /\ Alike(FrameAt(y), FrameAt(y)')
    BY DEF Pushes
  <2>. QED BY <2>1, <2>2, AlikeLeaver DEF Casing
<1>3. nodes \in SUBSET Nodes
  BY DEF Types
<1>. QED BY <1>1, <1>2, <1>3, ListKeep DEF Leaver

-----------------------------------------------------------------------------
(* The references, the stages and the counts after a step that leaves them *)
(* alone.                                                                  *)

LEMMA RefSame ==
  ASSUME RefInv, refs' = refs, hold' = hold, \A k \in Tasks : Waiters(k)' = Waiters(k),
         \A k \in Tasks : ResultRef(k)' <=> ResultRef(k)
  PROVE  RefInv'
BY DEF RefInv

LEMMA WaitersSame ==
  ASSUME nodes \in SUBSET Nodes, nodes' = nodes, Change("pass", {}, {}), NEW k \in Tasks
  PROVE  Waiters(k)' = Waiters(k)
BY StayIs DEF PredOf, Waiters

LEMMA ResultSame ==
  ASSUME nodes' = nodes, NEW k \in Tasks, Kind[k] = "all" => remaining'[k] = remaining[k],
         Kind[k] = "all" => (Marked("settle", k)' <=> Marked("settle", k))
  PROVE  ResultRef(k)' <=> ResultRef(k)
BY DEF ResultRef

LEMMA StageMove ==
  ASSUME StageInv,
         \A k \in Tasks : Unmade(k) => Unmade(k)' \/ Marked("make", k)' \/ ResultRef(k)' \/ cont'[k] = Finished,
         \A k \in Tasks : Marked("make", k) => Marked("make", k)' \/ ResultRef(k)' \/ cont'[k] = Finished,
         \A k \in Tasks : ResultRef(k) => ResultRef(k)' \/ cont'[k] = Finished,
         \A k \in Tasks : cont[k] = Finished => cont'[k] = Finished
  PROVE  StageInv'
BY DEF StageInv

LEMMA UnmadeSame ==
  ASSUME NEW k \in Tasks, Unmade(k), cont'[k] = cont[k], hold'[k] = hold[k], remaining'[k] = remaining[k],
         \A n \in nodes' : n \in nodes \/ n[1] # k, Marked("make", k)' => Marked("make", k)
  PROVE  Unmade(k)'
BY DEF Unmade

LEMMA StageSame ==
  ASSUME StageInv, hold' = hold, remaining' = remaining, nodes' = nodes, cont' = cont,
         Change("make", {}, {}), \A k \in Tasks : ResultRef(k)' <=> ResultRef(k)
  PROVE  StageInv'
BY StayIs DEF Unmade, StageInv

LEMMA PendingSame ==
  ASSUME TaskStateAssumption, NEW k \in Tasks, \A n \in Nodes : n[1] = k => (Pends(n)' <=> Pends(n))
  PROVE  PendingOf(k)' = PendingOf(k)
BY NodeOf DEF Places, PendingOf

LEMMA CountSame ==
  ASSUME TaskStateAssumption, CountInv, remaining' = remaining,
         \A n \in Nodes : Kind[n[1]] = "all" => (Pends(n)' <=> Pends(n)),
         \A k \in Tasks : Kind[k] = "all" /\ remaining[k] # 0 =>
                            (Marked("settle", k)' => Marked("settle", k)) /\ (cont'[k] = Finished => cont[k] = Finished)
  PROVE  CountInv'
<1>. SUFFICES ASSUME NEW k \in Tasks, Kind[k] = "all"
              PROVE  /\ remaining'[k] = Cardinality(PendingOf(k))'
                     /\ remaining'[k] # 0 => ~Marked("settle", k)' /\ cont'[k] # Finished
  BY DEF CountInv
<1>1. PendingOf(k)' = PendingOf(k)
  BY PendingSame
<1>2. remaining[k] = Cardinality(PendingOf(k)) /\ (remaining[k] # 0 => ~Marked("settle", k) /\ cont[k] # Finished)
  BY DEF CountInv
<1>. QED BY <1>1, <1>2

LEMMA PendsSame ==
  ASSUME nodes' = nodes, Change("arrived", {}, {}), Change("come", {}, {})
  PROVE  \A n \in Nodes : Pends(n)' <=> Pends(n)
BY StayIs DEF Pends

-----------------------------------------------------------------------------
(* Steps that change no mark.                                              *)

\* What does not change with the marks.
LEMMA MarksSame ==
  ASSUME TaskStateAssumption, RefsInv, SameMarks, nodes' = nodes, remaining' = remaining
  PROVE  /\ \A k \in Tasks : Waiters(k)' = Waiters(k) /\ (ResultRef(k)' <=> ResultRef(k))
         /\ \A n \in Nodes : Pends(n)' <=> Pends(n)
         /\ \A m \in Marks : \A n \in Nodes \cup Tasks : Marked(m, n)' <=> Marked(m, n)
<1>1. nodes \in SUBSET Nodes
  BY DEF RefsInv, Types
<1>2. \A m \in Marks : Change(m, {}, {})
  BY DEF SameMarks
<1>3. \A m \in Marks : \A n \in Nodes \cup Tasks : Marked(m, n)' <=> Marked(m, n)
  BY <1>2, StayIs
<1>4. \A k \in Tasks : Waiters(k)' = Waiters(k)
  BY <1>1, <1>2, MarksAre, WaitersSame
<1>5. \A k \in Tasks : ResultRef(k)' <=> ResultRef(k)
  BY <1>3, MarksAre, ResultSame
<1>6. \A n \in Nodes : Pends(n)' <=> Pends(n)
  BY <1>2, MarksAre, PendsSame
<1>. QED BY <1>3, <1>4, <1>5, <1>6

\* The parts that only depend on the marks and the counts.
LEMMA CountsKeep ==
  ASSUME TaskStateAssumption, RefsInv, SameMarks,
         UNCHANGED <<refs, cont, nodes, remaining, hold, queued>>
  PROVE  /\ Apart' /\ ReadyInv' /\ RefInv' /\ StageInv' /\ CountInv'
         /\ \A n \in Nodes : IsWaiting(n)' <=> IsWaiting(n)
<1>. USE DEF RefsInv, NodeInv
<1>1. /\ \A k \in Tasks : Waiters(k)' = Waiters(k) /\ (ResultRef(k)' <=> ResultRef(k))
      /\ \A n \in Nodes : Pends(n)' <=> Pends(n)
      /\ \A m \in Marks : \A n \in Nodes \cup Tasks : Marked(m, n)' <=> Marked(m, n)
  BY MarksSame
<1>2. \A m \in Marks : Change(m, {}, {})
  BY DEF SameMarks
<1>3. Apart' /\ \A n \in Nodes : IsWaiting(n)' <=> IsWaiting(n)
  BY <1>2, MarksAre, ApartSame
<1>4. ReadyInv'
  BY <1>2, MarksAre, ReadySame
<1>5. RefInv'
  BY <1>1, RefSame
<1>6. StageInv'
  BY <1>1, <1>2, MarksAre, StageSame
<1>7. CountInv'
  BY <1>1, MarksAre, CountSame
<1>. QED BY <1>3, <1>4, <1>5, <1>6, <1>7

\* What a frame that settles a task says of it.
LEMMA SettleSays ==
  ASSUME TaskStateAssumption, Types, ShapeInv, SettleInv, NEW t \in Threads, stack[t] # <<>>
  PROVE  LET f == Top(t) IN
         /\ f.pc \in SettlerPcs => SubjectOf(f) \in Tasks
         /\ f.pc \in SettlePcs => cont[SubjectOf(f)] # Finished
         /\ f.pc \in LeavePcs \cup {"release_result"} => cont[SubjectOf(f)] = Finished
         /\ f.node # None /\ Kind[f.node[1]] # "all" => (cont[f.node[1]] = Finished <=> Left(f))
BY TipTyped, TopShape, SubjectTyped DEF SettleInv, SettleOK, Runner

LEMMA SteadyStep ==
  ASSUME TaskStateAssumption, RefsInv, NEW t \in Threads,
         NEW g, NEW l, NEW c, NEW x, NEW e, Steps(t, g, l, Top(t).making, c, x, e),
         Types', Once', SameMarks,
         UNCHANGED <<refs, cont, nodes, next, remaining, hold, queued>>,
         Top(t).making # None \/ l \notin UserPcs \ {"user"} \/ HandlesIn(t, g, hold),
         Kind[Runner(Top(t))] # "all" => (Left(g) <=> Left(Top(t))),
         l \in SettlePcs => Top(t).pc \in SettlePcs,
         l \in LeavePcs \cup {"release_result"} => Top(t).pc \in LeavePcs \cup {"release_result"},
         l \in LeavePcs => Leaver(Top(t), g),
         Top(t).pc # "cas"
  PROVE  RefsInv'
<1>. USE DEF RefsInv, NodeInv
<1>1. /\ Apart' /\ ReadyInv' /\ RefInv' /\ StageInv' /\ CountInv'
      /\ \A n \in Nodes : IsWaiting(n)' <=> IsWaiting(n)
  BY CountsKeep
<1>2. stack[t] # <<>> /\ g.node = Top(t).node /\ g.making = Top(t).making /\ ShapeInv' /\ g.pc = l
  BY DEF Steps, Is
<1>3. SubjectOf(g) = SubjectOf(Top(t))
  BY <1>2 DEF SubjectOf
<1>4. HandleInv'
  BY HandleMove
<1>5. nodes \in SUBSET Nodes /\ \A n \in Nodes : Marked("run", n)' <=> Marked("run", n)
  <2>1. Change("run", {}, {})
    BY MarksAre DEF SameMarks
  <2>. QED BY <2>1, StayIs DEF Types
<1>6. SettleInv'
  BY <1>2, <1>3, SettleSays, <1>5, SettleMove DEF SettlerPcs
<1>7. ListInv'
  BY <1>1, <1>5, ListMove
<1>. QED BY <1>1, <1>2, <1>4, <1>6, <1>7

LEMMA StoreExceptionRefs ==
  ASSUME TaskStateAssumption, RefsInv, NEW t \in Threads, StoreException(t)
  PROVE  RefsInv'
<1>. USE DEF RefsInv, NodeInv
<1>1. UNCHANGED <<refs, cont, nodes, next, remaining, hold, queued>> /\ Top(t).pc = "store"
  BY DEF StoreException, nodeVars, ctlVars, At
<1>2. Types' /\ \E g : Steps(t, g, "exchange", Top(t).making, Top(t).cur, None, Top(t).exc)
  BY StoreExceptionStep
<1>3. PICK g : Steps(t, g, "exchange", Top(t).making, Top(t).cur, None, Top(t).exc)
  BY <1>2
<1>4. Once' /\ SameMarks
  BY <1>1, <1>3, SettlerSame DEF SettlerPcs, SettlePcs
<1>5. g.pc = "exchange" /\ g.making = Top(t).making
  BY <1>3 DEF Steps, Is
<1>6. Left(g) <=> Left(Top(t))
  BY <1>1, <1>5 DEF Left, Own, LeavePcs
<1>. QED BY <1>1, <1>2, <1>3, <1>4, <1>6, SteadyStep DEF UserPcs, SettlePcs, LeavePcs

LEMMA NotifyRefs ==
  ASSUME TaskStateAssumption, RefsInv, NEW t \in Threads, Notify(t)
  PROVE  RefsInv'
<1>. USE DEF RefsInv, NodeInv
<1>1. UNCHANGED <<refs, cont, nodes, next, remaining, hold, queued>> /\ Top(t).pc = "notify" /\ stack[t] # <<>>
  BY DEF Notify, nodeVars, ctlVars, At, stateVars
<1>2. Types' /\ \E g : Steps(t, g, "schedule", Top(t).making, Top(t).cur, None, Top(t).exc)
  BY NotifyStep
<1>3. PICK g : Steps(t, g, "schedule", Top(t).making, Top(t).cur, None, Top(t).exc)
  BY <1>2
<1>4. Once' /\ SameMarks
  BY <1>1, <1>3, SettlerSame DEF SettlerPcs, LeavePcs
<1>5. /\ g.pc = "schedule" /\ g.making = Top(t).making /\ g.cur = Top(t).cur /\ g.nxt = None
      /\ g.node = Top(t).node /\ Top(t).nxt = None
  <2>1. Top(t).nxt = None
    BY <1>1, SettleTop DEF SettlerPcs, LeavePcs
  <2>. QED BY <1>3, <2>1 DEF Steps, Is
<1>6. Left(g) <=> Left(Top(t))
  BY <1>1, <1>5 DEF Left, Own, LeavePcs
<1>7. Leaver(Top(t), g)
  BY <1>1, <1>5 DEF Leaver, SubjectOf, LeavePcs
<1>. QED BY <1>1, <1>2, <1>3, <1>4, <1>6, <1>7, SteadyStep DEF UserPcs, SettlePcs, LeavePcs

\* A frame on its way to arrive.
LEMMA ArriveRefs ==
  ASSUME TaskStateAssumption, RefsInv, NEW t \in Threads,
         Top(t).pc \in {"attach", "claim", "write"}, NEW l \in ArrivePcs,
         NEW g, NEW x, NEW e, Steps(t, g, l, Top(t).making, Top(t).cur, x, e),
         Types', UNCHANGED <<refs, cont, nodes, next, remaining, hold, queued>>
  PROVE  RefsInv'
<1>. USE DEF RefsInv, NodeInv
<1>1. Once' /\ SameMarks
  BY ArriveSame
<1>2. g.pc = l /\ g.making = Top(t).making
  BY DEF Steps, Is
<1>3. Left(g) <=> Left(Top(t))
  BY <1>2 DEF Left, Own, LeavePcs, ArrivePcs
<1>. QED BY <1>1, <1>3, SteadyStep DEF UserPcs, SettlePcs, LeavePcs, ArrivePcs

LEMMA AttachFailsRefs ==
  ASSUME TaskStateAssumption, RefsInv, NEW t \in Threads, AttachFails(t)
  PROVE  RefsInv'
<1>. USE DEF RefsInv
<1>1. UNCHANGED <<refs, cont, nodes, next, remaining, hold, queued>> /\ Top(t).pc = "attach"
  BY DEF AttachFails, nodeVars, ctlVars, At, stateVars
<1>2. Types' /\ \E g : \E x : \E e : Steps(t, g, "claim", Top(t).making, Top(t).cur, x, e)
  BY AttachFailsStep
<1>. QED BY <1>1, <1>2, ArriveRefs DEF ArrivePcs

LEMMA ClaimRefs ==
  ASSUME TaskStateAssumption, RefsInv, NEW t \in Threads, Claim(t)
  PROVE  RefsInv'
<1>. USE DEF RefsInv
<1>1. UNCHANGED <<refs, cont, nodes, next, remaining, hold, queued>> /\ Top(t).pc = "claim"
  BY DEF Claim, nodeVars, ctlVars, At, stateVars
<1>2. Types' /\ \E l \in ArrivePcs : \E g : Steps(t, g, l, Top(t).making, Top(t).cur, None, Top(t).exc)
  BY ClaimStep DEF ArrivePcs
<1>. QED BY <1>1, <1>2, ArriveRefs

LEMMA WriteExceptionRefs ==
  ASSUME TaskStateAssumption, RefsInv, NEW t \in Threads, WriteException(t)
  PROVE  RefsInv'
<1>. USE DEF RefsInv
<1>1. UNCHANGED <<refs, cont, nodes, next, remaining, hold, queued>> /\ Top(t).pc = "write"
  BY DEF WriteException, nodeVars, ctlVars, At, stateVars
<1>2. Types' /\ \E l \in ArrivePcs : \E g : Steps(t, g, l, Top(t).making, Top(t).cur, None, Top(t).exc)
  BY WriteExceptionStep DEF ArrivePcs
<1>. QED BY <1>1, <1>2, ArriveRefs

\* A frame that waits.
LEMMA WaitingRefs ==
  ASSUME TaskStateAssumption, RefsInv, NEW t \in Threads, Top(t).making = None,
         \/ Top(t).pc \in UserPcs
         \/ Top(t).pc = "look" /\ Kind[Top(t).node[1]] = "then",
         NEW l \in UserPcs, NEW g, NEW c, NEW x, NEW e, Steps(t, g, l, None, c, x, e),
         l = "user" \/ HandlesIn(t, g, hold),
         Types', UNCHANGED <<refs, cont, nodes, next, remaining, hold, queued>>
  PROVE  RefsInv'
<1>. USE DEF RefsInv, NodeInv
<1>1. Once' /\ SameMarks
  BY UserSame
<1>2. g.pc = l /\ g.making = None
  BY DEF Steps, Is
<1>3. ~Left(g) /\ ~Left(Top(t))
  BY <1>2 DEF Left, Own, LeavePcs, UserPcs
<1>4. Top(t).pc # "cas"
  BY DEF UserPcs
<1>. QED BY <1>1, <1>3, <1>4, SteadyStep DEF UserPcs, SettlePcs, LeavePcs

LEMMA LookAllRefs ==
  ASSUME TaskStateAssumption, RefsInv, NEW t \in Threads, stack[t] # <<>>, Top(t).pc = "look",
         Top(t).making = None, Kind[Top(t).node[1]] = "all",
         NEW g, NEW c, NEW e, Steps(t, g, "release_pred", None, c, None, e),
         Types', UNCHANGED <<refs, cont, nodes, next, remaining, hold, queued>>
  PROVE  RefsInv'
<1>. USE DEF RefsInv, NodeInv
<1>1. Once' /\ SameMarks
  BY LookSame
<1>. QED BY <1>1, SteadyStep DEF UserPcs, SettlePcs, LeavePcs, Runner

LEMMA WaitHandles ==
  ASSUME TaskStateAssumption, Types, ShapeInv, HandleInv, NEW t \in Threads,
         \/ Top(t).pc \in UserPcs \ {"user"} /\ Top(t).making = None
         \/ \E op \in {"wait", "block"} : Calls(t, op),
         NEW l \in UserPcs \ {"user"}, NEW g, NEW c, NEW x, NEW e, Steps(t, g, l, None, c, x, e)
  PROVE  HandlesIn(t, g, hold)
BY SameCall, TipTyped DEF Steps, Is, Body, Call, HandleInv, Handles, Calls, HandlesIn

LEMMA WaitRefs ==
  ASSUME TaskStateAssumption, RefsInv, NEW t \in Threads,
         Wait(t) \/ HelpNobody(t) \/ Block(t) \/ Compare(t)
  PROVE  RefsInv'
<1>. USE DEF RefsInv
<1>1. UNCHANGED <<refs, cont, nodes, next, remaining, hold, queued>>
  BY DEF Wait, HelpNobody, Block, Compare, nodeVars, ctlVars, stateVars
<1>2. /\ stack[t] # <<>>
      /\ \/ Top(t).pc \in UserPcs \ {"user"}
         \/ Top(t).pc = "user" /\ \E op \in {"wait", "block"} : Calls(t, op)
  BY DEF Wait, HelpNobody, Block, Compare, Calls, At, UserPcs
<1>3. Top(t).making = None /\ Top(t).pc \in UserPcs
  <2>1. Top(t).pc \in UserPcs
    BY <1>2 DEF UserPcs
  <2>. QED BY <1>2, <2>1, UserTop
<1>4. Types' /\ \E l \in UserPcs : \E g, c : Steps(t, g, l, None, c, None, None)
  BY WaitStep, HelpNobodyStep, BlockStep, CompareStep DEF UserPcs
<1>5. PICK l \in UserPcs : \E g, c : Steps(t, g, l, None, c, None, None)
  BY <1>4
<1>6. PICK g, c : Steps(t, g, l, None, c, None, None)
  BY <1>5
<1>7. l = "user" \/ HandlesIn(t, g, hold)
  BY <1>2, <1>3, <1>6, WaitHandles
<1>. QED BY <1>1, <1>3, <1>4, <1>6, <1>7, WaitingRefs

-----------------------------------------------------------------------------
(* The end of a function.                                                  *)

\* The marks of those that settle a task of submit_task or then only matter to them.
LEMMA EndKeep ==
  ASSUME TaskStateAssumption, RefsInv, NEW p \in Nodes, Kind[p[1]] # "all", NEW G \in SUBSET {p[1]}, NEW L \in SUBSET {p[1]},
         NEW A \in SUBSET {p}, NEW B \in SUBSET {p},
         Unchanged({"arrived", "settle"}), Change("arrived", A, B), Change("settle", G, L),
         UNCHANGED <<refs, cont, nodes, remaining, hold, queued>>
  PROVE  /\ Apart' /\ ReadyInv' /\ RefInv' /\ StageInv' /\ CountInv'
         /\ \A n \in Nodes : IsWaiting(n)' <=> IsWaiting(n)
         /\ \A n \in Nodes : Marked("run", n)' <=> Marked("run", n)
<1>. USE DEF RefsInv, NodeInv
<1>1. \A m \in {"run", "make", "link", "give", "pass", "come"} : Change(m, {}, {})
  BY MarksAre DEF Unchanged
<1>2. Apart' /\ \A n \in Nodes : IsWaiting(n)' <=> IsWaiting(n)
  BY <1>1, ApartSame
<1>3. ReadyInv'
  BY <1>1, ReadySame
<1>4. nodes \in SUBSET Nodes
  BY DEF Types
<1>5. \A n \in Nodes : Kind[n[1]] = "all" => (Marked("arrived", n)' <=> Marked("arrived", n))
  BY DEF Change
<1>6. \A k \in Tasks : Kind[k] = "all" => (Marked("settle", k)' <=> Marked("settle", k))
  BY DEF Change
<1>7. \A k \in Tasks : Waiters(k)' = Waiters(k) /\ (ResultRef(k)' <=> ResultRef(k))
  BY <1>1, <1>4, <1>6, WaitersSame, ResultSame
<1>8. RefInv'
  BY <1>7, RefSame
<1>9. StageInv'
  BY <1>1, <1>7, StageSame
<1>10. \A n \in Nodes : (Marked("come", n)' <=> Marked("come", n)) /\ (Marked("run", n)' <=> Marked("run", n))
  BY <1>1, StayIs
<1>11. CountInv'
  BY <1>5, <1>10, <1>6, CountSame DEF Pends
<1>. QED BY <1>2, <1>3, <1>8, <1>9, <1>10, <1>11

LEMMA EndRefs ==
  ASSUME TaskStateAssumption, RefsInv, NEW t \in Threads, stack[t] # <<>>, Top(t).pc \in {"look", "user"},
         Top(t).making = None, Top(t).node # None, Kind[Top(t).node[1]] # "all",
         NEW g, NEW c, NEW e, Steps(t, g, "store", None, c, None, e),
         Types', UNCHANGED <<refs, cont, nodes, next, remaining, hold, queued>>
  PROVE  RefsInv'
<1>. USE DEF RefsInv, NodeInv
<1>. DEFINE n == Top(t).node  k == Top(t).node[1]
<1>1. n \in Nodes /\ k \in Tasks
  BY RunOnly, NodeTyped
<1>2. ~Has(Top(t), "settle", k)
  BY HasRules DEF SettlerPcs, SettlePcs, LeavePcs
<1>3. ~Marked("settle", k)
  BY <1>2, NotSettled
<1>4. /\ Once' /\ Unchanged({"arrived", "settle"})
      /\ Change("arrived", {n}, {}) /\ Change("settle", {k}, {})
  BY <1>3, EndMarks
<1>5. g.node = n /\ g.making = None /\ g.pc = "store" /\ ShapeInv'
  BY DEF Steps, Is
<1>. HIDE DEF n, k
<1>6. /\ Apart' /\ ReadyInv' /\ RefInv' /\ StageInv' /\ CountInv'
      /\ \A i \in Nodes : IsWaiting(i)' <=> IsWaiting(i)
      /\ \A i \in Nodes : Marked("run", i)' <=> Marked("run", i)
  <2>1. Kind[n[1]] # "all" /\ k = n[1]
    BY DEF n, k
  <2>2. {k} \in SUBSET {n[1]} /\ {} \in SUBSET {n[1]} /\ {n} \in SUBSET {n} /\ {} \in SUBSET {n}
    BY <2>1
  <2>3. UNCHANGED <<refs, cont, nodes, remaining, hold, queued>>
    OBVIOUS
  <2>. QED BY <1>1, <1>4, <2>1, <2>2, <2>3, EndKeep
<1>7. HandleInv'
  BY HandleMove DEF UserPcs
<1>8. nodes \in SUBSET Nodes
  BY DEF Types
<1>9. SettleInv'
  BY <1>5, SettleSays, <1>1, <1>6, <1>8, SettleMove DEF Left, Own, LeavePcs, SubjectOf, n, k
<1>10. ListInv'
  BY <1>6, <1>8, ListMove DEF LeavePcs
<1>. QED BY <1>4, <1>5, <1>6, <1>7, <1>9, <1>10

LEMMA LookRefs ==
  ASSUME TaskStateAssumption, RefsInv, NEW t \in Threads, Look(t)
  PROVE  RefsInv'
<1>. USE DEF RefsInv
<1>1. UNCHANGED <<refs, cont, nodes, next, remaining, hold, queued>> /\ Top(t).pc = "look" /\ stack[t] # <<>>
  BY DEF Look, nodeVars, ctlVars, At, stateVars
<1>2. /\ Types' /\ Top(t).making = None /\ Top(t).node[1] = Subject(t)
      /\ \/ Kind[Subject(t)] = "all" /\ \E g, c, e : Steps(t, g, "release_pred", None, c, None, e)
         \/ Kind[Subject(t)] = "then" /\ \E g, c, e : Steps(t, g, "store", None, c, None, e)
         \/ Kind[Subject(t)] = "then" /\ \E g, c, e : Steps(t, g, "user", None, c, None, e)
  BY LookStep
<1>3. CASE Kind[Subject(t)] = "all" /\ \E g, c, e : Steps(t, g, "release_pred", None, c, None, e)
  BY <1>1, <1>2, <1>3, LookAllRefs
<1>4. CASE Kind[Subject(t)] = "then" /\ \E g, c, e : Steps(t, g, "store", None, c, None, e)
  BY <1>1, <1>2, NodeTop, <1>4, EndRefs DEF UserPcs
<1>5. CASE Kind[Subject(t)] = "then" /\ \E g, c, e : Steps(t, g, "user", None, c, None, e)
  BY <1>1, <1>2, <1>5, WaitingRefs DEF UserPcs
<1>. QED BY <1>2, <1>3, <1>4, <1>5

LEMMA ReturnRefs ==
  ASSUME TaskStateAssumption, RefsInv, NEW t \in Threads, Return(t)
  PROVE  RefsInv'
<1>. USE DEF RefsInv, NodeInv
<1>1. UNCHANGED <<refs, cont, nodes, next, remaining, hold, queued>> /\ Top(t).pc = "user" /\ stack[t] # <<>>
  BY DEF Return, nodeVars, ctlVars, At, stateVars
<1>2. /\ Types' /\ Top(t).making = None
      /\ \/ Top(t).node = None /\ Pops(t) /\ ShapeInv'
         \/ /\ Top(t).node # None /\ Kind[Top(t).node[1]] # "all"
            /\ \E g, c, e : Steps(t, g, "store", None, c, None, e)
  BY ReturnStep
<1>3. CASE Top(t).node # None
  BY <1>1, <1>2, <1>3, EndRefs
<1>4. CASE Top(t).node = None
  <2>1. Once' /\ SameMarks
    BY <1>1, <1>2, <1>4, ProgramMarks
  <2>2. /\ Apart' /\ ReadyInv' /\ RefInv' /\ StageInv' /\ CountInv'
        /\ \A n \in Nodes : IsWaiting(n)' <=> IsWaiting(n)
    BY <1>1, <2>1, CountsKeep
  <2>3. HandleInv'
    BY <1>1, <1>2, <1>4, HandlePop
  <2>4. nodes \in SUBSET Nodes /\ \A n \in Nodes : Marked("run", n)' <=> Marked("run", n)
    <3>1. Change("run", {}, {})
      BY <2>1, MarksAre DEF SameMarks
    <3>. QED BY <3>1, StayIs DEF Types
  <2>5. SettleInv'
    BY <1>1, <1>2, <1>4, <2>4, SettlePop
  <2>6. ListInv'
    BY <1>1, <1>2, <1>4, <2>2, <2>4, ListPop
  <2>. QED BY <1>2, <1>4, <2>1, <2>2, <2>3, <2>5, <2>6
<1>. QED BY <1>3, <1>4

-----------------------------------------------------------------------------
(* Schedule and Submit.                                                    *)

\* The frames after a step of t.
LEMMA NextFrame ==
  ASSUME Types, NEW t \in Threads, NEW g, NEW l, NEW m, NEW c, NEW x, NEW e, Steps(t, g, l, m, c, x, e)
  PROVE  /\ Frames' = Frames /\ Tip(t) \in Frames /\ FrameAt(Tip(t)) = Top(t) /\ stack[t] # <<>>
         /\ \A y \in Frames : y = Tip(t) => FrameAt(y)' = g
         /\ \A y \in Frames : y # Tip(t) => /\ Alike(FrameAt(y), FrameAt(y)')
                                            /\ FrameAt(y)'.pc \in LeavePcs => Leaver(FrameAt(y), FrameAt(y)')
                                            /\ FrameAt(y).pc = "cas" => FrameAt(y)' = FrameAt(y)
         /\ g.pc = l /\ g.making = m /\ g.cur = c /\ g.nxt = x /\ g.node = Top(t).node
BY TipTyped, AlikeLeaver DEF Steps, Moves, Is

\* The list without its first node, which is to be given to the scheduler.
LEMMA ScheduleList ==
  ASSUME TaskStateAssumption, Types, ShapeInv, ListInv, NEW t \in Threads, stack[t] # <<>>,
         Top(t).pc = "schedule", Top(t).cur # None,
         NEW g, NEW e, Steps(t, g, "submit", Top(t).making, Top(t).cur, next[Top(t).cur], e),
         cont' = cont, next' = [next EXCEPT ![Top(t).cur] = None], nodes' = nodes,
         \A n \in Nodes : IsWaiting(n)' <=> IsWaiting(n)
  PROVE  ListInv'
<1>. DEFINE f == Top(t)  d == Top(t).cur  k == SubjectOf(Top(t))
<1>1. /\ Frames' = Frames /\ Tip(t) \in Frames /\ FrameAt(Tip(t)) = f
      /\ \A y \in Frames : y = Tip(t) => FrameAt(y)' = g
      /\ \A y \in Frames : y # Tip(t) => /\ Alike(FrameAt(y), FrameAt(y)')
                                         /\ FrameAt(y)'.pc \in LeavePcs => Leaver(FrameAt(y), FrameAt(y)')
                                         /\ FrameAt(y).pc = "cas" => FrameAt(y)' = FrameAt(y)
      /\ g.pc = "submit" /\ g.making = f.making /\ g.cur = d /\ g.nxt = next[d] /\ g.node = f.node
  BY NextFrame
<1>2. SubjectOf(g) = k
  BY <1>1 DEF SubjectOf
<1>3. CurOK(f) /\ f.pc = "schedule" /\ d # None
  BY <1>1 DEF ListInv
<1>4. Continues(d, k)
  BY <1>3 DEF CurOK, LeavePcs
<1>5. d \in Nodes /\ IsWaiting(d) /\ d \in nodes /\ PredOf(d) = k /\ NextOK(d)
  BY <1>4 DEF Continues, IsWaiting, ListInv
<1>6. nodes \in SUBSET Nodes /\ next \in [Nodes -> Nodes \cup {None}]
  BY DEF Types
<1>7. \A n, j : Continues(n, j)' <=> Continues(n, j)
  BY DEF Continues, PredOf
<1>8. /\ next[d] # None => Continues(next[d], k) /\ next[d] # d
      /\ \A m \in nodes : IsWaiting(m) /\ next[m] = next[d] => m = d \/ next[d] = None
  <2>1. next[d] = d => next[d] = None
    <3>1. \A x \in Frames : FrameAt(x).pc \in LeavePcs /\ next[d] \in {FrameAt(x).cur, FrameAt(x).nxt}
                              => next[d] = None
      BY <1>5 DEF NextOK
    <3>2. FrameAt(Tip(t)).pc \in LeavePcs /\ FrameAt(Tip(t)).cur = d
      BY <1>1, <1>3 DEF LeavePcs
    <3>. HIDE DEF d, f
    <3>. QED BY <1>1, <3>1, <3>2
  <2>2. /\ next[d] # None => Continues(next[d], PredOf(d))
        /\ \A m \in nodes : IsWaiting(m) /\ next[m] = next[d] => m = d \/ next[d] = None
    BY <1>5 DEF NextOK
  <2>3. d # None /\ PredOf(d) = k
    BY <1>3, <1>5
  <2>. HIDE DEF d, f, k
  <2>. QED BY <2>1, <2>2, <2>3
<1>. HIDE DEF f, d, k
<1>9. next'[d] = None /\ \A n \in Nodes : n # d => next'[n] = next[n]
  BY <1>5, <1>6 DEF d
<1>10. ASSUME NEW j \in Tasks PROVE HeadOK(j)'
  <2>1. HeadOK(j)
    BY DEF ListInv
  <2>. QED BY <1>7, <2>1 DEF HeadOK
<1>11. ASSUME NEW y \in Frames' PROVE CurOK(FrameAt(y))'
  <2>0. y \in Frames /\ SubjectOf(FrameAt(y))' = SubjectOf(FrameAt(y)')
    BY <1>1 DEF SubjectOf
  <2>1. CASE FrameAt(y)'.pc \notin LeavePcs
    BY <2>1 DEF CurOK
  <2>2. CASE y = Tip(t)
    BY <1>1, <2>0, <2>2, <1>2, <1>3, <1>4, <1>7, <1>8, <1>9 DEF CurOK
  <2>3. CASE y # Tip(t) /\ FrameAt(y)'.pc \in LeavePcs
    <3>1. Leaver(FrameAt(y), FrameAt(y)') /\ CurOK(FrameAt(y))
      BY <1>1, <2>0, <2>3 DEF ListInv
    <3>2. FrameAt(y)'.pc = "submit" => next'[FrameAt(y)'.cur] = None
      BY <3>1, <1>9 DEF Leaver, CurOK, LeavePcs, Continues
    <3>. QED BY <1>7, <2>0, <3>1, <3>2 DEF CurOK, Leaver
  <2>. QED BY <2>1, <2>2, <2>3
<1>12. ASSUME NEW n \in nodes' PROVE NextOK(n)'
  <2>. SUFFICES ASSUME IsWaiting(n)' PROVE NextOK(n)'
    BY DEF NextOK
  <2>1. IsWaiting(n) /\ n \in nodes /\ NextOK(n) /\ n \in Nodes
    BY <1>6 DEF IsWaiting, ListInv
  <2>2. /\ Kind[n[1]] # "produce"
        /\ next[n] # None => Continues(next[n], PredOf(n))
        /\ \A j \in Tasks : next[n] = cont[j] => next[n] = None
        /\ \A m \in nodes : IsWaiting(m) /\ next[m] = next[n] => m = n \/ next[n] = None
        /\ \A x \in Frames : FrameAt(x).pc \in LeavePcs /\ next[n] \in {FrameAt(x).cur, FrameAt(x).nxt}
                              => next[n] = None
    BY <2>1 DEF NextOK
  <2>3. PredOf(n)' = PredOf(n)
    BY DEF PredOf
  <2>4. CASE n = d
    <3>1. next'[n] = None
      BY <1>9, <2>4
    <3>. QED BY <2>2, <3>1 DEF NextOK
  <2>5. CASE n # d
    <3>1. next'[n] = next[n]
      BY <1>9, <2>1, <2>5
    <3>2. \A m \in nodes' : IsWaiting(m)' /\ next'[m] = next[n] => m = n \/ next[n] = None
      <4>. SUFFICES ASSUME NEW m \in nodes', IsWaiting(m)', next'[m] = next[n] PROVE m = n \/ next[n] = None
        OBVIOUS
      <4>1. m \in nodes /\ m \in Nodes /\ IsWaiting(m)
        BY <1>6
      <4>. QED BY <1>9, <2>2, <4>1
    <3>3. \A y \in Frames' : FrameAt(y)'.pc \in LeavePcs /\ next[n] \in {FrameAt(y)'.cur, FrameAt(y)'.nxt}
                              => next[n] = None
      <4>. SUFFICES ASSUME NEW y \in Frames', FrameAt(y)'.pc \in LeavePcs,
                           next[n] \in {FrameAt(y)'.cur, FrameAt(y)'.nxt}
                    PROVE  next[n] = None
        OBVIOUS
      <4>1. y \in Frames
        BY <1>1
      <4>2. CASE y = Tip(t)
        BY <1>1, <4>1, <4>2, <1>3, <2>2, <1>8, <2>1, <2>5 DEF LeavePcs, d, f
      <4>3. CASE y # Tip(t)
        BY <1>1, <4>1, <4>3, <2>2 DEF Leaver
      <4>. QED BY <4>2, <4>3
    <3>. QED BY <1>7, <2>2, <2>3, <3>1, <3>2, <3>3 DEF NextOK
  <2>. QED BY <2>4, <2>5
<1>13. ASSUME NEW n \in Nodes, next'[n] # None PROVE IsWaiting(n)' \/ Casing(n)'
  <2>1. n # d /\ next[n] # None
    BY <1>9, <1>13
  <2>2. CASE IsWaiting(n)
    BY <2>2
  <2>3. CASE Casing(n)
    <3>1. PICK y \in Frames : FrameAt(y).pc = "cas" /\ FrameAt(y).cur = n
      BY <2>3 DEF Casing
    <3>2. y # Tip(t) /\ y \in Frames'
      BY <1>1, <1>3, <3>1
    <3>3. FrameAt(y)' = FrameAt(y)
      BY <1>1, <3>1, <3>2
    <3>. QED BY <3>1, <3>2, <3>3 DEF Casing
  <2>. QED BY <2>1, <2>2, <2>3 DEF ListInv
<1>. QED BY <1>10, <1>11, <1>12, <1>13 DEF ListInv

\* A maker that has settled the task it made is done with the call.
LEMMA ReturnedKeep ==
  ASSUME TaskStateAssumption, RefsInv, NEW t \in Threads,
         Top(t).pc \in {"schedule", "release_result"}, Top(t).making # None,
         NEW g, Steps(t, g, "user", None, None, None, None), Types',
         UNCHANGED <<cont, nodes, next, remaining, hold, queued>>,
         \A k \in Tasks : Unmade(k) \/ k = Top(t).making \/ (ResultRef(k)' <=> ResultRef(k))
  PROVE  /\ Types' /\ ShapeInv' /\ HandleInv' /\ NodeInv' /\ ListInv' /\ StageInv' /\ CountInv'
         /\ \A k \in Tasks : Waiters(k)' = Waiters(k)
         /\ Change("settle", {}, {Top(t).making}) /\ Marked("settle", Top(t).making)
<1>. USE DEF RefsInv, NodeInv
<1>. DEFINE k0 == Top(t).making
<1>1. /\ Once' /\ Unchanged({"make", "settle"})
      /\ Change("make", {}, {k0}) /\ Change("settle", {}, {k0})
  BY ReturnedMarks
<1>2. /\ stack[t] # <<>> /\ g.node = Top(t).node /\ g.making = None /\ g.pc = "user" /\ ShapeInv'
  BY DEF Steps, Is
<1>3. SubjectOf(Top(t)) = k0 /\ k0 \in Tasks /\ Top(t).pc \in SettlerPcs /\ cont[k0] = Finished
  BY <1>2, SettleSays DEF SubjectOf, SettlerPcs, LeavePcs
<1>4. Marked("settle", k0)
  <2>1. Has(Top(t), "settle", k0)
    BY <1>3, Names, HasRules
  <2>. QED BY <1>2, <2>1, TopMarked
<1>5. Own(Top(t)) = "user" /\ Own(g) = "user"
  BY <1>2 DEF Own
<1>. HIDE DEF k0
<1>6. \A m \in {"run", "link", "give", "pass", "arrived", "come"} : Change(m, {}, {})
  BY <1>1, MarksAre DEF Unchanged
<1>7. Apart' /\ \A n \in Nodes : IsWaiting(n)' <=> IsWaiting(n)
  BY <1>6, ApartSame
<1>8. ReadyInv'
  BY <1>6, ReadySame
<1>9. nodes \in SUBSET Nodes /\ \A n \in Nodes : Marked("run", n)' <=> Marked("run", n)
  BY <1>6, StayIs DEF Types
<1>10. SettleInv'
  <2>1. Left(g) <=> Left(Top(t))
    BY <1>5 DEF Left
  <2>. QED BY <1>9, <2>1, SettleMove DEF SettlePcs, LeavePcs
<1>11. HandleInv'
  BY HandleMove
<1>12. ListInv'
  BY <1>7, <1>9, ListMove DEF LeavePcs
<1>13. \A k \in Tasks : Waiters(k)' = Waiters(k)
  BY <1>6, <1>9, WaitersSame
<1>14. \A k \in Tasks : /\ Marked("make", k)' <=> Marked("make", k) /\ k # k0
                        /\ Marked("settle", k)' <=> Marked("settle", k) /\ k # k0
  BY <1>1 DEF Change
<1>15. StageInv'
  <2>. SUFFICES ASSUME NEW k \in Tasks PROVE Unmade(k)' \/ Marked("make", k)' \/ ResultRef(k)' \/ cont'[k] = Finished
    BY DEF StageInv
  <2>1. Unmade(k) => Unmade(k)'
    BY <1>14 DEF Unmade
  <2>2. k = k0 => cont'[k] = Finished
    BY <1>3
  <2>3. Unmade(k) \/ Marked("make", k) \/ ResultRef(k) \/ cont[k] = Finished
    BY DEF StageInv
  <2>. QED BY <1>14, <2>1, <2>2, <2>3 DEF k0
<1>16. CountInv'
  BY <1>6, PendsSame, <1>14, CountSame
<1>. QED BY <1>1, <1>2, <1>4, <1>7, <1>8, <1>10, <1>11, <1>12, <1>13, <1>15, <1>16 DEF k0

LEMMA ScheduleRefs ==
  ASSUME TaskStateAssumption, RefsInv, NEW t \in Threads, Schedule(t)
  PROVE  RefsInv'
<1>. USE DEF RefsInv, NodeInv
<1>. DEFINE f == Top(t)  k == SubjectOf(Top(t))
<1>1. UNCHANGED <<refs, cont, nodes, remaining, hold, queued>> /\ f.pc = "schedule" /\ stack[t] # <<>>
  BY DEF Schedule, ctlVars, At, stateVars
<1>2. /\ Types'
      /\ \/ /\ f.cur # None /\ next' = [next EXCEPT ![f.cur] = None]
            /\ \E g, e : Steps(t, g, "submit", f.making, f.cur, next[f.cur], e)
         \/ /\ next' = next /\ Pred[k] = <<>> /\ f.making = k
            /\ \E g : Steps(t, g, "user", None, None, None, None)
         \/ /\ next' = next /\ Kind[k] = "then" /\ f.making = None
            /\ \E g, e : Steps(t, g, "release_pred", None, None, None, e)
         \/ /\ next' = next /\ Kind[k] # "then"
            /\ \E g, e : Steps(t, g, "release_result", f.making, None, None, e)
  BY ScheduleStep DEF Subject
<1>3. /\ k \in Tasks /\ Top(t).nxt = None
      /\ f.making = None => f.node \in Nodes /\ f.node # None /\ k = f.node[1]
  BY <1>1, SettleTop DEF SettlerPcs, LeavePcs, Subject
<1>4. nodes \in SUBSET Nodes /\ k # None
  BY <1>3, Names DEF Types
<1>5. CASE f.cur # None /\ next' = [next EXCEPT ![f.cur] = None] /\ \E g, e : Steps(t, g, "submit", f.making, f.cur, next[f.cur], e)
  <2>1. PICK g, e : Steps(t, g, "submit", f.making, f.cur, next[f.cur], e)
    BY <1>5
  <2>2. Once' /\ SameMarks
    BY <1>1, <2>1, SettlerSame DEF SettlerPcs, LeavePcs
  <2>3. /\ Apart' /\ ReadyInv' /\ RefInv' /\ StageInv' /\ CountInv'
        /\ \A n \in Nodes : IsWaiting(n)' <=> IsWaiting(n)
    BY <1>1, <2>2, CountsKeep
  <2>4. g.node = f.node /\ g.making = f.making /\ g.pc = "submit" /\ ShapeInv'
    BY <2>1 DEF Steps, Is
  <2>5. HandleInv'
    BY <1>1, <2>1, HandleMove DEF UserPcs
  <2>6. \A n \in Nodes : Marked("run", n)' <=> Marked("run", n)
    <3>1. Change("run", {}, {})
      BY <2>2, MarksAre DEF SameMarks
    <3>. QED BY <3>1, StayIs
  <2>7. SettleInv'
    BY <1>1, <2>4, SettleSays, <1>3, <1>4, <2>1, <2>6, SettleMove DEF Left, Own, LeavePcs, SubjectOf,
       SettlePcs
  <2>8. ListInv'
    BY <1>1, <1>5, <2>1, <2>3, ScheduleList
  <2>. QED BY <1>2, <2>2, <2>3, <2>4, <2>5, <2>7, <2>8
<1>6. CASE next' = next /\ Pred[k] = <<>> /\ f.making = k /\ \E g : Steps(t, g, "user", None, None, None, None)
  <2>1. PICK g : Steps(t, g, "user", None, None, None, None)
    BY <1>6
  <2>2. \A j \in Tasks : j = Top(t).making \/ (ResultRef(j)' <=> ResultRef(j))
    BY <1>1, <1>4, <1>6, <2>1, ReturnedMarks, ResultSame DEF Change
  <2>3. /\ Types' /\ ShapeInv' /\ HandleInv' /\ NodeInv' /\ ListInv' /\ StageInv' /\ CountInv'
        /\ \A j \in Tasks : Waiters(j)' = Waiters(j)
    BY <1>1, <1>2, <1>4, <1>6, <2>1, <2>2, ReturnedKeep
  <2>4. \A j \in Tasks : j = Top(t).making => (ResultRef(j)' <=> ResultRef(j))
    BY <1>4, <1>6, <1>1, SettleTop DEF SettlerPcs, LeavePcs, ResultRef
  <2>5. \A j \in Tasks : ResultRef(j)' <=> ResultRef(j)
    BY <1>6, <2>2, <2>4
  <2>6. RefInv'
    BY <1>1, <2>3, <2>5, RefSame
  <2>. QED BY <2>3, <2>6
<1>7. CASE next' = next /\ Kind[k] = "then" /\ f.making = None /\ \E g, e : Steps(t, g, "release_pred", None, None, None, e)
  <2>1. PICK g, e : Steps(t, g, "release_pred", None, None, None, e)
    BY <1>7
  <2>2. /\ Once' /\ Unchanged({"arrived", "settle"})
        /\ Change("arrived", {}, {f.node}) /\ Change("settle", {}, {k})
    BY <1>1, <1>3, <1>7, <2>1, LeaveMarks
  <2>3. /\ Apart' /\ ReadyInv' /\ RefInv' /\ StageInv' /\ CountInv'
        /\ \A i \in Nodes : IsWaiting(i)' <=> IsWaiting(i)
        /\ \A i \in Nodes : Marked("run", i)' <=> Marked("run", i)
    BY <1>3, <1>7, <1>1, <2>2, EndKeep
  <2>4. g.node = f.node /\ g.making = f.making /\ g.pc = "release_pred" /\ ShapeInv'
    BY <1>7, <2>1 DEF Steps, Is
  <2>5. HandleInv'
    BY <1>1, <2>1, HandleMove DEF UserPcs
  <2>6. SettleInv'
    BY <1>1, <2>4, <1>4, <2>1, <2>3, SettleMove DEF Left, Own, LeavePcs, SettlePcs
  <2>7. ListInv'
    BY <1>1, <1>4, <1>7, <2>1, <2>3, ListMove DEF LeavePcs
  <2>. QED BY <1>2, <2>2, <2>3, <2>4, <2>5, <2>6, <2>7
<1>8. CASE next' = next /\ Kind[k] # "then" /\ \E g, e : Steps(t, g, "release_result", f.making, None, None, e)
  <2>1. PICK g, e : Steps(t, g, "release_result", f.making, None, None, e)
    BY <1>8
  <2>2. Once' /\ SameMarks
    BY <1>1, <1>8, <2>1, SettlerSame DEF SettlerPcs, LeavePcs
  <2>3. g.node = f.node /\ g.making = f.making /\ g.pc = "release_result"
    BY <2>1 DEF Steps, Is
  <2>4. Left(g) <=> Left(Top(t))
    BY <1>1, <2>3 DEF Left, Own, LeavePcs
  <2>. QED BY <1>1, <1>2, <1>8, <2>1, <2>2, <2>4, SteadyStep DEF UserPcs, SettlePcs, LeavePcs
<1>. QED BY <1>2, <1>5, <1>6, <1>7, <1>8

\* The list whose first node has been given to the scheduler.
LEMMA SubmitList ==
  ASSUME TaskStateAssumption, Types, ShapeInv, Once, ListInv, NEW t \in Threads, stack[t] # <<>>,
         Top(t).pc = "submit", SubjectOf(Top(t)) \in Tasks, cont[SubjectOf(Top(t))] = Finished,
         NEW g, NEW e, Steps(t, g, "schedule", Top(t).making, Top(t).nxt, None, e),
         cont' = cont, next' = next, nodes' = nodes,
         \A n \in Nodes : IsWaiting(n)' <=> IsWaiting(n) /\ n # Top(t).cur
  PROVE  ListInv'
<1>. DEFINE f == Top(t)  d == Top(t).cur  k == SubjectOf(Top(t))
<1>1. /\ Frames' = Frames /\ Tip(t) \in Frames /\ FrameAt(Tip(t)) = f
      /\ \A y \in Frames : y = Tip(t) => FrameAt(y)' = g
      /\ \A y \in Frames : y # Tip(t) => /\ Alike(FrameAt(y), FrameAt(y)')
                                         /\ FrameAt(y)'.pc \in LeavePcs => Leaver(FrameAt(y), FrameAt(y)')
                                         /\ FrameAt(y).pc = "cas" => FrameAt(y)' = FrameAt(y)
      /\ g.pc = "schedule" /\ g.making = f.making /\ g.cur = f.nxt /\ g.nxt = None /\ g.node = f.node
  BY NextFrame
<1>2. SubjectOf(g) = k
  BY <1>1 DEF SubjectOf
<1>3. CurOK(f) /\ f.pc = "submit"
  BY <1>1 DEF ListInv
<1>4. /\ Continues(d, k) /\ d # None /\ next[d] = None
      /\ f.nxt # None => Continues(f.nxt, k) /\ f.nxt # d
  BY <1>3 DEF CurOK, LeavePcs
<1>5. d \in Nodes /\ IsWaiting(d) /\ d \in nodes /\ PredOf(d) = k
  BY <1>4 DEF Continues, IsWaiting
<1>6. nodes \in SUBSET Nodes /\ next \in [Nodes -> Nodes \cup {None}]
  BY DEF Types
<1>7. \A n, j : Continues(n, j)' <=> Continues(n, j) /\ n # d
  BY DEF Continues, PredOf
\* Only t settles the task.
<1>8. \A y \in Frames : FrameAt(y).pc \in LeavePcs /\ d \in {FrameAt(y).cur, FrameAt(y).nxt} => y = Tip(t)
  <2>. SUFFICES ASSUME NEW y \in Frames, FrameAt(y).pc \in LeavePcs, d \in {FrameAt(y).cur, FrameAt(y).nxt}
                PROVE  y = Tip(t)
    OBVIOUS
  <2>1. CurOK(FrameAt(y))
    BY DEF ListInv
  <2>2. Continues(d, SubjectOf(FrameAt(y)))
    BY <1>4, <2>1 DEF CurOK
  <2>3. SubjectOf(FrameAt(y)) = k
    BY <1>5, <2>2 DEF Continues
  <2>4. k # None /\ k \in Tasks
    BY Names
  <2>5. Has(FrameAt(y), "settle", k) /\ Has(FrameAt(Tip(t)), "settle", k)
    BY <1>1, <1>3, <2>3, <2>4, HasRules DEF SettlerPcs, LeavePcs
  <2>. HIDE DEF k
  <2>. QED BY <1>1, <2>4, <2>5, MarksAre DEF Once
<1>. HIDE DEF f, d, k
<1>10. ASSUME NEW j \in Tasks PROVE HeadOK(j)'
  <2>1. HeadOK(j)
    BY DEF ListInv
  <2>2. cont[j] = d => j = k
    BY <1>5, <2>1, Names DEF HeadOK, Continues
  <2>3. cont[j] # d
    BY <1>5, <2>2, Names DEF k
  <2>. QED BY <1>7, <2>1, <2>3 DEF HeadOK
<1>11. ASSUME NEW y \in Frames' PROVE CurOK(FrameAt(y))'
  BY <1>1, <1>2, <1>3, <1>4, <1>7, <1>8 DEF SubjectOf, CurOK, ListInv, Leaver
<1>12. ASSUME NEW n \in nodes' PROVE NextOK(n)'
  <2>. SUFFICES ASSUME IsWaiting(n)' PROVE NextOK(n)'
    BY DEF NextOK
  <2>1. IsWaiting(n) /\ n \in nodes /\ NextOK(n) /\ n \in Nodes
    BY <1>6 DEF IsWaiting, ListInv
  <2>2. /\ Kind[n[1]] # "produce"
        /\ next[n] # None => Continues(next[n], PredOf(n))
        /\ \A j \in Tasks : next[n] = cont[j] => next[n] = None
        /\ \A m \in nodes : IsWaiting(m) /\ next[m] = next[n] => m = n \/ next[n] = None
        /\ \A x \in Frames : FrameAt(x).pc \in LeavePcs /\ next[n] \in {FrameAt(x).cur, FrameAt(x).nxt}
                              => next[n] = None
    BY <2>1 DEF NextOK
  <2>3. PredOf(n)' = PredOf(n)
    BY DEF PredOf
  <2>4. next[n] # d
    BY <1>1, <1>3, <1>4, <2>2 DEF LeavePcs, d, f
  <2>5. next[n] # None => Continues(next[n], PredOf(n))'
    BY <1>7, <2>2, <2>3, <2>4
  <2>6. \A m \in nodes' : IsWaiting(m)' /\ next[m] = next[n] => m = n \/ next[n] = None
    BY <1>6, <2>2
  <2>7. \A y \in Frames' : FrameAt(y)'.pc \in LeavePcs /\ next[n] \in {FrameAt(y)'.cur, FrameAt(y)'.nxt}
                              => next[n] = None
    <3>. SUFFICES ASSUME NEW y \in Frames', FrameAt(y)'.pc \in LeavePcs,
                         next[n] \in {FrameAt(y)'.cur, FrameAt(y)'.nxt}
                  PROVE  next[n] = None
      OBVIOUS
    <3>1. y \in Frames
      BY <1>1
    <3>2. CASE y = Tip(t)
      BY <1>1, <3>1, <3>2, <1>3, <2>2 DEF LeavePcs
    <3>3. CASE y # Tip(t)
      BY <1>1, <3>1, <3>3, <2>2 DEF Leaver
    <3>. QED BY <3>2, <3>3
  <2>. QED BY <2>2, <2>5, <2>6, <2>7 DEF NextOK
<1>13. ASSUME NEW n \in Nodes, next'[n] # None PROVE IsWaiting(n)' \/ Casing(n)'
  <2>1. n # d /\ next[n] # None
    BY <1>4, <1>13
  <2>2. CASE IsWaiting(n)
    BY <2>1, <2>2 DEF d
  <2>3. CASE Casing(n)
    <3>1. PICK y \in Frames : FrameAt(y).pc = "cas" /\ FrameAt(y).cur = n
      BY <2>3 DEF Casing
    <3>2. y # Tip(t) /\ y \in Frames'
      BY <1>1, <1>3, <3>1
    <3>3. FrameAt(y)' = FrameAt(y)
      BY <1>1, <3>1, <3>2
    <3>. QED BY <3>1, <3>2, <3>3 DEF Casing
  <2>. QED BY <2>1, <2>2, <2>3 DEF ListInv
<1>. QED BY <1>10, <1>11, <1>12, <1>13 DEF ListInv

LEMMA SubmitRefs ==
  ASSUME TaskStateAssumption, RefsInv, NEW t \in Threads, Submit(t)
  PROVE  RefsInv'
<1>. USE DEF RefsInv, NodeInv
<1>1. /\ UNCHANGED <<refs, cont, next, nodes, remaining, hold>> /\ Top(t).pc = "submit" /\ stack[t] # <<>>
      /\ queued' = queued \cup {Top(t).cur}
  BY DEF Submit, nodeVars, ctlVars, At, stateVars
<1>2. PICK d : d = Top(t).cur
  OBVIOUS
<1>3. Types' /\ \E g, e : Steps(t, g, "schedule", Top(t).making, Top(t).nxt, None, e)
  BY SubmitStep
<1>4. PICK g, e : Steps(t, g, "schedule", Top(t).making, Top(t).nxt, None, e)
  BY <1>3
<1>5. Once' /\ SameMarks
  BY <1>1, <1>4, SettlerSame DEF SettlerPcs, LeavePcs
<1>6. g.node = Top(t).node /\ g.making = Top(t).making /\ g.pc = "schedule" /\ ShapeInv'
  BY <1>4 DEF Steps, Is
<1>7. PICK k \in Tasks : k = SubjectOf(Top(t)) /\ cont[k] = Finished
  BY <1>1, SettleSays DEF SettlerPcs, LeavePcs
<1>8. d \in Nodes /\ IsWaiting(d) /\ PredOf(d) = k /\ d \in nodes
  BY <1>1, TipTyped, <1>2, <1>7 DEF ListInv, CurOK, LeavePcs, Continues, IsWaiting
<1>9. /\ \A j \in Tasks : Waiters(j)' = Waiters(j) /\ (ResultRef(j)' <=> ResultRef(j))
      /\ \A n \in Nodes : Pends(n)' <=> Pends(n)
      /\ \A m \in Marks : \A n \in Nodes \cup Tasks : Marked(m, n)' <=> Marked(m, n)
  BY <1>1, <1>5, MarksSame
<1>10. \A n \in Nodes : /\ Marked("run", n)' <=> Marked("run", n)
                        /\ Marked("link", n)' <=> Marked("link", n)
                        /\ Marked("come", n)' <=> Marked("come", n)
                        /\ Marked("give", n)' <=> Marked("give", n)
  BY <1>9, MarksAre
<1>11. Apart'
  BY <1>8, <1>1, <1>2, <1>10 DEF IsWaiting, Apart
<1>12. ReadyInv'
  BY <1>1, <1>2, <1>10, <1>7, <1>8, ReadyMove DEF IsReady
<1>13. nodes \in SUBSET Nodes
  BY DEF Types
<1>14. SettleInv'
  BY <1>1, <1>6, <1>7, <1>4, <1>10, <1>13, SettleMove DEF Left, Own, LeavePcs, SubjectOf, SettlePcs
<1>15. \A n \in Nodes : IsWaiting(n)' <=> IsWaiting(n) /\ n # Top(t).cur
  BY <1>1, <1>10 DEF IsWaiting
<1>16. ListInv'
  BY <1>1, <1>4, <1>7, <1>15, SubmitList
<1>17. HandleInv'
  BY <1>1, <1>4, HandleMove DEF UserPcs
<1>18. RefInv'
  BY <1>1, <1>9, RefSame
<1>19. StageInv'
  <2>1. Change("make", {}, {})
    BY <1>5, MarksAre DEF SameMarks
  <2>. QED BY <1>1, <1>9, <2>1, StageSame
<1>20. CountInv'
  BY <1>9, MarksAre, <1>1, CountSame
<1>. QED BY <1>3, <1>5, <1>6, <1>11, <1>12, <1>14, <1>16, <1>17, <1>18, <1>19, <1>20

-----------------------------------------------------------------------------
(* Exchange.                                                               *)

\* The list of a task that completes passes to the frame that settles it.
LEMMA ExchangeList ==
  ASSUME TaskStateAssumption, Types, ShapeInv, ListInv, NEW t \in Threads, stack[t] # <<>>,
         Top(t).pc = "exchange", NEW k \in Tasks, k = SubjectOf(Top(t)), cont[k] # Finished,
         NEW g, NEW e, Steps(t, g, "notify", Top(t).making, cont[k], None, e),
         cont' = [cont EXCEPT ![k] = Finished], next' = next, nodes' = nodes,
         \A n \in Nodes : IsWaiting(n)' <=> IsWaiting(n)
  PROVE  ListInv'
<1>. DEFINE f == Top(t)
<1>1. /\ Frames' = Frames /\ Tip(t) \in Frames /\ FrameAt(Tip(t)) = f
      /\ \A y \in Frames : y = Tip(t) => FrameAt(y)' = g
      /\ \A y \in Frames : y # Tip(t) => /\ Alike(FrameAt(y), FrameAt(y)')
                                         /\ FrameAt(y)'.pc \in LeavePcs => Leaver(FrameAt(y), FrameAt(y)')
                                         /\ FrameAt(y).pc = "cas" => FrameAt(y)' = FrameAt(y)
      /\ g.pc = "notify" /\ g.making = f.making /\ g.cur = cont[k] /\ g.nxt = None /\ g.node = f.node
  BY NextFrame
<1>2. SubjectOf(g) = k
  BY <1>1 DEF SubjectOf
<1>3. HeadOK(k)
  BY DEF ListInv
<1>6. /\ nodes \in SUBSET Nodes /\ next \in [Nodes -> Nodes \cup {None}]
      /\ cont \in [Tasks -> Nodes \cup {None, Finished}]
  BY DEF Types
<1>7. \A n, j : Continues(n, j)' <=> Continues(n, j)
  BY DEF Continues, PredOf
<1>9. cont'[k] = Finished /\ \A j \in Tasks : j # k => cont'[j] = cont[j]
  BY <1>6
<1>. HIDE DEF f
<1>10. ASSUME NEW j \in Tasks PROVE HeadOK(j)'
  <2>1. HeadOK(j)
    BY DEF ListInv
  <2>. QED BY <1>7, <1>9, <2>1 DEF HeadOK
<1>11. ASSUME NEW y \in Frames' PROVE CurOK(FrameAt(y))'
  <2>0. y \in Frames /\ SubjectOf(FrameAt(y))' = SubjectOf(FrameAt(y)')
    BY <1>1 DEF SubjectOf
  <2>1. CASE FrameAt(y)'.pc \notin LeavePcs
    BY <2>1 DEF CurOK
  <2>2. CASE y = Tip(t)
    <3>1. FrameAt(y)' = g
      BY <1>1, <2>0, <2>2
    <3>2. PICK h : h = cont[k]
      OBVIOUS
    <3>3. h # None => Continues(h, k)'
      BY <1>3, <1>7, <3>2 DEF HeadOK
    <3>. QED BY <1>1, <1>2, <2>0, <3>1, <3>2, <3>3 DEF CurOK
  <2>3. CASE y # Tip(t) /\ FrameAt(y)'.pc \in LeavePcs
    BY <1>1, <2>0, <2>3, <1>7 DEF ListInv, CurOK, Leaver
  <2>. QED BY <2>1, <2>2, <2>3
<1>12. ASSUME NEW n \in nodes' PROVE NextOK(n)'
  <2>. SUFFICES ASSUME IsWaiting(n)' PROVE NextOK(n)'
    BY DEF NextOK
  <2>1. IsWaiting(n) /\ n \in nodes /\ NextOK(n) /\ n \in Nodes /\ next[n] \in Nodes \cup {None}
    BY <1>6 DEF IsWaiting, ListInv
  <2>2. /\ Kind[n[1]] # "produce"
        /\ next[n] # None => Continues(next[n], PredOf(n))
        /\ \A j \in Tasks : next[n] = cont[j] => next[n] = None
        /\ \A m \in nodes : IsWaiting(m) /\ next[m] = next[n] => m = n \/ next[n] = None
        /\ \A x \in Frames : FrameAt(x).pc \in LeavePcs /\ next[n] \in {FrameAt(x).cur, FrameAt(x).nxt}
                              => next[n] = None
    BY <2>1 DEF NextOK
  <2>3. PredOf(n)' = PredOf(n)
    BY DEF PredOf
  <2>4. \A j \in Tasks : next[n] = cont'[j] => next[n] = None
    BY <1>9, <2>1, <2>2, Names
  <2>6. \A m \in nodes' : IsWaiting(m)' /\ next[m] = next[n] => m = n \/ next[n] = None
    BY <1>6, <2>2
  <2>7. \A y \in Frames' : FrameAt(y)'.pc \in LeavePcs /\ next[n] \in {FrameAt(y)'.cur, FrameAt(y)'.nxt}
                              => next[n] = None
    <3>. SUFFICES ASSUME NEW y \in Frames', FrameAt(y)'.pc \in LeavePcs,
                         next[n] \in {FrameAt(y)'.cur, FrameAt(y)'.nxt}
                  PROVE  next[n] = None
      OBVIOUS
    <3>1. y \in Frames
      BY <1>1
    <3>2. CASE y = Tip(t)
      <4>1. FrameAt(y)' = g
        BY <1>1, <3>1, <3>2
      <4>. QED BY <1>1, <2>2, <4>1
    <3>3. CASE y # Tip(t)
      BY <1>1, <3>1, <3>3, <2>2 DEF Leaver
    <3>. QED BY <3>2, <3>3
  <2>. QED BY <1>7, <2>2, <2>3, <2>4, <2>6, <2>7 DEF NextOK
<1>13. ASSUME NEW n \in Nodes, next'[n] # None PROVE IsWaiting(n)' \/ Casing(n)'
  <2>2. CASE IsWaiting(n)
    BY <2>2
  <2>3. CASE Casing(n)
    <3>1. PICK y \in Frames : FrameAt(y).pc = "cas" /\ FrameAt(y).cur = n
      BY <2>3 DEF Casing
    <3>2. y # Tip(t) /\ y \in Frames'
      BY <1>1, <3>1 DEF f
    <3>3. FrameAt(y)' = FrameAt(y)
      BY <1>1, <3>1, <3>2
    <3>. QED BY <3>1, <3>2, <3>3 DEF Casing
  <2>. QED BY <1>13, <2>2, <2>3 DEF ListInv
<1>. QED BY <1>10, <1>11, <1>12, <1>13 DEF ListInv

\* A frame that completes task k is the only one to know.
LEMMA ExchangeSettle ==
  ASSUME TaskStateAssumption, Types, ShapeInv, Once, SettleInv, NEW t \in Threads, stack[t] # <<>>,
         Top(t).pc = "exchange", NEW k \in Tasks, k = SubjectOf(Top(t)), cont[k] # Finished,
         NEW g, NEW c, NEW e, Steps(t, g, "notify", Top(t).making, c, None, e),
         cont' = [cont EXCEPT ![k] = Finished], nodes' = nodes,
         \A n \in Nodes : Marked("run", n)' <=> Marked("run", n)
  PROVE  SettleInv'
<1>1. /\ Frames' = Frames /\ Tip(t) \in Frames /\ FrameAt(Tip(t)) = Top(t)
      /\ \A y \in Frames : y = Tip(t) => FrameAt(y)' = g
      /\ \A y \in Frames : y # Tip(t) => Alike(FrameAt(y), FrameAt(y)')
      /\ g.pc = "notify" /\ g.making = Top(t).making /\ g.node = Top(t).node
  BY NextFrame
<1>2. SubjectOf(g) = k
  BY <1>1 DEF SubjectOf
<1>3. cont \in [Tasks -> Nodes \cup {None, Finished}] /\ nodes \in SUBSET Nodes
  BY DEF Types
<1>4. cont'[k] = Finished /\ \A j \in Tasks : j # k => cont'[j] = cont[j]
  BY <1>3
<1>5. /\ Top(t).making = None => Top(t).node \in Nodes /\ Top(t).node # None /\ k = Top(t).node[1]
      /\ Top(t).making # None => k = Top(t).making /\ Kind[k] = "all"
  BY SettleTop DEF SettlerPcs, SettlePcs, Subject
<1>6. Shape(t, Top(t)) /\ Top(t) \in FrameSet
  BY TopShape
\* Its node, if it has one.
<1>7. \A n \in Nodes : n[1] = k /\ Kind[k] # "all" =>
        /\ n = Top(t).node /\ Marked("run", n)
        /\ \A y \in Frames : FrameAt(y).node = n => y = Tip(t)
  <2>. SUFFICES ASSUME NEW n \in Nodes, n[1] = k, Kind[k] # "all"
                PROVE  /\ n = Top(t).node /\ Marked("run", n)
                       /\ \A y \in Frames : FrameAt(y).node = n => y = Tip(t)
    OBVIOUS
  <2>1. Top(t).making = None /\ Top(t).node \in Nodes /\ Top(t).node # None /\ k = Top(t).node[1]
    BY <1>5
  <2>2. n = Top(t).node
    BY <2>1, NodeTyped
  <2>. QED BY <2>1, <2>2, RunOnly
<1>8. ASSUME NEW y \in Frames' PROVE SettleIn(FrameAt(y)', cont')
  <2>0. y \in Frames
    BY <1>1
  <2>1. CASE y = Tip(t)
    <3>1. FrameAt(y)' = g
      BY <1>1, <2>0, <2>1
    <3>2. ASSUME g.node # None, Kind[Runner(g)] # "all" PROVE cont'[Runner(g)] = Finished <=> Left(g)
      <4>1. CASE g.making = None
        BY <1>1, <1>4, <1>5, <4>1 DEF Left, Own, LeavePcs, Runner
      <4>2. CASE g.making # None
        BY <1>1, <4>2, <1>5, <1>6, <3>2, FrameTyped, NodeTyped, SettleSays, <1>4 DEF Left, Own,
           LeavePcs, Runner
      <4>. QED BY <4>1, <4>2
    <3>. QED BY <1>1, <1>2, <1>4, <3>1, <3>2 DEF SettleIn, SettlePcs, LeavePcs
  <2>2. CASE y # Tip(t)
    <3>1. Alike(FrameAt(y), FrameAt(y)') /\ SettleIn(FrameAt(y), cont)
      BY <1>1, <2>0, <2>2 DEF SettleInv, SettleOK, SettleIn
    <3>2. FrameAt(y) \in FrameSet /\ Shape(y[1], FrameAt(y))
      BY <2>0, Position DEF ShapeInv
    <3>3. /\ FrameAt(y).pc \in SettlerPcs => SubjectOf(FrameAt(y)) \in Tasks
          /\ FrameAt(y).node # None => Runner(FrameAt(y)) \in Tasks /\ FrameAt(y).node \in Nodes
      BY <3>2, SubjectTyped
    <3>4. FrameAt(y).pc \in SettlePcs => SubjectOf(FrameAt(y)) # k
      BY Names, <1>1, HasRules, <2>0, <2>2, MarksAre DEF SettlerPcs, SettlePcs, Once
    <3>5. FrameAt(y).node # None /\ Kind[Runner(FrameAt(y))] # "all" => Runner(FrameAt(y)) # k
      BY <1>7, <2>0, <2>2, <3>3 DEF Runner
    <3>6. SettleIn(FrameAt(y), cont')
      BY <1>4, <3>1, <3>3, <3>4, <3>5 DEF SettleIn, SettlerPcs
    <3>. QED BY <3>1, <3>2, <3>6, AlikeSettle
  <2>. QED BY <2>1, <2>2
<1>9. ASSUME NEW n \in nodes', ~Marked("run", n)', Kind[n[1]] # "all" PROVE cont'[n[1]] # Finished
  BY <1>3, <1>9, <1>7, NodeTyped, <1>4 DEF SettleInv
<1>. QED BY <1>8, <1>9, SettlesAre

LEMMA ExchangeRefs ==
  ASSUME TaskStateAssumption, RefsInv, NEW t \in Threads, Exchange(t)
  PROVE  RefsInv'
<1>. USE DEF RefsInv, NodeInv
<1>1. /\ UNCHANGED <<refs, next, nodes, remaining, hold, queued>> /\ Top(t).pc = "exchange" /\ stack[t] # <<>>
  BY DEF Exchange, nodeVars, ctlVars, At
<1>2. PICK k \in Tasks : k = SubjectOf(Top(t)) /\ cont[k] # Finished /\ k = Subject(t)
  BY <1>1, SettleSays DEF SettlerPcs, SettlePcs, Subject
<1>3. /\ Types' /\ cont' = [cont EXCEPT ![k] = Finished]
      /\ \E g, e : Steps(t, g, "notify", Top(t).making, cont[k], None, e)
  BY <1>2, ExchangeStep
<1>4. PICK g, e : Steps(t, g, "notify", Top(t).making, cont[k], None, e)
  BY <1>3
<1>5. Once' /\ SameMarks
  BY <1>1, <1>4, SettlerSame DEF SettlerPcs, SettlePcs, LeavePcs
<1>6. g.node = Top(t).node /\ g.making = Top(t).making /\ g.pc = "notify" /\ ShapeInv'
  BY <1>4 DEF Steps, Is
<1>7. \A j \in Tasks : cont[j] = Finished \/ j = k <=> cont'[j] = Finished
  BY <1>3 DEF Types
<1>8. Change("run", {}, {}) /\ Change("link", {}, {}) /\ Change("come", {}, {}) /\ Change("give", {}, {})
      /\ Change("make", {}, {}) /\ Change("settle", {}, {})
  BY <1>5, MarksAre DEF SameMarks
<1>9. Apart' /\ \A n \in Nodes : IsWaiting(n)' <=> IsWaiting(n)
  BY <1>1, <1>8, ApartSame
<1>10. ReadyInv'
  BY <1>1, <1>7, <1>8, ReadySame
<1>11. /\ \A j \in Tasks : Waiters(j)' = Waiters(j) /\ (ResultRef(j)' <=> ResultRef(j))
       /\ \A n \in Nodes : Pends(n)' <=> Pends(n)
  BY <1>1, <1>5, MarksSame
<1>12. SettleInv'
  BY <1>8, StayIs, <1>1, <1>2, <1>3, <1>4, ExchangeSettle
<1>13. ListInv'
  BY <1>1, <1>2, <1>3, <1>4, <1>9, ExchangeList
<1>14. HandleInv'
  BY <1>1, <1>4, HandleMove DEF UserPcs
<1>15. RefInv'
  BY <1>1, <1>11, RefSame
<1>16. \A j \in Tasks : /\ Marked("make", j)' <=> Marked("make", j)
                        /\ Marked("settle", j)' <=> Marked("settle", j)
  BY <1>8, StayIs
<1>17. StageInv'
  <2>1. ASSUME NEW j \in Tasks, Unmade(j) PROVE Unmade(j)' \/ cont'[j] = Finished
    <3>1. CASE j = k
      BY <1>7, <3>1
    <3>2. CASE j # k
      <4>1. cont'[j] = cont[j]
        BY <1>3, <3>2 DEF Types
      <4>. QED BY <1>1, <1>16, <2>1, <4>1, UnmadeSame
    <3>. QED BY <3>1, <3>2
  <2>. QED BY <1>7, <1>11, <1>16, <2>1, StageMove
<1>18. CountInv'
  <2>1. Marked("settle", k)
    <3>1. Has(Top(t), "settle", k)
      BY <1>1, <1>2, Names, HasRules DEF SettlerPcs, SettlePcs
    <3>. QED BY <1>1, <3>1, TopMarked
  <2>2. Kind[k] = "all" => remaining[k] = 0
    BY <2>1 DEF CountInv
  <2>. QED BY <1>1, <1>7, <1>11, <1>16, <2>2, CountSame
<1>. QED BY <1>3, <1>5, <1>6, <1>9, <1>10, <1>12, <1>13, <1>14, <1>15, <1>17, <1>18

-----------------------------------------------------------------------------
(* The node that is added to a list.                                       *)

\* It is not waiting yet: it may name any node.
LEMMA SeeList ==
  ASSUME TaskStateAssumption, Types, ListInv, NEW t \in Threads, NEW c \in Nodes, c = Top(t).cur, ~IsWaiting(c),
         NEW g, NEW l \in {"cas", "give"}, NEW e, Steps(t, g, l, Top(t).making, c, None, e),
         NEW v, next' = [next EXCEPT ![c] = v], l = "cas" \/ v = None,
         cont' = cont, nodes' = nodes, \A n \in Nodes : IsWaiting(n)' <=> IsWaiting(n)
  PROVE  ListInv'
<1>1. /\ Frames' = Frames /\ Tip(t) \in Frames /\ FrameAt(Tip(t)) = Top(t)
      /\ \A y \in Frames : y = Tip(t) => FrameAt(y)' = g
      /\ \A y \in Frames : y # Tip(t) => /\ Alike(FrameAt(y), FrameAt(y)')
                                         /\ FrameAt(y)'.pc \in LeavePcs => Leaver(FrameAt(y), FrameAt(y)')
                                         /\ FrameAt(y).pc = "cas" => FrameAt(y)' = FrameAt(y)
      /\ g.pc = l /\ g.cur = c
  BY NextFrame
<1>2. nodes \in SUBSET Nodes /\ next \in [Nodes -> Nodes \cup {None}]
  BY DEF Types
<1>3. \A n, j : Continues(n, j)' <=> Continues(n, j)
  BY DEF Continues, PredOf
<1>4. next'[c] = v /\ \A n \in Nodes : n # c => next'[n] = next[n]
  BY <1>2
<1>5. \A y \in Frames' : FrameAt(y)'.pc \in LeavePcs => y \in Frames /\ Leaver(FrameAt(y), FrameAt(y)')
  BY <1>1 DEF LeavePcs
<1>10. ASSUME NEW j \in Tasks PROVE HeadOK(j)'
  <2>1. HeadOK(j)
    BY DEF ListInv
  <2>. QED BY <1>3, <2>1 DEF HeadOK
<1>11. ASSUME NEW y \in Frames' PROVE CurOK(FrameAt(y))'
  <2>. SUFFICES ASSUME FrameAt(y)'.pc \in LeavePcs PROVE CurOK(FrameAt(y))'
    BY DEF CurOK
  <2>1. y \in Frames /\ Leaver(FrameAt(y), FrameAt(y)') /\ SubjectOf(FrameAt(y))' = SubjectOf(FrameAt(y)')
    BY <1>5 DEF SubjectOf
  <2>2. CurOK(FrameAt(y)) /\ FrameAt(y).pc \in LeavePcs
    BY <2>1 DEF ListInv, Leaver
  <2>3. FrameAt(y)'.pc = "submit" => next'[FrameAt(y)'.cur] = None
    BY <2>1, <2>2, <1>4 DEF Leaver, CurOK, LeavePcs, Continues
  <2>. QED BY <1>3, <2>1, <2>2, <2>3 DEF CurOK, Leaver
<1>12. ASSUME NEW n \in nodes' PROVE NextOK(n)'
  <2>. SUFFICES ASSUME IsWaiting(n)' PROVE NextOK(n)'
    BY DEF NextOK
  <2>1. IsWaiting(n) /\ n \in nodes /\ NextOK(n) /\ n \in Nodes
    BY <1>2 DEF IsWaiting, ListInv
  <2>2. /\ Kind[n[1]] # "produce"
        /\ next[n] # None => Continues(next[n], PredOf(n))
        /\ \A j \in Tasks : next[n] = cont[j] => next[n] = None
        /\ \A m \in nodes : IsWaiting(m) /\ next[m] = next[n] => m = n \/ next[n] = None
        /\ \A x \in Frames : FrameAt(x).pc \in LeavePcs /\ next[n] \in {FrameAt(x).cur, FrameAt(x).nxt}
                              => next[n] = None
    BY <2>1 DEF NextOK
  <2>3. PredOf(n)' = PredOf(n)
    BY DEF PredOf
  <2>4. next'[n] = next[n]
    <3>1. n # c
      BY <2>1
    <3>. QED BY <1>4, <2>1, <3>1
  <2>6. \A m \in nodes' : IsWaiting(m)' /\ next'[m] = next[n] => m = n \/ next[n] = None
    BY <1>2, <1>4, <2>2
  <2>7. \A y \in Frames' : FrameAt(y)'.pc \in LeavePcs /\ next[n] \in {FrameAt(y)'.cur, FrameAt(y)'.nxt}
                              => next[n] = None
    BY <1>5, <2>2 DEF Leaver
  <2>. QED BY <1>3, <2>2, <2>3, <2>4, <2>6, <2>7 DEF NextOK
<1>13. ASSUME NEW n \in Nodes, next'[n] # None PROVE IsWaiting(n)' \/ Casing(n)'
  <2>0. Frames' = Frames /\ Tip(t) \in Frames
    BY <1>1
  <2>1. CASE n = c
    BY <1>1, <1>4, <1>13, <2>1, <2>0 DEF Casing
  <2>2. CASE n # c /\ IsWaiting(n)
    BY <2>2
  <2>3. CASE n # c /\ Casing(n)
    <3>1. PICK y \in Frames : FrameAt(y).pc = "cas" /\ FrameAt(y).cur = n
      BY <2>3 DEF Casing
    <3>2. y # Tip(t) /\ y \in Frames'
      BY <1>1, <2>3, <3>1
    <3>3. FrameAt(y)' = FrameAt(y)
      BY <1>1, <3>1, <3>2
    <3>. QED BY <3>1, <3>2, <3>3 DEF Casing
  <2>. QED BY <1>4, <1>13, <2>1, <2>2, <2>3 DEF ListInv
<1>. QED BY <1>10, <1>11, <1>12, <1>13 DEF ListInv

\* The value of continuations_ just read.
LEMMA SeeRefs ==
  ASSUME TaskStateAssumption, RefsInv, NEW t \in Threads, stack[t] # <<>>, Top(t).pc \in {"load", "cas"},
         Types', UNCHANGED <<refs, cont, nodes, remaining, hold, queued>>,
         NEW v, next' = [next EXCEPT ![Top(t).cur] = v],
         \/ /\ cont[PredOf(Top(t).cur)] = Finished /\ v = None
            /\ \E g : Steps(t, g, "give", Top(t).making, Top(t).cur, None, Top(t).exc)
         \/ \E g : Steps(t, g, "cas", Top(t).making, Top(t).cur, None, Top(t).exc)
  PROVE  RefsInv'
<1>. USE DEF RefsInv, NodeInv
<1>1. /\ Top(t).making # None /\ Top(t).cur \in Nodes /\ Top(t).cur # None
      /\ Top(t).nxt = None
  BY AddTop DEF AddPcs, ArrivePcs
<1>2. PICK c \in Nodes : c = Top(t).cur
  BY <1>1
<1>3. Marked("link", c)
  <2>1. Has(Top(t), "link", c)
    BY <1>1, <1>2, HasRules DEF AddPcs
  <2>. QED BY <2>1, TopMarked
<1>4. ~IsWaiting(c)
  BY <1>3 DEF IsWaiting
<1>5. PICK g, l :
        /\ l \in {"cas", "give"} /\ Steps(t, g, l, Top(t).making, Top(t).cur, None, Top(t).exc)
        /\ l = "give" => cont[PredOf(Top(t).cur)] = Finished /\ v = None
  OBVIOUS
<1>6. g.node = Top(t).node /\ g.making = Top(t).making /\ g.pc = l /\ ShapeInv'
  BY <1>5 DEF Steps, Is
<1>7. /\ Once' /\ Unchanged({"give"})
      /\ \A n \in Nodes : Marked("give", n)' => Marked("give", n) \/ (n = c /\ cont[PredOf(c)] = Finished)
  BY <1>5, GivenMarks, <1>2, CasSame, MarksAre, StayIs DEF Change, SameMarks, Unchanged
<1>8. Change("run", {}, {}) /\ Change("link", {}, {}) /\ Change("come", {}, {}) /\ Change("pass", {}, {})
      /\ Change("make", {}, {}) /\ Change("settle", {}, {}) /\ Change("arrived", {}, {})
  BY <1>7, MarksAre DEF Unchanged
<1>9. Apart' /\ \A n \in Nodes : IsWaiting(n)' <=> IsWaiting(n)
  BY <1>8, ApartSame
<1>10. /\ \A j \in Tasks : /\ Marked("make", j)' <=> Marked("make", j)
                           /\ Marked("settle", j)' <=> Marked("settle", j)
       /\ \A n \in Nodes : Marked("run", n)' <=> Marked("run", n)
  BY <1>8, StayIs
<1>11. ReadyInv'
  BY <1>7, <1>10, ReadyMove DEF IsReady
<1>12. nodes \in SUBSET Nodes
  BY DEF Types
<1>13. SettleInv'
  BY <1>1, <1>6, <1>5, <1>10, <1>12, SettleMove DEF Left, Own, LeavePcs, SettlePcs
<1>14. ListInv'
  BY <1>2, <1>4, <1>5, <1>9, SeeList
<1>15. HandleInv'
  BY <1>1, <1>5, HandleMove
<1>16. \A j \in Tasks : Waiters(j)' = Waiters(j) /\ (ResultRef(j)' <=> ResultRef(j))
  BY <1>8, <1>10, <1>12, WaitersSame, ResultSame
<1>17. RefInv'
  BY <1>16, RefSame
<1>18. StageInv'
  BY <1>8, <1>16, StageSame
<1>19. CountInv'
  BY <1>8, PendsSame, <1>10, CountSame
<1>. QED BY <1>6, <1>7, <1>9, <1>11, <1>13, <1>14, <1>15, <1>17, <1>18, <1>19

LEMMA LoadRefs ==
  ASSUME TaskStateAssumption, RefsInv, NEW t \in Threads, Load(t)
  PROVE  RefsInv'
<1>. USE DEF RefsInv, NodeInv
<1>1. /\ UNCHANGED <<refs, cont, nodes, remaining, hold, queued>> /\ Top(t).pc = "load" /\ stack[t] # <<>>
  BY DEF Load, nodeVars, ctlVars, At, stateVars
<1>2. /\ Types'
      /\ \/ /\ cont[PredOf(Top(t).cur)] = Finished /\ next' = [next EXCEPT ![Top(t).cur] = None]
            /\ \E g : Steps(t, g, "give", Top(t).making, Top(t).cur, None, Top(t).exc)
         \/ /\ next' = [next EXCEPT ![Top(t).cur] = cont[PredOf(Top(t).cur)]]
            /\ \E g : Steps(t, g, "cas", Top(t).making, Top(t).cur, None, Top(t).exc)
  BY LoadStep
<1>. QED BY <1>1, <1>2, SeeRefs

LEMMA PendingFinite ==
  ASSUME TaskStateAssumption, NEW k \in Tasks
  PROVE  /\ IsFiniteSet(PendingOf(k)) /\ Cardinality(PendingOf(k)) \in Nat
         /\ \A i \in PendingOf(k) : Cardinality(PendingOf(k)) # 0
<1>1. IsFiniteSet(Places(k))
  <2>1. Len(Pred[k]) \in Int
    BY DEF TaskStateAssumption
  <2>2. IsFiniteSet(1 .. Len(Pred[k])) /\ IsFiniteSet(1 .. 1)
    <3>1. \A i \in Int : IsFiniteSet(1 .. i)
      BY FS_Interval
    <3>2. IsFiniteSet(1 .. Len(Pred[k]))
      BY <2>1, <3>1
    <3>3. 1 \in Int
      OBVIOUS
    <3>. QED BY <3>1, <3>2, <3>3, Zenon
  <2>3. CASE Kind[k] = "all"
    BY <2>2, <2>3 DEF Places
  <2>4. CASE Kind[k] # "all"
    BY <2>2, <2>4 DEF Places
  <2>. QED BY <2>3, <2>4
<1>2. PendingOf(k) \in SUBSET Places(k)
  BY DEF PendingOf
<1>3. IsFiniteSet(PendingOf(k))
  BY <1>1, <1>2, FS_Subset
<1>. QED BY <1>3, FS_CardinalityType, FS_EmptySet

\* The maker of a task whose node is linked or given has its result referred to.
LEMMA AddedResult ==
  ASSUME TaskStateAssumption, RefsInv, NEW t \in Threads, stack[t] # <<>>, Top(t).pc \in AddPcs
  PROVE  ResultRef(Top(t).making)
<1>. USE DEF RefsInv, NodeInv
<1>1. PICK c, k : c = Top(t).cur /\ k = Top(t).making
  OBVIOUS
<1>2. /\ k \in Tasks /\ c \in Nodes /\ c[1] = k /\ (Kind[k] = "all" => Pred[k] # <<>>)
      /\ c # None
  BY <1>1, AddTop DEF AddPcs, ArrivePcs
<1>3. Marked("link", c)
  <2>1. Has(Top(t), "link", c)
    BY <1>1, <1>2, HasRules
  <2>. QED BY <2>1, TopMarked
<1>4. c \in nodes /\ ~Marked("run", c)
  BY <1>2, <1>3 DEF Apart
<1>5. CASE Kind[k] # "all"
  BY <1>2, <1>5, NodeTyped, <1>1, <1>4 DEF ResultRef
<1>6. CASE Kind[k] = "all"
  <2>1. ~Marked("arrived", c)
    BY <1>2, <1>4, MarkRules
  <2>2. c = <<k, c[2]>> /\ c[2] \in Places(k)
    BY <1>2, NodeTyped
  <2>3. c[2] \in PendingOf(k)
    BY <1>4, <2>1, <2>2 DEF PendingOf, Pends
  <2>4. remaining[k] # 0
    BY <1>2, <1>6, <2>3, PendingFinite DEF CountInv
  <2>. QED BY <1>1, <1>2, <1>6, <2>4 DEF ResultRef
<1>. QED BY <1>5, <1>6

\* What a step that has added a node leaves alone.
LEMMA AddedKeep ==
  ASSUME TaskStateAssumption, RefsInv, NEW t \in Threads, stack[t] # <<>>, Top(t).pc \in {"cas", "give"},
         NEW c \in Nodes, c = Top(t).cur,
         NEW g, NEW l, NEW m, NEW d, NEW e, Steps(t, g, l, m, d, None, e),
         \/ More(Top(t)) /\ l = "attach" /\ m = Top(t).making /\ d = <<c[1], c[2] + 1>> /\ e = Top(t).exc
         \/ ~More(Top(t)) /\ l = "user" /\ m = None /\ d = None /\ e = None,
         UNCHANGED <<refs, nodes, remaining, hold>>,
         \A j \in Tasks : cont'[j] = Finished <=> cont[j] = Finished,
         \A j \in Tasks : hold[j] = {} => cont'[j] = cont[j]
  PROVE  /\ ShapeInv' /\ Once' /\ HandleInv' /\ SettleInv' /\ RefInv' /\ StageInv' /\ CountInv'
         /\ Marked("link", c)
         /\ \A n \in Nodes : /\ Marked("run", n)' <=> Marked("run", n)
                             /\ Marked("come", n)' <=> Marked("come", n)
                             /\ Marked("link", n)' <=> Marked("link", n) /\ n # c
                             /\ Marked("give", n)' => Marked("give", n)
<1>. USE DEF RefsInv, NodeInv
<1>1. /\ Top(t).making \in Tasks /\ Top(t).making # None /\ c # None
      /\ Top(t).nxt = None
  BY AddTop DEF AddPcs, ArrivePcs
<1>2. Marked("link", c)
  <2>1. Has(Top(t), "link", c)
    BY <1>1, HasRules DEF AddPcs
  <2>. QED BY <2>1, TopMarked
<1>3. /\ Once' /\ Unchanged({"make", "link", "give"})
      /\ Change("link", {}, {Top(t).cur})
      /\ Change("give", {}, IF Top(t).pc = "give" THEN {Top(t).cur} ELSE {})
      /\ Change("make", {}, IF More(Top(t)) THEN {} ELSE {Top(t).making})
  BY LinkedMarks
<1>4. g.node = Top(t).node /\ g.pc = l /\ g.making = m /\ ShapeInv'
  BY DEF Steps, Is
<1>5. Change("run", {}, {}) /\ Change("come", {}, {}) /\ Change("pass", {}, {})
      /\ Change("settle", {}, {}) /\ Change("arrived", {}, {})
  BY <1>3, MarksAre DEF Unchanged
<1>6. /\ \A n \in Nodes : /\ Marked("run", n)' <=> Marked("run", n)
                          /\ Marked("come", n)' <=> Marked("come", n)
      /\ \A j \in Tasks : Marked("settle", j)' <=> Marked("settle", j)
  BY <1>5, StayIs
<1>7. \A n \in Nodes : /\ Marked("link", n)' <=> Marked("link", n) /\ n # c
                       /\ Marked("give", n)' => Marked("give", n)
  BY <1>3 DEF Change
<1>8. \A j \in Tasks : /\ Marked("make", j)' => Marked("make", j)
                       /\ Marked("make", j) => Marked("make", j)' \/ j = Top(t).making
  BY <1>3 DEF Change
<1>12. nodes \in SUBSET Nodes
  BY DEF Types
<1>13. SettleInv'
  BY <1>1, <1>4, <1>6, <1>12, SettleMove DEF Left, Own, LeavePcs, SettlePcs
<1>15. HandleInv'
  BY <1>1, HandleMove DEF UserPcs
<1>16. \A j \in Tasks : Waiters(j)' = Waiters(j) /\ (ResultRef(j)' <=> ResultRef(j))
  BY <1>5, <1>6, <1>12, WaitersSame, ResultSame
<1>17. RefInv'
  BY <1>16, RefSame
<1>18. StageInv'
  <2>1. ASSUME NEW j \in Tasks, Unmade(j) PROVE Unmade(j)'
    <3>1. cont'[j] = cont[j]
      BY <2>1 DEF Unmade
    <3>. QED BY <1>8, <2>1, <3>1, UnmadeSame
  <2>2. ResultRef(Top(t).making)
    BY AddedResult DEF AddPcs
  <2>3. \A j \in Tasks : Marked("make", j) => Marked("make", j)' \/ ResultRef(j)'
    BY <1>8, <1>16, <2>2
  <2>. QED BY <1>16, <2>1, <2>3, StageMove
<1>19. CountInv'
  BY <1>5, PendsSame, <1>6, CountSame
<1>. QED BY <1>2, <1>3, <1>4, <1>6, <1>7, <1>13, <1>15, <1>17, <1>18, <1>19

\* The node that is linked is the head of the list, and names the previous one.
LEMMA LinkList ==
  ASSUME TaskStateAssumption, Types, ShapeInv, SettleInv, ListInv, NEW t \in Threads, NEW c \in Nodes, c = Top(t).cur,
         Top(t).pc = "cas", Kind[c[1]] # "produce", ~IsWaiting(c),
         NEW p \in Tasks, p = PredOf(c), cont[p] = next[c], cont[p] # Finished,
         NEW g, NEW l, l \notin LeavePcs, NEW m, NEW d, NEW e, Steps(t, g, l, m, d, None, e),
         cont' = [cont EXCEPT ![p] = c], next' = next, nodes' = nodes,
         \A n \in Nodes : IsWaiting(n)' <=> IsWaiting(n) \/ n = c
  PROVE  ListInv'
<1>1. /\ Frames' = Frames /\ Tip(t) \in Frames /\ FrameAt(Tip(t)) = Top(t)
      /\ \A y \in Frames : y = Tip(t) => FrameAt(y)' = g
      /\ \A y \in Frames : y # Tip(t) => /\ Alike(FrameAt(y), FrameAt(y)')
                                         /\ FrameAt(y)'.pc \in LeavePcs => Leaver(FrameAt(y), FrameAt(y)')
                                         /\ FrameAt(y).pc = "cas" => FrameAt(y)' = FrameAt(y)
      /\ g.pc = l
  BY NextFrame
<1>2. /\ nodes \in SUBSET Nodes /\ next \in [Nodes -> Nodes \cup {None}]
      /\ cont \in [Tasks -> Nodes \cup {None, Finished}]
  BY DEF Types
<1>3. \A n, j : Continues(n, j) => Continues(n, j)'
  BY DEF Continues, PredOf
<1>4. cont'[p] = c /\ \A j \in Tasks : j # p => cont'[j] = cont[j]
  BY <1>2
<1>5. \A y \in Frames' : FrameAt(y)'.pc \in LeavePcs => y \in Frames /\ Leaver(FrameAt(y), FrameAt(y)')
  BY <1>1
<1>6. Continues(c, p)'
  BY DEF Continues, PredOf
\* The previous head.
<1>7. PICK h : h = next[c]
  OBVIOUS
<1>8. /\ h \in Nodes \cup {None} /\ h = cont[p]
      /\ h # None => Continues(h, p) /\ h # c
  BY <1>7, <1>2 DEF ListInv, HeadOK, Continues
<1>10. ASSUME NEW j \in Tasks PROVE HeadOK(j)'
  <2>1. HeadOK(j)
    BY DEF ListInv
  <2>2. CASE j = p
    BY <1>4, <1>6, <2>2 DEF HeadOK
  <2>3. CASE j # p
    <3>1. PICK i : i = cont[j]
      OBVIOUS
    <3>2. cont'[j] = i /\ (i \notin {None, Finished} => Continues(i, j)')
      BY <1>3, <1>4, <2>1, <2>3, <3>1 DEF HeadOK
    <3>. QED BY <3>2 DEF HeadOK
  <2>. QED BY <2>2, <2>3
<1>11. ASSUME NEW y \in Frames' PROVE CurOK(FrameAt(y))'
  <2>. SUFFICES ASSUME FrameAt(y)'.pc \in LeavePcs PROVE CurOK(FrameAt(y))'
    BY DEF CurOK
  <2>1. y \in Frames /\ Leaver(FrameAt(y), FrameAt(y)') /\ SubjectOf(FrameAt(y))' = SubjectOf(FrameAt(y)')
    BY <1>5 DEF SubjectOf
  <2>2. CurOK(FrameAt(y)) /\ FrameAt(y).pc \in LeavePcs
    BY <2>1 DEF ListInv, Leaver
  <2>. QED BY <1>3, <2>1, <2>2 DEF CurOK, Leaver
<1>12. ASSUME NEW n \in nodes' PROVE NextOK(n)'
  <2>. SUFFICES ASSUME IsWaiting(n)' PROVE NextOK(n)'
    BY DEF NextOK
  <2>1. n \in nodes /\ n \in Nodes /\ PredOf(n)' = PredOf(n)
    BY <1>2 DEF PredOf
  <2>2. CASE n = c
    <3>1. h # None => Continues(h, p)'
      BY <1>3, <1>8
    <3>2. ASSUME NEW j \in Tasks, h = cont'[j] PROVE h = None
      BY <1>4, <1>8, <3>2, Names DEF ListInv, HeadOK, Continues
    <3>3. ASSUME NEW m1 \in nodes', IsWaiting(m1)', next'[m1] = h PROVE m1 = c \/ h = None
      <4>1. CASE m1 # c
        BY <1>2, <3>3, <4>1, <1>8 DEF ListInv, NextOK
      <4>. QED BY <4>1
    <3>4. ASSUME NEW y \in Frames', FrameAt(y)'.pc \in LeavePcs, h \in {FrameAt(y)'.cur, FrameAt(y)'.nxt}
          PROVE  h = None
      <4>. SUFFICES ASSUME h # None PROVE FALSE
        OBVIOUS
      <4>1. y \in Frames /\ Leaver(FrameAt(y), FrameAt(y)')
        BY <1>5, <3>4
      <4>2. /\ FrameAt(y).pc \in LeavePcs /\ h \in {FrameAt(y).cur, FrameAt(y).nxt}
            /\ CurOK(FrameAt(y)) /\ SettleOK(FrameAt(y))
        BY <3>4, <4>1 DEF Leaver, ListInv, SettleInv
      <4>3. Continues(h, SubjectOf(FrameAt(y))) /\ cont[SubjectOf(FrameAt(y))] = Finished
        BY <4>2 DEF CurOK, SettleOK
      <4>4. SubjectOf(FrameAt(y)) = p
        BY <1>8, <4>3 DEF Continues
      <4>. QED BY <4>3, <4>4
    <3>5. next'[n] = h
      BY <1>7, <2>2
    <3>. QED BY <2>1, <2>2, <3>1, <3>2, <3>3, <3>4, <3>5 DEF NextOK
  <2>3. CASE n # c
    <3>1. IsWaiting(n) /\ NextOK(n)
      BY <2>1, <2>3 DEF ListInv
    <3>2. /\ Kind[n[1]] # "produce"
          /\ next[n] # None => Continues(next[n], PredOf(n))
          /\ \A j \in Tasks : next[n] = cont[j] => next[n] = None
          /\ \A m1 \in nodes : IsWaiting(m1) /\ next[m1] = next[n] => m1 = n \/ next[n] = None
          /\ \A x \in Frames : FrameAt(x).pc \in LeavePcs /\ next[n] \in {FrameAt(x).cur, FrameAt(x).nxt}
                                => next[n] = None
      BY <3>1 DEF NextOK
    <3>3. next[n] # c
      BY <3>2, Names DEF Continues
    <3>4. \A j \in Tasks : next[n] = cont'[j] => next[n] = None
      BY <1>4, <3>2, <3>3
    <3>5. ASSUME NEW m1 \in nodes', IsWaiting(m1)', next[m1] = next[n] PROVE m1 = n \/ next[n] = None
      BY <3>2, <3>5, <1>2
    <3>6. \A y \in Frames' : FrameAt(y)'.pc \in LeavePcs /\ next[n] \in {FrameAt(y)'.cur, FrameAt(y)'.nxt}
                              => next[n] = None
      BY <1>5, <3>2 DEF Leaver
    <3>. QED BY <1>3, <2>1, <3>2, <3>4, <3>5, <3>6 DEF NextOK
  <2>. QED BY <2>2, <2>3
<1>13. ASSUME NEW n \in Nodes, next'[n] # None PROVE IsWaiting(n)' \/ Casing(n)'
  <2>2. CASE n = c \/ IsWaiting(n)
    BY <2>2
  <2>3. CASE n # c /\ Casing(n)
    <3>1. PICK y \in Frames : FrameAt(y).pc = "cas" /\ FrameAt(y).cur = n
      BY <2>3 DEF Casing
    <3>2. y # Tip(t) /\ y \in Frames'
      BY <1>1, <2>3, <3>1
    <3>3. FrameAt(y)' = FrameAt(y)
      BY <1>1, <3>1, <3>2
    <3>. QED BY <3>1, <3>2, <3>3 DEF Casing
  <2>. QED BY <1>13, <2>2, <2>3 DEF ListInv
<1>. QED BY <1>10, <1>11, <1>12, <1>13 DEF ListInv

LEMMA LinkRefs ==
  ASSUME TaskStateAssumption, RefsInv, NEW t \in Threads, stack[t] # <<>>, Top(t).pc = "cas",
         NEW c \in Nodes, c = Top(t).cur, NEW p \in Tasks, p = PredOf(c), cont[p] = next[c],
         NEW g, NEW l, NEW m, NEW d, NEW e, Steps(t, g, l, m, d, None, e),
         \/ More(Top(t)) /\ l = "attach" /\ m = Top(t).making /\ d = <<c[1], c[2] + 1>> /\ e = Top(t).exc
         \/ ~More(Top(t)) /\ l = "user" /\ m = None /\ d = None /\ e = None,
         Types', UNCHANGED <<refs, nodes, next, remaining, hold, queued>>,
         cont' = [cont EXCEPT ![p] = c]
  PROVE  RefsInv'
<1>. USE DEF RefsInv, NodeInv
<1>1. /\ Top(t).making \in Tasks /\ Top(t).making # None /\ c # None /\ c[1] = Top(t).making
      /\ Kind[c[1]] # "produce"
  BY AddTop DEF AddPcs, ArrivePcs
<1>2. /\ cont \in [Tasks -> Nodes \cup {None, Finished}] /\ next[c] \in Nodes \cup {None}
      /\ nodes \in SUBSET Nodes
  BY DEF Types
<1>3. cont'[p] = c /\ (\A j \in Tasks : j # p => cont'[j] = cont[j]) /\ cont[p] # Finished /\ c # Finished
  BY <1>2, Names
<1>4. Marked("make", Top(t).making)
  BY <1>1, HasRules, TopMarked
<1>5. hold[p] # {}
  BY <1>1, PredTyped, <1>4, MakerHolds
<1>6. /\ ShapeInv' /\ Once' /\ HandleInv' /\ SettleInv' /\ RefInv' /\ StageInv' /\ CountInv'
      /\ Marked("link", c)
      /\ \A n \in Nodes : /\ Marked("run", n)' <=> Marked("run", n)
                          /\ Marked("come", n)' <=> Marked("come", n)
                          /\ Marked("link", n)' <=> Marked("link", n) /\ n # c
                          /\ Marked("give", n)' => Marked("give", n)
  BY <1>3, <1>5, AddedKeep
<1>7. c \in nodes /\ c \notin queued /\ ~Marked("run", c)
  BY <1>6 DEF Apart
<1>8. ~IsWaiting(c) /\ \A n \in Nodes : IsWaiting(n)' <=> IsWaiting(n) \/ n = c
  BY <1>6, <1>7 DEF IsWaiting
<1>9. Apart'
  BY <1>6 DEF Apart
<1>10. ReadyInv'
  BY <1>6, <1>3, ReadyMove DEF IsReady
<1>11. ListInv'
  <2>1. l \notin LeavePcs
    BY DEF LeavePcs
  <2>. QED BY <1>1, <1>3, <1>8, <2>1, LinkList
<1>. QED BY <1>6, <1>9, <1>10, <1>11

LEMMA CompareExchangeRefs ==
  ASSUME TaskStateAssumption, RefsInv, NEW t \in Threads, CompareExchange(t)
  PROVE  RefsInv'
<1>. USE DEF RefsInv, NodeInv
<1>1. /\ UNCHANGED <<refs, nodes, remaining, hold, queued>> /\ Top(t).pc = "cas" /\ stack[t] # <<>>
  BY DEF CompareExchange, ctlVars, At
<1>2. PICK c \in Nodes, p \in Tasks : c = Top(t).cur /\ p = PredOf(c)
  BY <1>1, AddTop DEF AddPcs, ArrivePcs
<1>3. /\ Types'
      /\ \/ /\ cont[p] = next[c] /\ cont' = [cont EXCEPT ![p] = c] /\ next' = next
            /\ \/ /\ More(Top(t))
                  /\ \E g : Steps(t, g, "attach", Top(t).making, <<c[1], c[2] + 1>>, None, Top(t).exc)
               \/ /\ ~More(Top(t))
                  /\ \E g : Steps(t, g, "user", None, None, None, None)
         \/ /\ cont[p] = Finished
            /\ next' = [next EXCEPT ![c] = None] /\ cont' = cont
            /\ \E g : Steps(t, g, "give", Top(t).making, c, None, Top(t).exc)
         \/ /\ next' = [next EXCEPT ![c] = cont[p]] /\ cont' = cont
            /\ \E g : Steps(t, g, "cas", Top(t).making, c, None, Top(t).exc)
  BY <1>2, CompareExchangeStep
<1>4. CASE cont[p] = next[c] /\ cont' = [cont EXCEPT ![p] = c] /\ next' = next /\ More(Top(t))
           /\ \E g : Steps(t, g, "attach", Top(t).making, <<c[1], c[2] + 1>>, None, Top(t).exc)
  BY <1>1, <1>2, <1>3, <1>4, LinkRefs
<1>5. CASE cont[p] = next[c] /\ cont' = [cont EXCEPT ![p] = c] /\ next' = next /\ ~More(Top(t))
           /\ \E g : Steps(t, g, "user", None, None, None, None)
  BY <1>1, <1>2, <1>3, <1>5, LinkRefs
<1>6. CASE /\ cont[p] = Finished
           /\ next' = [next EXCEPT ![c] = None] /\ cont' = cont
           /\ \E g : Steps(t, g, "give", Top(t).making, c, None, Top(t).exc)
  BY <1>1, <1>2, <1>3, <1>6, SeeRefs
<1>7. CASE /\ next' = [next EXCEPT ![c] = cont[p]] /\ cont' = cont
           /\ \E g : Steps(t, g, "cas", Top(t).making, c, None, Top(t).exc)
  BY <1>1, <1>2, <1>3, <1>7, SeeRefs
<1>. QED BY <1>3, <1>4, <1>5, <1>6, <1>7

LEMMA GiveRefs ==
  ASSUME TaskStateAssumption, RefsInv, NEW t \in Threads, Give(t)
  PROVE  RefsInv'
<1>. USE DEF RefsInv, NodeInv
<1>1. /\ UNCHANGED <<refs, cont, nodes, next, remaining, hold>> /\ Top(t).pc = "give" /\ stack[t] # <<>>
      /\ queued' = queued \cup {Top(t).cur}
  BY DEF Give, stateVars, nodeVars, ctlVars, At
<1>2. PICK c \in Nodes : c = Top(t).cur /\ c # None
  BY <1>1, AddTop DEF AddPcs, ArrivePcs
<1>3. /\ Types'
      /\ \/ /\ More(Top(t))
            /\ \E g : Steps(t, g, "attach", Top(t).making, <<c[1], c[2] + 1>>, None, Top(t).exc)
         \/ /\ ~More(Top(t))
            /\ \E g : Steps(t, g, "user", None, None, None, None)
  BY <1>2, GiveStep
<1>4. PICK g, l, m, d, e : /\ Steps(t, g, l, m, d, None, e)
        /\ \/ More(Top(t)) /\ l = "attach" /\ m = Top(t).making /\ d = <<c[1], c[2] + 1>> /\ e = Top(t).exc
           \/ ~More(Top(t)) /\ l = "user" /\ m = None /\ d = None /\ e = None
  BY <1>3
<1>5. /\ ShapeInv' /\ Once' /\ HandleInv' /\ SettleInv' /\ RefInv' /\ StageInv' /\ CountInv'
      /\ Marked("link", c)
      /\ \A n \in Nodes : /\ Marked("run", n)' <=> Marked("run", n)
                          /\ Marked("come", n)' <=> Marked("come", n)
                          /\ Marked("link", n)' <=> Marked("link", n) /\ n # c
                          /\ Marked("give", n)' => Marked("give", n)
  BY <1>1, <1>2, <1>4, AddedKeep
<1>6. Marked("give", c)
  <2>1. Has(Top(t), "give", c)
    BY <1>1, <1>2, HasRules
  <2>. QED BY <1>1, <2>1, TopMarked
<1>7. c \in nodes /\ c \notin queued /\ ~Marked("run", c)
  BY <1>5 DEF Apart
<1>8. \A n \in Nodes : IsWaiting(n)' <=> IsWaiting(n)
  BY <1>1, <1>2, <1>5, <1>7 DEF IsWaiting
<1>9. Apart'
  BY <1>1, <1>2, <1>5, <1>7 DEF Apart
<1>10. ReadyInv'
  BY <1>1, <1>2, <1>5, <1>6, ReadyMove DEF IsReady
<1>11. ListInv'
  BY <1>1, <1>4, <1>8, ListMove DEF LeavePcs, Types
<1>. QED BY <1>3, <1>5, <1>9, <1>10, <1>11

-----------------------------------------------------------------------------
(* The calls that make a task.                                             *)

\* The task has not been made before; its node, if it is made at once, is N.
Made(t, k, g, l, c, N) ==
  /\ Steps(t, g, l, k, c, None, None) /\ l \in {"give", "load", "store", "attach"}
  /\ l = "store" => Kind[k] = "all" /\ Pred[k] = <<>>
  /\ l = "attach" => Kind[k] = "all" /\ Pred[k] # <<>>
  /\ l = "give" => Kind[k] = "produce"
  /\ l = "load" => Kind[k] = "then"
  /\ l \in {"give", "load"} => Kind[k] # "all"
  /\ l # "store" => c = <<k, 1>>
  /\ \A j \in Tasks : j # k => hold'[j] = hold[j] /\ remaining'[j] = remaining[j]
  /\ l = "attach" => remaining'[k] = Len(Pred[k])
  /\ l # "attach" => remaining'[k] = 0
  /\ HandlesIn(t, g, hold')
  /\ l \in {"give", "load"} => N = {c}
  /\ l \in {"store", "attach"} => N = {}
  /\ nodes' = nodes \cup N /\ cont' = cont /\ next' = next /\ queued' = queued

LEMMA MakeKeep ==
  ASSUME TaskStateAssumption, RefsInv, NEW t \in Threads, NEW k \in Tasks, Unmade(k), stack[t] # <<>>,
         Top(t).pc = "user", Top(t).making = None,
         NEW g, NEW l, NEW c, NEW N, Made(t, k, g, l, c, N), Types'
  PROVE  /\ ShapeInv' /\ HandleInv' /\ NodeInv' /\ ListInv' /\ StageInv' /\ CountInv'
         /\ N \in SUBSET Nodes /\ N \cap nodes = {}
         /\ \A j \in Tasks : l # "load" \/ PredOf(c) # j => Waiters(j)' = Waiters(j)
         /\ \A j \in Tasks : l = "load" /\ PredOf(c) = j => Waiters(j)' = Waiters(j) \cup {c} /\ c \notin Waiters(j)
         /\ \A j \in Tasks : j # k => (ResultRef(j)' <=> ResultRef(j))
         /\ ResultRef(k)' <=> l # "store"
         /\ ~ResultRef(k)
<1>. USE DEF RefsInv, NodeInv, Made
<1>0. k # None /\ nodes \in SUBSET Nodes /\ Pred[k] \in Seq(Tasks)
  BY Names DEF Types, TaskStateAssumption
<1>1. l # "store" => c \in Nodes /\ c[1] = k /\ c[2] = 1 /\ 1 \in Places(k)
  BY FirstNode
<1>2. N \in SUBSET Nodes /\ (\A n \in N : n = c /\ n[1] = k)
  BY <1>1
<1>3. cont[k] = None /\ hold[k] = {} /\ remaining[k] = 0 /\ (\A n \in nodes : n[1] # k)
  BY DEF Unmade
<1>4. /\ ~Marked("make", k) /\ ~Marked("settle", k)
      /\ \A n \in Nodes : n[1] = k => \A m \in Marks \ {"make", "settle"} : ~Marked(m, n)
  BY UnmadeMarks
<1>5. /\ Once' /\ Unchanged({"make", "link", "give", "settle", "come"})
      /\ Change("make", {k}, {})
      /\ Change("link", IF l \in {"give", "load"} THEN {c} ELSE {}, {})
      /\ Change("give", IF l = "give" THEN {c} ELSE {}, {})
      /\ Change("settle", IF l = "store" THEN {k} ELSE {}, {})
      /\ Change("come", Coming(k, l, c), {})
  BY <1>1, MakingMarks
<1>6. g.node = Top(t).node /\ g.making = k /\ g.pc = l /\ ShapeInv'
  BY DEF Steps, Is
<1>7. Change("run", {}, {}) /\ Change("pass", {}, {}) /\ Change("arrived", {}, {})
  BY <1>5, MarksAre DEF Unchanged
<1>8. \A n \in Nodes : /\ Marked("run", n)' <=> Marked("run", n)
                       /\ Marked("pass", n)' <=> Marked("pass", n)
                       /\ Marked("arrived", n)' <=> Marked("arrived", n)
                       /\ Marked("link", n)' <=> Marked("link", n) \/ n \in N
                       /\ Marked("give", n)' => Marked("give", n) \/ (n = c /\ l = "give")
                       /\ n[1] # k => (Marked("come", n)' <=> Marked("come", n))
  BY <1>5, <1>7, StayIs DEF Change, Coming
<1>9. \A j \in Tasks : /\ Marked("make", j)' <=> Marked("make", j) \/ j = k
                       /\ j # k \/ l # "store" => (Marked("settle", j)' <=> Marked("settle", j))
  BY <1>5 DEF Change
<1>10. \A n \in Nodes : n[1] = k => (Marked("come", n)' <=> (l \in {"give", "load"} /\ n[2] > c[2]) \/ (l = "attach" /\ n[2] >= c[2]))
  <2>1. \A n \in Nodes : n[1] = k => ~Marked("come", n)
    BY <1>4, MarksAre
  <2>2. \A n \in Nodes : Marked("come", n)' <=>
          n \in Coming(k, l, c) \/ Marked("come", n)
    BY <1>5 DEF Change
  <2>3. \A n \in Nodes : n[1] = k => (n \in Coming(k, l, c) <=> (l \in {"give", "load"} /\ n[2] > c[2]) \/ (l = "attach" /\ n[2] >= c[2]))
    BY DEF Coming
  <2>. HIDE DEF NodeInv, RefsInv, Made
  <2>. QED BY <2>1, <2>2, <2>3
<1>11. ASSUME NEW n \in N PROVE /\ n \in Nodes /\ n \notin nodes /\ n \notin queued /\ n[1] = k /\ n = c
                                /\ \A m \in Marks \ {"make", "settle"} : ~Marked(m, n)
  BY <1>2, <1>3, <1>4, <1>11 DEF Apart
<1>12. Apart'
  <2>1. queued' \subseteq nodes'
    BY DEF Apart
  <2>2. ASSUME NEW n \in Nodes
        PROVE  /\ Marked("run", n)' \/ Marked("link", n)' => n \in nodes'
               /\ n \in queued' => ~Marked("run", n)' /\ ~Marked("link", n)'
               /\ Marked("run", n)' => ~Marked("link", n)'
               /\ Marked("come", n)' => n \notin nodes'
    <3>1. /\ Marked("run", n) \/ Marked("link", n) => n \in nodes
          /\ n \in queued => ~Marked("run", n) /\ ~Marked("link", n)
          /\ Marked("run", n) => ~Marked("link", n)
          /\ Marked("come", n) => n \notin nodes
      BY DEF Apart
    <3>2. n \in N => n \notin queued /\ ~Marked("run", n)
      BY <1>11, MarksAre
    <3>3. Marked("come", n)' => n \notin nodes'
      BY <1>3, <1>1, <1>10, <1>11, <1>8, <3>1
    <3>. QED BY <1>8, <3>1, <3>2, <3>3
  <2>. QED BY <2>1, <2>2 DEF Apart
<1>13. ReadyInv'
  BY <1>8, <1>1, ReadyMove DEF IsReady
<1>14. SettleInv'
  <2>1. Left(g) <=> Left(Top(t))
    BY <1>0, <1>6 DEF Left, Own, LeavePcs
  <2>2. SubjectOf(g) = k
    BY <1>0, <1>6 DEF SubjectOf
  <2>3. cont[k] # Finished
    BY <1>3, Names
  <2>4. nodes' \in SUBSET Nodes
    BY <1>0, <1>2
  <2>5. \A n \in nodes' : ~Marked("run", n)' /\ Kind[n[1]] # "all" =>
                             (n \in nodes /\ ~Marked("run", n)) \/ cont[n[1]] # Finished
    BY <1>0, <1>8, <1>11, <2>3
  <2>6. l \notin LeavePcs \cup {"release_result"}
    BY DEF LeavePcs
  <2>. QED BY <2>1, <2>2, <2>3, <2>4, <2>5, <2>6, SettleMove
<1>15. HandleInv'
  BY <1>3, HandleMove
<1>16. ListInv'
  BY <1>8, <1>11, <1>0, <1>2, ListMove DEF IsWaiting, LeavePcs
<1>17. \A j \in Tasks : j # k => (ResultRef(j)' <=> ResultRef(j))
  BY <1>2, <1>9 DEF ResultRef
<1>18. ~ResultRef(k)
  BY <1>3, <1>4 DEF ResultRef
<1>19. ResultRef(k)' <=> l # "store"
  BY <1>0 DEF ResultRef
<1>20. ASSUME NEW j \in Tasks
       PROVE  Waiters(j)' = Waiters(j) \cup {n \in N : Kind[n[1]] # "produce" /\ PredOf(n) = j}
  BY <1>2, <1>8, <1>11, MarksAre, <1>0 DEF PredOf, Waiters
<1>23. ASSUME NEW j \in Tasks, l # "load" \/ PredOf(c) # j PROVE Waiters(j)' = Waiters(j)
  BY <1>2, <1>23, <1>20
<1>24. ASSUME NEW j \in Tasks, l = "load", PredOf(c) = j
       PROVE  Waiters(j)' = Waiters(j) \cup {c} /\ c \notin Waiters(j)
  BY <1>2, <1>11, <1>24, <1>20 DEF Waiters
<1>21. StageInv'
  <2>1. ASSUME NEW j \in Tasks, Unmade(j) PROVE Unmade(j)' \/ Marked("make", j)'
    BY <1>9, <1>2, <2>1, UnmadeSame
  <2>. QED BY <1>9, <1>17, <1>18, <2>1, StageMove
<1>22. CountInv'
  <2>. SUFFICES ASSUME NEW j \in Tasks, Kind[j] = "all"
                PROVE  /\ remaining'[j] = Cardinality(PendingOf(j)')
                       /\ remaining'[j] # 0 => ~Marked("settle", j)' /\ cont'[j] # Finished
    BY DEF CountInv
  <2>1. CASE j # k
    BY <1>2, <1>8, <2>1, PendingSame, <1>9 DEF Pends, CountInv
  <2>2. CASE j = k
    <3>1. N = {} /\ \A n \in Nodes : n[1] = k => (Pends(n)' <=> l = "attach" /\ n[2] >= c[2])
      BY <1>3, <1>10, <2>2 DEF Pends
    <3>2. PendingOf(j)' = {i \in Places(j) : Pends(<<j, i>>)'}
      BY DEF PendingOf, Places
    <3>3. \A i \in Places(j) : <<j, i>> \in Nodes /\ i \in Nat \ {0}
      BY NodeOf, NodeTyped
    <3>4. CASE l = "attach"
      <4>1. \A i \in Places(j) : Pends(<<j, i>>)'
        BY <1>1, <2>2, <3>1, <3>3, <3>4
      <4>2. PendingOf(j)' = Places(j)
        BY <3>2, <4>1
      <4>3. Len(Pred[k]) \in Nat /\ Places(k) = 1 .. Len(Pred[k])
        BY <1>0, <2>2 DEF Places
      <4>4. Cardinality(1 .. Len(Pred[k])) = Len(Pred[k])
        BY <4>3, FS_Interval
      <4>5. remaining'[j] = Len(Pred[k])
        BY <2>2, <3>4
      <4>. QED BY <1>3, <1>4, <1>9, <2>2, <3>4, <4>2, <4>3, <4>4, <4>5, Names
    <3>5. CASE l # "attach"
      BY <2>2, <3>1, <3>2, <3>3, <3>5, FS_EmptySet
    <3>. QED BY <3>4, <3>5
  <2>. QED BY <2>1, <2>2
<1>. QED BY <1>2, <1>5, <1>6, <1>11, <1>12, <1>13, <1>14, <1>15, <1>16, <1>17, <1>18, <1>19, <1>21, <1>22, <1>23, <1>24

\* Thread t calls for task k to be made.
MakesTask(t, k) == Calls(t, "make") /\ k = Call(t).arg /\ refs[k] = 0 /\ cont[k] = None
                   /\ \A i \in DOMAIN Pred[k] : Body(t) \in hold[Pred[k][i]]

Given(H, t, k) == H = [hold EXCEPT ![k] = {Body(t)}]

\* The caller has the handles it needs.
LEMMA MakeCall ==
  ASSUME TaskStateAssumption, RefsInv, NEW t \in Threads, NEW k, MakesTask(t, k),
         NEW g, NEW l, NEW c, Steps(t, g, l, k, c, None, None),
         NEW H, Given(H, t, k)
  PROVE  /\ k \in Tasks /\ Unmade(k) /\ stack[t] # <<>> /\ Top(t).pc = "user" /\ Top(t).making = None
         /\ HandlesIn(t, g, H) /\ Cardinality(Waiters(k)) = 0
         /\ \A j \in Tasks : j # k => H[j] = hold[j]
         /\ Cardinality(H[k]) = 1
         /\ \A i \in DOMAIN Pred[k] : Pred[k][i] # k
<1>. USE DEF RefsInv, NodeInv
<1>1. /\ Calls(t, "make") /\ k = Call(t).arg /\ refs[k] = 0 /\ cont[k] = None
      /\ \A i \in DOMAIN Pred[k] : Body(t) \in hold[Pred[k][i]]
  BY DEF MakesTask
<1>2. k \in Tasks /\ stack[t] # <<>> /\ Top(t).pc = "user" /\ Top(t).making = None
  BY <1>1, CallTop
<1>3. Unmade(k)
  BY <1>1, <1>2, MakeFresh
<1>4. hold[k] = {} /\ hold \in [Tasks -> SUBSET Bodies] /\ Pred[k] \in Seq(Tasks)
  BY <1>2, <1>3 DEF Unmade, Types, TaskStateAssumption
<1>5. H[k] = {Body(t)} /\ \A j \in Tasks : j # k => H[j] = hold[j]
  BY <1>2, <1>4 DEF Given
<1>6. Cardinality(H[k]) = 1
  BY FS_Singleton, <1>5
<1>7. \A i \in DOMAIN Pred[k] : Pred[k][i] # k /\ Pred[k][i] \in Tasks
  BY <1>1, <1>4
<1>8. HandlesIn(t, g, H)
  BY <1>2, Names, <1>1, <1>5, <1>7 DEF Steps, Is, Body, BodyOf, HandlesIn
<1>9. Cardinality(Waiters(k)) = 0
  BY <1>2, RefsCount, <1>1, FS_EmptySet
<1>. QED BY <1>2, <1>3, <1>5, <1>6, <1>7, <1>8, <1>9

LEMMA SubmitTaskRefs ==
  ASSUME TaskStateAssumption, RefsInv, NEW t \in Threads, SubmitTask(t)
  PROVE  RefsInv'
<1>0. Types /\ ShapeInv /\ RefInv
  BY DEF RefsInv
<1>1. PICK k : k = Call(t).arg
  OBVIOUS
<1>2. MakesTask(t, k) /\ Kind[k] = "produce"
  BY <1>1 DEF SubmitTask, CallsMake, MakesTask
<1>3. cont' = cont /\ next' = next /\ remaining' = remaining /\ queued' = queued
      /\ hold' = [hold EXCEPT ![k] = {Body(t)}]
      /\ refs' = [refs EXCEPT ![k] = 2] /\ nodes' = nodes \cup {<<k, 1>>}
  BY <1>1 DEF SubmitTask, Making, ctlVars
<1>4. Types' /\ \E g : Steps(t, g, "give", k, <<k, 1>>, None, None)
  BY <1>0, <1>1, SubmitTaskStep
<1>5. PICK g, l, c : Steps(t, g, l, k, c, None, None) /\ l = "give" /\ c = <<k, 1>>
  BY <1>4
<1>6. Steps(t, g, l, k, c, None, None)
  BY <1>5
<1>7. /\ k \in Tasks /\ Unmade(k) /\ stack[t] # <<>> /\ Top(t).pc = "user" /\ Top(t).making = None
      /\ HandlesIn(t, g, hold') /\ Cardinality(Waiters(k)) = 0
      /\ \A j \in Tasks : j # k => hold'[j] = hold[j]
      /\ Cardinality(hold'[k]) = 1
  <2>1. PICK H : H = hold'
    OBVIOUS
  <2>2. Given(H, t, k)
    BY <1>3, <2>1 DEF Given
  <2>3. /\ k \in Tasks /\ Unmade(k) /\ stack[t] # <<>> /\ Top(t).pc = "user" /\ Top(t).making = None
        /\ HandlesIn(t, g, H) /\ Cardinality(Waiters(k)) = 0
        /\ \A j \in Tasks : j # k => H[j] = hold[j]
        /\ Cardinality(H[k]) = 1
        /\ \A i \in DOMAIN Pred[k] : Pred[k][i] # k
    BY <1>2, <1>6, <2>2, MakeCall
  <2>. QED BY <2>1, <2>3
<1>8. /\ ShapeInv' /\ HandleInv' /\ NodeInv' /\ ListInv' /\ StageInv' /\ CountInv'
      /\ \A j \in Tasks : Waiters(j)' = Waiters(j)
      /\ \A j \in Tasks : j # k => (ResultRef(j)' <=> ResultRef(j))
      /\ ResultRef(k)' 
  <2>0. PICK N : N = {c}
    OBVIOUS
  <2>1. l \in {"give", "load", "store", "attach"}
    BY <1>5
  <2>2. (l # "store" => c = <<k, 1>>) /\ (l = "store" => Kind[k] = "all" /\ Pred[k] = <<>>)
    BY <1>2, <1>5
  <2>3. (l = "attach" => Kind[k] = "all" /\ Pred[k] # <<>>) /\ (l \in {"give", "load"} => Kind[k] # "all")
    BY <1>2, <1>5
  <2>4. (l = "give" => Kind[k] = "produce") /\ (l = "load" => Kind[k] = "then")
    BY <1>2, <1>5
  <2>5. (l \in {"give", "load"} => N = {c}) /\ (l \in {"store", "attach"} => N = {})
    BY <1>5, <2>0
  <2>6. nodes' = nodes \cup N
    BY <1>3, <1>5, <2>0
  <2>7. \A j \in Tasks : j # k => hold'[j] = hold[j] /\ remaining'[j] = remaining[j]
    BY <1>0, <1>3, <1>5, <1>7
  <2>8. (l = "attach" => remaining'[k] = Len(Pred[k])) /\ (l # "attach" => remaining'[k] = 0)
    BY <1>0, <1>3, <1>5, <1>7 DEF Unmade, Types
  <2>9. cont' = cont /\ next' = next /\ queued' = queued
    BY <1>3
  <2>11. HandlesIn(t, g, hold')
    BY <1>7
  <2>12. Made(t, k, g, l, c, N)
    BY <1>6, <2>1, <2>2, <2>3, <2>4, <2>5, <2>6, <2>7, <2>8, <2>9, <2>11 DEF Made
  <2>10. /\ ShapeInv' /\ HandleInv' /\ NodeInv' /\ ListInv' /\ StageInv' /\ CountInv'
         /\ \A j \in Tasks : l # "load" \/ PredOf(c) # j => Waiters(j)' = Waiters(j)
         /\ \A j \in Tasks : l = "load" /\ PredOf(c) = j => Waiters(j)' = Waiters(j) \cup {c} /\ c \notin Waiters(j)
         /\ \A j \in Tasks : j # k => (ResultRef(j)' <=> ResultRef(j))
         /\ ResultRef(k)' <=> l # "store"
    BY <1>4, <1>7, <2>12, MakeKeep
  <2>. QED BY <1>5, <2>10
<1>9. RefInv'
  <2>. SUFFICES ASSUME NEW j \in Tasks
                PROVE  refs'[j] = Cardinality(hold'[j]) + Cardinality(Waiters(j)') + (IF ResultRef(j)' THEN 1 ELSE 0)
    BY DEF RefInv
  <2>1. Waiters(j)' = Waiters(j)
    BY <1>8
  <2>2. CASE j = k
    <3>1. refs'[k] = 2
      BY <1>0, <1>3, <1>7 DEF Types
    <3>. QED BY <1>7, <1>8, <2>1, <2>2, <3>1
  <2>3. CASE j # k
    BY <1>0, <1>3, <1>7, <2>3, <1>8, <2>1 DEF Types, RefInv
  <2>. QED BY <2>2, <2>3
<1>. QED BY <1>4, <1>8, <1>9 DEF RefsInv

LEMMA ThenRefs ==
  ASSUME TaskStateAssumption, RefsInv, NEW t \in Threads, Then(t)
  PROVE  RefsInv'
<1>0. Types /\ ShapeInv /\ RefInv
  BY DEF RefsInv
<1>1. PICK k : k = Call(t).arg
  OBVIOUS
<1>2. MakesTask(t, k) /\ Kind[k] = "then"
  BY <1>1 DEF Then, CallsMake, MakesTask
<1>3. cont' = cont /\ next' = next /\ remaining' = remaining /\ queued' = queued
      /\ hold' = [hold EXCEPT ![k] = {Body(t)}]
      /\ refs' = [refs EXCEPT ![k] = 2, ![Pred[k][1]] = @ + 1] /\ nodes' = nodes \cup {<<k, 1>>}
  BY <1>1 DEF Then, Making, ctlVars
<1>4. Types' /\ \E g : Steps(t, g, "load", k, <<k, 1>>, None, None)
  BY <1>0, <1>1, ThenStep
<1>5. PICK g, l, c : Steps(t, g, l, k, c, None, None) /\ l = "load" /\ c = <<k, 1>>
  BY <1>4
<1>6. Steps(t, g, l, k, c, None, None)
  BY <1>5
<1>7. /\ k \in Tasks /\ Unmade(k) /\ stack[t] # <<>> /\ Top(t).pc = "user" /\ Top(t).making = None
      /\ HandlesIn(t, g, hold') /\ Cardinality(Waiters(k)) = 0
      /\ \A j \in Tasks : j # k => hold'[j] = hold[j]
      /\ Cardinality(hold'[k]) = 1
      /\ \A i \in DOMAIN Pred[k] : Pred[k][i] # k
  <2>1. PICK H : H = hold'
    OBVIOUS
  <2>2. Given(H, t, k)
    BY <1>3, <2>1 DEF Given
  <2>3. /\ k \in Tasks /\ Unmade(k) /\ stack[t] # <<>> /\ Top(t).pc = "user" /\ Top(t).making = None
        /\ HandlesIn(t, g, H) /\ Cardinality(Waiters(k)) = 0
        /\ \A j \in Tasks : j # k => H[j] = hold[j]
        /\ Cardinality(H[k]) = 1
        /\ \A i \in DOMAIN Pred[k] : Pred[k][i] # k
    BY <1>2, <1>6, <2>2, MakeCall
  <2>. QED BY <2>1, <2>3
<1>8. /\ ShapeInv' /\ HandleInv' /\ NodeInv' /\ ListInv' /\ StageInv' /\ CountInv'
      /\ \A j \in Tasks : PredOf(c) # j => Waiters(j)' = Waiters(j)
      /\ \A j \in Tasks : PredOf(c) = j => Waiters(j)' = Waiters(j) \cup {c} /\ c \notin Waiters(j)
      /\ \A j \in Tasks : j # k => (ResultRef(j)' <=> ResultRef(j))
      /\ ResultRef(k)' 
  <2>0. PICK N : N = {c}
    OBVIOUS
  <2>1. l \in {"give", "load", "store", "attach"}
    BY <1>5
  <2>2. (l # "store" => c = <<k, 1>>) /\ (l = "store" => Kind[k] = "all" /\ Pred[k] = <<>>)
    BY <1>2, <1>5
  <2>3. (l = "attach" => Kind[k] = "all" /\ Pred[k] # <<>>) /\ (l \in {"give", "load"} => Kind[k] # "all")
    BY <1>2, <1>5
  <2>4. (l = "give" => Kind[k] = "produce") /\ (l = "load" => Kind[k] = "then")
    BY <1>2, <1>5
  <2>5. (l \in {"give", "load"} => N = {c}) /\ (l \in {"store", "attach"} => N = {})
    BY <1>5, <2>0
  <2>6. nodes' = nodes \cup N
    BY <1>3, <1>5, <2>0
  <2>7. \A j \in Tasks : j # k => hold'[j] = hold[j] /\ remaining'[j] = remaining[j]
    BY <1>0, <1>3, <1>5, <1>7
  <2>8. (l = "attach" => remaining'[k] = Len(Pred[k])) /\ (l # "attach" => remaining'[k] = 0)
    BY <1>0, <1>3, <1>5, <1>7 DEF Unmade, Types
  <2>9. cont' = cont /\ next' = next /\ queued' = queued
    BY <1>3
  <2>11. HandlesIn(t, g, hold')
    BY <1>7
  <2>12. Made(t, k, g, l, c, N)
    BY <1>6, <2>1, <2>2, <2>3, <2>4, <2>5, <2>6, <2>7, <2>8, <2>9, <2>11 DEF Made
  <2>10. /\ ShapeInv' /\ HandleInv' /\ NodeInv' /\ ListInv' /\ StageInv' /\ CountInv'
         /\ \A j \in Tasks : l # "load" \/ PredOf(c) # j => Waiters(j)' = Waiters(j)
         /\ \A j \in Tasks : l = "load" /\ PredOf(c) = j => Waiters(j)' = Waiters(j) \cup {c} /\ c \notin Waiters(j)
         /\ \A j \in Tasks : j # k => (ResultRef(j)' <=> ResultRef(j))
         /\ ResultRef(k)' <=> l # "store"
    BY <1>4, <1>7, <2>12, MakeKeep
  <2>. QED BY <1>5, <2>10
<1>9. PICK p \in Tasks : p = Pred[k][1] /\ p # k /\ PredOf(c) = p
  <2>1. Pred[k] \in Seq(Tasks) /\ Len(Pred[k]) = 1
    BY <1>2, <1>7 DEF TaskStateAssumption
  <2>2. 1 \in DOMAIN Pred[k] /\ Pred[k][1] \in Tasks
    BY <2>1
  <2>3. c[1] = k /\ c[2] = 1
    BY <1>5
  <2>. QED BY <1>2, <1>7, <2>2, <2>3 DEF PredOf
<1>10. RefInv'
  <2>. SUFFICES ASSUME NEW j \in Tasks
                PROVE  refs'[j] = Cardinality(hold'[j]) + Cardinality(Waiters(j)') + (IF ResultRef(j)' THEN 1 ELSE 0)
    BY DEF RefInv
  <2>2. CASE j = k
    BY <1>0, <1>3, <1>7, <1>9, <1>8, <2>2 DEF Types
  <2>3. CASE j = p
    <3>1. refs'[j] = refs[j] + 1 /\ hold'[j] = hold[j] /\ refs[j] \in Int
      BY <1>0, <1>3, <1>7, <1>9, <2>3 DEF Types
    <3>2. Waiters(j)' = Waiters(j) \cup {c} /\ c \notin Waiters(j)
      BY <1>8, <1>9, <2>3
    <3>3. IsFiniteSet(Waiters(j)) /\ Cardinality(Waiters(j)) \in Nat /\ Cardinality(hold[j]) \in Nat
      BY <1>0, RefsCount
    <3>4. Cardinality(Waiters(j)') = Cardinality(Waiters(j)) + 1
      BY <3>2, <3>3, FS_AddElement
    <3>5. refs[j] = Cardinality(hold[j]) + Cardinality(Waiters(j)) + (IF ResultRef(j) THEN 1 ELSE 0)
      BY <1>0 DEF RefInv
    <3>6. ResultRef(j)' <=> ResultRef(j)
      BY <1>8, <1>9, <2>3
    <3>7. CASE ResultRef(j)
      BY <3>1, <3>3, <3>4, <3>5, <3>6, <3>7
    <3>8. CASE ~ResultRef(j)
      BY <3>1, <3>3, <3>4, <3>5, <3>6, <3>8
    <3>. QED BY <3>7, <3>8
  <2>4. CASE j # k /\ j # p
    BY <1>0, <1>3, <1>7, <1>9, <2>4, <1>8 DEF Types, RefInv
  <2>. QED BY <2>2, <2>3, <2>4
<1>. QED BY <1>4, <1>8, <1>10 DEF RefsInv

LEMMA WhenAllRefs ==
  ASSUME TaskStateAssumption, RefsInv, NEW t \in Threads, WhenAll(t)
  PROVE  RefsInv'
<1>0. Types /\ ShapeInv /\ RefInv
  BY DEF RefsInv
<1>1. PICK k : k = Call(t).arg
  OBVIOUS
<1>2. MakesTask(t, k) /\ Kind[k] = "all"
  BY <1>1 DEF WhenAll, CallsMake, MakesTask
<1>3. cont' = cont /\ next' = next /\ nodes' = nodes /\ queued' = queued
      /\ hold' = [hold EXCEPT ![k] = {Body(t)}]
  BY <1>1 DEF WhenAll, Making, nodeVars
<1>4. /\ Types'
      /\ \/ /\ Pred[k] = <<>> /\ refs' = [refs EXCEPT ![k] = 1] /\ UNCHANGED remaining
            /\ \E g : Steps(t, g, "store", k, None, None, None)
         \/ /\ Pred[k] # <<>> /\ refs' = [refs EXCEPT ![k] = 2]
            /\ remaining' = [remaining EXCEPT ![k] = Len(Pred[k])]
            /\ \E g : Steps(t, g, "attach", k, <<k, 1>>, None, None)
  BY <1>0, <1>1, WhenAllStep
<1>5. PICK g, l, c : /\ Steps(t, g, l, k, c, None, None)
                     /\ \/ /\ l = "store" /\ Pred[k] = <<>> /\ refs' = [refs EXCEPT ![k] = 1] /\ UNCHANGED remaining
                        \/ /\ l = "attach" /\ Pred[k] # <<>> /\ refs' = [refs EXCEPT ![k] = 2] /\ c = <<k, 1>>
                           /\ remaining' = [remaining EXCEPT ![k] = Len(Pred[k])]
  BY <1>4
<1>6. Steps(t, g, l, k, c, None, None)
  BY <1>5
<1>7. /\ k \in Tasks /\ Unmade(k) /\ stack[t] # <<>> /\ Top(t).pc = "user" /\ Top(t).making = None
      /\ HandlesIn(t, g, hold') /\ Cardinality(Waiters(k)) = 0
      /\ \A j \in Tasks : j # k => hold'[j] = hold[j]
      /\ Cardinality(hold'[k]) = 1
  <2>1. PICK H : H = hold'
    OBVIOUS
  <2>2. Given(H, t, k)
    BY <1>3, <2>1 DEF Given
  <2>3. /\ k \in Tasks /\ Unmade(k) /\ stack[t] # <<>> /\ Top(t).pc = "user" /\ Top(t).making = None
        /\ HandlesIn(t, g, H) /\ Cardinality(Waiters(k)) = 0
        /\ \A j \in Tasks : j # k => H[j] = hold[j]
        /\ Cardinality(H[k]) = 1
        /\ \A i \in DOMAIN Pred[k] : Pred[k][i] # k
    BY <1>2, <1>6, <2>2, MakeCall
  <2>. QED BY <2>1, <2>3
<1>8. /\ ShapeInv' /\ HandleInv' /\ NodeInv' /\ ListInv' /\ StageInv' /\ CountInv'
      /\ \A j \in Tasks : Waiters(j)' = Waiters(j)
      /\ \A j \in Tasks : j # k => (ResultRef(j)' <=> ResultRef(j))
      /\ ResultRef(k)' <=> l # "store"
  <2>0. PICK N : N = {}
    OBVIOUS
  <2>1. l \in {"give", "load", "store", "attach"}
    BY <1>5
  <2>2. (l # "store" => c = <<k, 1>>) /\ (l = "store" => Kind[k] = "all" /\ Pred[k] = <<>>)
    BY <1>2, <1>5
  <2>3. (l = "attach" => Kind[k] = "all" /\ Pred[k] # <<>>) /\ (l \in {"give", "load"} => Kind[k] # "all")
    BY <1>2, <1>5
  <2>4. (l = "give" => Kind[k] = "produce") /\ (l = "load" => Kind[k] = "then")
    BY <1>2, <1>5
  <2>5. (l \in {"give", "load"} => N = {c}) /\ (l \in {"store", "attach"} => N = {})
    BY <1>5, <2>0
  <2>6. nodes' = nodes \cup N
    BY <1>3, <1>5, <2>0
  <2>7. \A j \in Tasks : j # k => hold'[j] = hold[j] /\ remaining'[j] = remaining[j]
    BY <1>0, <1>5, <1>7 DEF Types
  <2>8. (l = "attach" => remaining'[k] = Len(Pred[k])) /\ (l # "attach" => remaining'[k] = 0)
    BY <1>0, <1>3, <1>5, <1>7 DEF Unmade, Types
  <2>9. cont' = cont /\ next' = next /\ queued' = queued
    BY <1>3
  <2>11. HandlesIn(t, g, hold')
    BY <1>7
  <2>12. Made(t, k, g, l, c, N)
    BY <1>6, <2>1, <2>2, <2>3, <2>4, <2>5, <2>6, <2>7, <2>8, <2>9, <2>11 DEF Made
  <2>10. /\ ShapeInv' /\ HandleInv' /\ NodeInv' /\ ListInv' /\ StageInv' /\ CountInv'
         /\ \A j \in Tasks : l # "load" \/ PredOf(c) # j => Waiters(j)' = Waiters(j)
         /\ \A j \in Tasks : l = "load" /\ PredOf(c) = j => Waiters(j)' = Waiters(j) \cup {c} /\ c \notin Waiters(j)
         /\ \A j \in Tasks : j # k => (ResultRef(j)' <=> ResultRef(j))
         /\ ResultRef(k)' <=> l # "store"
    BY <1>4, <1>7, <2>12, MakeKeep
  <2>. QED BY <1>5, <2>10
<1>9. RefInv'
  <2>. SUFFICES ASSUME NEW j \in Tasks
                PROVE  refs'[j] = Cardinality(hold'[j]) + Cardinality(Waiters(j)') + (IF ResultRef(j)' THEN 1 ELSE 0)
    BY DEF RefInv
  <2>1. Waiters(j)' = Waiters(j)
    BY <1>8
  <2>2. CASE j = k
    BY <1>0, <1>5, <1>7, <1>8, <2>1, <2>2 DEF Types
  <2>3. CASE j # k
    BY <1>0, <1>5, <1>7, <2>3, <1>8, <2>1 DEF Types, RefInv
  <2>. QED BY <2>2, <2>3
<1>. QED BY <1>4, <1>8, <1>9 DEF RefsInv

-----------------------------------------------------------------------------
(* The references after a step that changes those of one task.             *)

LEMMA RefOne ==
  ASSUME RefInv, NEW p \in Tasks,
         \A j \in Tasks : j # p => /\ refs'[j] = refs[j] /\ hold'[j] = hold[j] /\ Waiters(j)' = Waiters(j)
                                   /\ ResultRef(j)' <=> ResultRef(j),
         refs'[p] = Cardinality(hold'[p]) + Cardinality(Waiters(p)') + (IF ResultRef(p)' THEN 1 ELSE 0)
  PROVE  RefInv'
<1>. SUFFICES ASSUME NEW j \in Tasks
              PROVE  refs'[j] = Cardinality(hold'[j]) + Cardinality(Waiters(j)') + (IF ResultRef(j)' THEN 1 ELSE 0)
  BY DEF RefInv
<1>1. CASE j = p
  BY <1>1
<1>2. CASE j # p
  BY <1>2 DEF RefInv
<1>. QED BY <1>1, <1>2

\* A waiter more, and one less.
LEMMA WaiterMore ==
  ASSUME Types, RefInv, NEW p \in Tasks, NEW c, c \notin Waiters(p), Waiters(p)' = Waiters(p) \cup {c},
         hold'[p] = hold[p], refs'[p] = refs[p] + 1, ResultRef(p)' <=> ResultRef(p)
  PROVE  refs'[p] = Cardinality(hold'[p]) + Cardinality(Waiters(p)') + (IF ResultRef(p)' THEN 1 ELSE 0)
<1>1. IsFiniteSet(Waiters(p)) /\ Cardinality(Waiters(p)) \in Nat /\ Cardinality(hold[p]) \in Nat
  BY RefsCount
<1>2. Cardinality(Waiters(p)') = Cardinality(Waiters(p)) + 1
  BY <1>1, FS_AddElement
<1>3. refs[p] = Cardinality(hold[p]) + Cardinality(Waiters(p)) + (IF ResultRef(p) THEN 1 ELSE 0)
  BY DEF RefInv
<1>4. CASE ResultRef(p)
  BY <1>1, <1>2, <1>3, <1>4
<1>5. CASE ~ResultRef(p)
  BY <1>1, <1>2, <1>3, <1>5
<1>. QED BY <1>4, <1>5

LEMMA WaiterLess ==
  ASSUME Types, RefInv, NEW p \in Tasks, NEW c, c \in Waiters(p), Waiters(p)' = Waiters(p) \ {c},
         hold'[p] = hold[p], refs'[p] = refs[p] - 1, ResultRef(p)' <=> ResultRef(p)
  PROVE  refs'[p] = Cardinality(hold'[p]) + Cardinality(Waiters(p)') + (IF ResultRef(p)' THEN 1 ELSE 0)
<1>1. IsFiniteSet(Waiters(p)) /\ Cardinality(Waiters(p)) \in Nat /\ Cardinality(hold[p]) \in Nat
  BY RefsCount
<1>2. Cardinality(Waiters(p)') = Cardinality(Waiters(p)) - 1
  BY <1>1, FS_RemoveElement
<1>3. refs[p] = Cardinality(hold[p]) + Cardinality(Waiters(p)) + (IF ResultRef(p) THEN 1 ELSE 0)
  BY DEF RefInv
<1>4. CASE ResultRef(p)
  BY <1>1, <1>2, <1>3, <1>4
<1>5. CASE ~ResultRef(p)
  BY <1>1, <1>2, <1>3, <1>5
<1>. QED BY <1>4, <1>5

-----------------------------------------------------------------------------
(* A node of a when_all is made.                                           *)

LEMMA AttachRefs ==
  ASSUME TaskStateAssumption, RefsInv, NEW t \in Threads, Attach(t)
  PROVE  RefsInv'
<1>. USE DEF RefsInv, NodeInv
<1>1. stack[t] # <<>> /\ Top(t).pc = "attach"
  BY DEF Attach, At
<1>2. PICK c, k, p : c = Top(t).cur /\ k = Top(t).making /\ p = PredOf(c)
  OBVIOUS
<1>3. /\ k \in Tasks /\ k # None /\ c \in Nodes /\ c[1] = k /\ p \in Tasks
      /\ Kind[k] = "all" /\ Kind[c[1]] # "produce"
  BY <1>1, AddTop, <1>2 DEF AddPcs, ArrivePcs
<1>4. Types' /\ \E g : Steps(t, g, "load", Top(t).making, Top(t).cur, None, Top(t).exc)
  BY AttachStep
<1>5. PICK g : Steps(t, g, "load", Top(t).making, Top(t).cur, None, Top(t).exc)
  BY <1>4
<1>6. /\ refs' = [refs EXCEPT ![p] = @ + 1] /\ nodes' = nodes \cup {c}
      /\ cont' = cont /\ next' = next /\ remaining' = remaining /\ hold' = hold /\ queued' = queued
  BY <1>2 DEF Attach, AddRef, ctlVars
<1>7. /\ Once' /\ Unchanged({"link", "come"})
      /\ Change("link", {c}, {}) /\ Change("come", {}, {c}) /\ Marked("come", c)
  BY <1>1, <1>2, <1>5, AttachMarks
<1>8. ShapeInv' /\ g.node = Top(t).node /\ g.making = k /\ g.pc = "load"
  BY <1>2, <1>5 DEF Steps, Is
<1>9. /\ Change("run", {}, {}) /\ Change("pass", {}, {}) /\ Change("arrived", {}, {})
      /\ Change("give", {}, {}) /\ Change("make", {}, {}) /\ Change("settle", {}, {})
  BY <1>7, MarksAre DEF Unchanged
<1>10. \A n \in Nodes : /\ Marked("run", n)' <=> Marked("run", n)
                        /\ Marked("pass", n)' <=> Marked("pass", n)
                        /\ Marked("arrived", n)' <=> Marked("arrived", n)
                        /\ Marked("give", n)' <=> Marked("give", n)
                        /\ Marked("link", n)' <=> Marked("link", n) \/ n = c
                        /\ Marked("come", n)' <=> Marked("come", n) /\ n # c
  BY <1>7, <1>9 DEF Change
<1>11. \A j \in Tasks : /\ Marked("make", j)' <=> Marked("make", j)
                        /\ Marked("settle", j)' <=> Marked("settle", j)
  BY <1>9 DEF Change
<1>12. /\ c \notin nodes /\ c \notin queued /\ ~Marked("run", c) /\ ~Marked("link", c)
       /\ ~Marked("pass", c) /\ ~Marked("arrived", c)
  BY <1>3, <1>7, MarkRules DEF Apart
<1>13. nodes \in SUBSET Nodes /\ nodes' \in SUBSET Nodes
  BY <1>3, <1>6 DEF Types
<1>14. \A n \in Nodes : IsWaiting(n)' <=> IsWaiting(n)
  BY <1>6, <1>10, <1>12 DEF IsWaiting
<1>15. Apart'
  BY <1>6, <1>10, <1>12 DEF Apart
<1>16. ReadyInv'
  BY <1>6, <1>9, ReadySame
<1>17. SettleInv'
  BY <1>1, <1>2, <1>3, <1>8, <1>6, <1>10, <1>13, <1>5, SettleMove DEF Left, Own, LeavePcs, SettlePcs
<1>18. HandleInv'
  BY <1>2, <1>3, <1>5, <1>6, HandleMove
<1>19. ListInv'
  BY <1>1, <1>5, <1>6, <1>13, <1>14, ListMove DEF LeavePcs
<1>20. ASSUME NEW j \in Tasks PROVE ResultRef(j)' <=> ResultRef(j)
  BY <1>3, <1>6, <1>11 DEF ResultRef
<1>21. ASSUME NEW j \in Tasks PROVE Waiters(j)' = IF j = p THEN Waiters(j) \cup {c} ELSE Waiters(j)
  BY <1>10, <1>13, <1>3, <1>12, <1>2, <1>6 DEF PredOf, Waiters
<1>22. RefInv'
  <2>1. \A j \in Tasks : j # p => /\ refs'[j] = refs[j] /\ hold'[j] = hold[j] /\ Waiters(j)' = Waiters(j)
                                  /\ ResultRef(j)' <=> ResultRef(j)
    BY <1>3, <1>6, <1>20, <1>21 DEF Types
  <2>2. c \notin Waiters(p) /\ Waiters(p)' = Waiters(p) \cup {c}
    BY <1>3, <1>12, <1>21 DEF Waiters
  <2>3. refs'[p] = refs[p] + 1 /\ hold'[p] = hold[p] /\ (ResultRef(p)' <=> ResultRef(p))
    BY <1>3, <1>6, <1>20 DEF Types
  <2>4. refs'[p] = Cardinality(hold'[p]) + Cardinality(Waiters(p)') + (IF ResultRef(p)' THEN 1 ELSE 0)
    BY <1>3, <2>2, <2>3, WaiterMore
  <2>. QED BY <1>3, <2>1, <2>4, RefOne
<1>23. StageInv'
  BY <1>3, <1>7, MarkRules, <1>6, <1>11, UnmadeSame, <1>20, StageMove DEF Unmade
<1>24. CountInv'
  BY <1>6, <1>7, <1>10, <1>12, <1>11, CountSame DEF Pends
<1>. QED BY <1>4, <1>7, <1>8, <1>15, <1>16, <1>17, <1>18, <1>19, <1>22, <1>23, <1>24

-----------------------------------------------------------------------------
(* A node is taken from the queue.                                         *)

LEMMA TakeRefs ==
  ASSUME TaskStateAssumption, RefsInv, NEW t \in Threads, Take(t)
  PROVE  RefsInv'
<1>. USE DEF RefsInv, NodeInv
<1>1. PICK n \in queued :
        /\ queued' = queued \ {n}
        /\ stack' = [stack EXCEPT ![t] =
             Append([i \in DOMAIN stack[t] |->
                       IF stack[t][i].pc = "help" THEN [stack[t][i] EXCEPT !.pc = "wait"]
                                                  ELSE stack[t][i]],
                    Frame(n, IF Kind[n[1]] = "produce" THEN "user" ELSE "look"))]
        /\ runs' = IF Kind[n[1]] = "produce" THEN [runs EXCEPT ![n[1]] = @ + 1] ELSE runs
  BY DEF Take
<1>2. PICK g : g = Frame(n, IF Kind[n[1]] = "produce" THEN "user" ELSE "look")
  OBVIOUS
<1>3. Types' /\ ShapeInv' /\ Pushes(t, g)
  BY <1>1, <1>2, TakeStep DEF Take
<1>4. /\ refs' = refs /\ cont' = cont /\ nodes' = nodes /\ next' = next /\ remaining' = remaining
      /\ hold' = hold /\ queued' = queued \ {n}
  BY <1>1 DEF Take, stateVars, nodeVars, ctlVars
<1>5. /\ n \in Nodes /\ n \in nodes /\ ~Marked("run", n) /\ ~Marked("link", n)
      /\ nodes \in SUBSET Nodes /\ nodes' \in SUBSET Nodes
  BY <1>4 DEF Types, Apart
<1>6. g.node = n /\ g.pc \in {"user", "look"} /\ g.making = None
  BY <1>2 DEF Frame
<1>7. Once' /\ Unchanged({"run"}) /\ Change("run", {n}, {})
  BY <1>2, <1>3, TakeMarks
<1>8. /\ Change("pass", {}, {}) /\ Change("arrived", {}, {}) /\ Change("settle", {}, {})
      /\ Change("give", {}, {}) /\ Change("make", {}, {}) /\ Change("link", {}, {}) /\ Change("come", {}, {})
  BY <1>7, MarksAre DEF Unchanged
<1>9. \A m \in Nodes : /\ Marked("run", m)' <=> Marked("run", m) \/ m = n
                       /\ Marked("link", m)' <=> Marked("link", m)
                       /\ Marked("give", m)' <=> Marked("give", m)
                       /\ Marked("come", m)' <=> Marked("come", m)
  BY <1>7, <1>8 DEF Change
<1>10. \A m \in Nodes : IsWaiting(m)' <=> IsWaiting(m)
  BY <1>4, <1>5, <1>9 DEF IsWaiting
<1>11. Apart'
  BY <1>4, <1>5, <1>9 DEF Apart
<1>12. ReadyInv'
  BY <1>4, <1>9, ReadyMove DEF IsReady
<1>13. SettleInv'
  BY <1>5, <1>9, <1>3, <1>4, <1>6, SettlePush
<1>14. HandleInv'
  BY <1>3, <1>4, <1>6, HandlePush
<1>15. ListInv'
  <2>1. g.pc \notin LeavePcs
    BY <1>6 DEF LeavePcs
  <2>. QED BY <1>3, <1>4, <1>5, <1>10, <2>1, ListPush
<1>16. \A j \in Tasks : Waiters(j)' = Waiters(j)
  BY <1>4, <1>5, <1>8, WaitersSame
<1>17. \A j \in Tasks : ResultRef(j)' <=> ResultRef(j)
  BY <1>8, <1>4, ResultSame DEF Change
<1>18. RefInv'
  BY <1>4, <1>16, <1>17, RefSame
<1>19. StageInv'
  BY <1>4, <1>8, <1>17, StageSame
<1>20. CountInv'
  BY <1>4, <1>8, PendsSame, CountSame DEF Change
<1>. QED BY <1>3, <1>7, <1>11, <1>12, <1>13, <1>14, <1>15, <1>18, <1>19, <1>20

-----------------------------------------------------------------------------
(* Handles are copied and dropped.                                         *)

\* A handle more, and one less.
LEMMA HolderMore ==
  ASSUME Types, RefInv, NEW p \in Tasks, NEW b, b \notin hold[p], hold'[p] = hold[p] \cup {b},
         Waiters(p)' = Waiters(p), refs'[p] = refs[p] + 1, ResultRef(p)' <=> ResultRef(p)
  PROVE  refs'[p] = Cardinality(hold'[p]) + Cardinality(Waiters(p)') + (IF ResultRef(p)' THEN 1 ELSE 0)
<1>1. IsFiniteSet(hold[p]) /\ Cardinality(Waiters(p)) \in Nat /\ Cardinality(hold[p]) \in Nat
  BY RefsCount
<1>2. Cardinality(hold'[p]) = Cardinality(hold[p]) + 1
  BY <1>1, FS_AddElement
<1>3. refs[p] = Cardinality(hold[p]) + Cardinality(Waiters(p)) + (IF ResultRef(p) THEN 1 ELSE 0)
  BY DEF RefInv
<1>4. CASE ResultRef(p)
  BY <1>1, <1>2, <1>3, <1>4
<1>5. CASE ~ResultRef(p)
  BY <1>1, <1>2, <1>3, <1>5
<1>. QED BY <1>4, <1>5

LEMMA HolderLess ==
  ASSUME Types, RefInv, NEW p \in Tasks, NEW b, b \in hold[p], hold'[p] = hold[p] \ {b},
         Waiters(p)' = Waiters(p), refs'[p] = refs[p] - 1, ResultRef(p)' <=> ResultRef(p)
  PROVE  refs'[p] = Cardinality(hold'[p]) + Cardinality(Waiters(p)') + (IF ResultRef(p)' THEN 1 ELSE 0)
<1>1. IsFiniteSet(hold[p]) /\ Cardinality(Waiters(p)) \in Nat /\ Cardinality(hold[p]) \in Nat
  BY RefsCount
<1>2. Cardinality(hold'[p]) = Cardinality(hold[p]) - 1
  BY <1>1, FS_RemoveElement
<1>3. refs[p] = Cardinality(hold[p]) + Cardinality(Waiters(p)) + (IF ResultRef(p) THEN 1 ELSE 0)
  BY DEF RefInv
<1>4. CASE ResultRef(p)
  BY <1>1, <1>2, <1>3, <1>4
<1>5. CASE ~ResultRef(p)
  BY <1>1, <1>2, <1>3, <1>5
<1>. QED BY <1>4, <1>5

\* The parts that do not depend on the handles, when a call of copy or drop returns.
LEMMA HolderKeep ==
  ASSUME TaskStateAssumption, RefsInv, NEW t \in Threads, stack[t] # <<>>, Top(t).pc = "user",
         Top(t).making = None, NEW g, Steps(t, g, "user", None, None, None, None),
         UNCHANGED <<cont, nodes, next, remaining, queued>>,
         \A k \in Tasks : hold[k] = {} => hold'[k] = {}
  PROVE  /\ ShapeInv' /\ Once' /\ Apart' /\ ReadyInv' /\ SettleInv' /\ ListInv' /\ StageInv' /\ CountInv'
         /\ \A k \in Tasks : Waiters(k)' = Waiters(k) /\ (ResultRef(k)' <=> ResultRef(k))
<1>. USE DEF RefsInv, NodeInv
<1>1. Once' /\ SameMarks
  BY UserSame DEF UserPcs
<1>2. ShapeInv' /\ g.node = Top(t).node /\ g.making = None /\ g.pc = "user"
  BY DEF Steps, Is
<1>3. /\ \A k \in Tasks : Waiters(k)' = Waiters(k) /\ (ResultRef(k)' <=> ResultRef(k))
      /\ \A n \in Nodes : Pends(n)' <=> Pends(n)
      /\ \A m \in Marks : \A n \in Nodes \cup Tasks : Marked(m, n)' <=> Marked(m, n)
  BY <1>1, MarksSame
<1>4. /\ Change("run", {}, {}) /\ Change("give", {}, {}) /\ Change("link", {}, {}) /\ Change("come", {}, {})
  BY <1>1, MarksAre DEF SameMarks
<1>5. nodes \in SUBSET Nodes /\ nodes' \in SUBSET Nodes
  BY DEF Types
<1>6. Apart' /\ \A n \in Nodes : IsWaiting(n)' <=> IsWaiting(n)
  BY <1>4, ApartSame
<1>7. ReadyInv'
  BY <1>4, ReadySame
<1>8. SettleInv'
  BY <1>2, <1>3, <1>5, MarksAre, SettleMove DEF Left, Own, LeavePcs, SettlePcs
<1>9. ListInv'
  BY <1>5, <1>6, ListMove DEF LeavePcs
<1>10. \A j \in Tasks : Marked("make", j)' <=> Marked("make", j)
  BY <1>3, MarksAre
<1>11. \A j \in Tasks : Marked("settle", j)' <=> Marked("settle", j)
  BY <1>3, MarksAre
<1>12. StageInv'
  BY <1>10, UnmadeSame, <1>3, StageMove DEF Unmade
<1>13. CountInv'
  BY <1>3, <1>11, CountSame
<1>. QED BY <1>1, <1>2, <1>3, <1>6, <1>7, <1>8, <1>9, <1>12, <1>13

LEMMA CopyRefs ==
  ASSUME TaskStateAssumption, RefsInv, NEW t \in Threads, Copy(t)
  PROVE  RefsInv'
<1>. USE DEF RefsInv, NodeInv
<1>1. /\ stack[t] # <<>> /\ Top(t).pc = "user" /\ HasCall(t) /\ Call(t).op = "copy"
      /\ Body(t) \in hold[Call(t).arg] /\ Call(t).to \notin hold[Call(t).arg]
      /\ refs' = [refs EXCEPT ![Call(t).arg] = @ + 1]
      /\ hold' = [hold EXCEPT ![Call(t).arg] = @ \cup {Call(t).to}]
      /\ UNCHANGED <<cont, nodes, next, remaining, queued>> /\ Calls(t, "copy")
  BY DEF Copy, Calls, At, AddRef, nodeVars, ctlVars
<1>2. Types' /\ \E g : Steps(t, g, "user", None, None, None, None)
  BY CopyStep
<1>3. PICK g : Steps(t, g, "user", None, None, None, None)
  BY <1>2
<1>4. Top(t).making = None /\ Call(t).arg \in Tasks
  BY <1>1, CallTop
<1>5. PICK k, b : k = Call(t).arg /\ b = Call(t).to
  OBVIOUS
<1>6. /\ k \in Tasks /\ b \notin hold[k] /\ hold[k] # {}
      /\ refs' = [refs EXCEPT ![k] = @ + 1] /\ hold' = [hold EXCEPT ![k] = @ \cup {b}]
  BY <1>1, <1>4, <1>5
<1>7. /\ \A j \in Tasks : j # k => refs'[j] = refs[j] /\ hold'[j] = hold[j]
      /\ refs'[k] = refs[k] + 1 /\ hold'[k] = hold[k] \cup {b}
  BY <1>6 DEF Types
<1>8. /\ ShapeInv' /\ Once' /\ Apart' /\ ReadyInv' /\ SettleInv' /\ ListInv' /\ StageInv' /\ CountInv'
      /\ \A j \in Tasks : Waiters(j)' = Waiters(j) /\ (ResultRef(j)' <=> ResultRef(j))
  BY <1>6, <1>7, <1>1, <1>3, <1>4, HolderKeep
<1>9. HandleInv'
  BY <1>6, <1>7, <1>3, HandleMove
<1>10. RefInv'
  BY <1>6, <1>7, <1>8, HolderMore, RefOne
<1>. QED BY <1>2, <1>8, <1>9, <1>10

LEMMA DropRefs ==
  ASSUME TaskStateAssumption, RefsInv, NEW t \in Threads, Drop(t)
  PROVE  RefsInv'
<1>. USE DEF RefsInv, NodeInv
<1>1. /\ stack[t] # <<>> /\ Top(t).pc = "user" /\ HasCall(t) /\ Call(t).op = "drop"
      /\ Body(t) \in hold[Call(t).arg]
      /\ refs' = [refs EXCEPT ![Call(t).arg] = @ - 1]
      /\ hold' = [hold EXCEPT ![Call(t).arg] = @ \ {Body(t)}]
      /\ UNCHANGED <<cont, nodes, next, remaining, queued>> /\ Calls(t, "drop")
  BY DEF Drop, Calls, At, Release, nodeVars, ctlVars
<1>2. Types' /\ \E g : Steps(t, g, "user", None, None, None, None)
  BY DropStep
<1>3. PICK g : Steps(t, g, "user", None, None, None, None)
  BY <1>2
<1>4. Top(t).making = None /\ Call(t).arg \in Tasks
  BY <1>1, CallTop
<1>5. PICK k, b : k = Call(t).arg /\ b = Body(t)
  OBVIOUS
<1>6. /\ k \in Tasks /\ b \in hold[k]
      /\ refs' = [refs EXCEPT ![k] = @ - 1] /\ hold' = [hold EXCEPT ![k] = @ \ {b}]
  BY <1>1, <1>4, <1>5
<1>7. /\ \A j \in Tasks : j # k => refs'[j] = refs[j] /\ hold'[j] = hold[j]
      /\ refs'[k] = refs[k] - 1 /\ hold'[k] = hold[k] \ {b}
  BY <1>6 DEF Types
<1>8. /\ ShapeInv' /\ Once' /\ Apart' /\ ReadyInv' /\ SettleInv' /\ ListInv' /\ StageInv' /\ CountInv'
      /\ \A j \in Tasks : Waiters(j)' = Waiters(j) /\ (ResultRef(j)' <=> ResultRef(j))
  BY <1>6, <1>7, <1>1, <1>3, <1>4, HolderKeep
<1>9. HandleInv'
  BY <1>3, HandleDrop
<1>10. RefInv'
  BY <1>6, <1>7, <1>8, HolderLess, RefOne
<1>. QED BY <1>2, <1>8, <1>9, <1>10

-----------------------------------------------------------------------------
(* A continuation releases its predecessor.                                *)

LEMMA PassRefs ==
  ASSUME TaskStateAssumption, RefsInv, NEW t \in Threads, stack[t] # <<>>, Top(t).pc = "release_pred",
         Top(t).making = None, NEW n \in Nodes, n = Top(t).node, Kind[n[1]] # "produce",
         NEW p \in Tasks, p = PredOf(n),
         NEW g, NEW l, NEW c, NEW e, Steps(t, g, l, None, c, None, e),
         Types', Once', Unchanged({"pass", "arrived", "settle"}), Change("pass", {n}, {}), ~Marked("pass", n),
         \/ Kind[n[1]] = "then" /\ l = "release_result" /\ Change("arrived", {n}, {}) /\ Change("settle", {n[1]}, {})
         \/ Kind[n[1]] = "all" /\ l \in {"claim", "arrive"} /\ Change("arrived", {}, {}) /\ Change("settle", {}, {}),
         refs' = [refs EXCEPT ![p] = @ - 1], UNCHANGED <<cont, nodes, next, remaining, hold, queued>>
  PROVE  RefsInv'
<1>. USE DEF RefsInv, NodeInv
<1>1. n # None /\ n[1] \in Tasks /\ nodes \in SUBSET Nodes /\ nodes' \in SUBSET Nodes
  BY Names, NodeTyped DEF Types
<1>2. /\ Change("run", {}, {}) /\ Change("give", {}, {}) /\ Change("make", {}, {})
      /\ Change("link", {}, {}) /\ Change("come", {}, {})
  BY MarksAre DEF Unchanged
<1>3. /\ \A m \in Nodes : /\ Marked("run", m)' <=> Marked("run", m)
                          /\ Marked("pass", m)' <=> Marked("pass", m) \/ m = n
                          /\ Marked("come", m)' <=> Marked("come", m)
                          /\ Kind[m[1]] = "all" => (Marked("arrived", m)' <=> Marked("arrived", m))
      /\ \A j \in Tasks : Kind[j] = "all" => (Marked("settle", j)' <=> Marked("settle", j))
  BY <1>2 DEF Change
<1>4. ShapeInv' /\ g.node = n /\ g.making = None /\ g.pc = l
  BY DEF Steps, Is
<1>5. Apart' /\ \A m \in Nodes : IsWaiting(m)' <=> IsWaiting(m)
  BY <1>2, ApartSame
<1>6. ReadyInv'
  BY <1>2, ReadySame
<1>7. SettleInv'
  <2>1. Kind[n[1]] # "all" => cont[n[1]] = Finished
    BY <1>1, SettleSays DEF Left, Own
  <2>2. Kind[n[1]] # "all" => Left(g) /\ Left(Top(t))
    BY <1>4 DEF Left, Own
  <2>3. l \notin SettlePcs \cup LeavePcs
    BY DEF SettlePcs, LeavePcs
  <2>4. l \in LeavePcs \cup {"release_result"} => SubjectOf(g) \in Tasks /\ cont[SubjectOf(g)] = Finished
    BY <1>1, <1>4, <2>1, <2>3 DEF SubjectOf
  <2>5. Kind[Runner(Top(t))] # "all" => (Left(g) <=> Left(Top(t)))
    BY <2>2 DEF Runner
  <2>6. \A m \in nodes' : ~Marked("run", m)' => m \in nodes /\ ~Marked("run", m)
    BY <1>1, <1>3
  <2>. QED BY <1>1, <2>3, <2>4, <2>5, <2>6, SettleMove
<1>8. HandleInv'
  <2>1. l \notin UserPcs \ {"user"}
    BY DEF UserPcs
  <2>. QED BY <2>1, HandleMove
<1>9. ListInv'
  BY <1>1, <1>5, ListMove DEF LeavePcs
<1>10. ASSUME NEW j \in Tasks PROVE ResultRef(j)' <=> ResultRef(j)
  BY <1>3, ResultSame
<1>11. n \in nodes
  <2>1. Marked("run", n)
    BY <1>1, TopMarked, HasRules
  <2>. QED BY <2>1 DEF Apart
<1>12. ASSUME NEW j \in Tasks PROVE Waiters(j)' = IF j = p THEN Waiters(j) \ {n} ELSE Waiters(j)
  BY <1>1, <1>3 DEF PredOf, Waiters
<1>13. RefInv'
  <2>1. \A j \in Tasks : j # p => /\ refs'[j] = refs[j] /\ hold'[j] = hold[j] /\ Waiters(j)' = Waiters(j)
                                  /\ ResultRef(j)' <=> ResultRef(j)
    BY <1>10, <1>12 DEF Types
  <2>2. n \in Waiters(p) /\ Waiters(p)' = Waiters(p) \ {n}
    BY <1>11, <1>12 DEF Waiters
  <2>3. refs'[p] = refs[p] - 1 /\ hold'[p] = hold[p] /\ (ResultRef(p)' <=> ResultRef(p))
    BY <1>10 DEF Types
  <2>4. refs'[p] = Cardinality(hold'[p]) + Cardinality(Waiters(p)') + (IF ResultRef(p)' THEN 1 ELSE 0)
    BY <2>2, <2>3, WaiterLess
  <2>. QED BY <2>1, <2>4, RefOne
<1>14. StageInv'
  BY <1>2, <1>10, StageSame
<1>15. CountInv'
  BY <1>3, CountSame DEF Pends
<1>. QED BY <1>4, <1>5, <1>6, <1>7, <1>8, <1>9, <1>13, <1>14, <1>15

LEMMA ReleasePredRefs ==
  ASSUME TaskStateAssumption, RefsInv, NEW t \in Threads, ReleasePred(t)
  PROVE  RefsInv'
<1>. USE DEF RefsInv, NodeInv
<1>1. /\ Types' /\ stack[t] # <<>> /\ Top(t).pc = "release_pred"
      /\ Top(t).making = None /\ Top(t).node \in Nodes /\ Top(t).node # None /\ PredOf(Top(t).node) \in Tasks
      /\ refs' = [refs EXCEPT ![PredOf(Top(t).node)] = @ - 1]
      /\ \/ Kind[Top(t).node[1]] = "then" /\ \E g : Steps(t, g, "release_result", None, Top(t).cur, None, Top(t).exc)
         \/ Kind[Top(t).node[1]] = "all" /\ \E g : Steps(t, g, "claim", None, Top(t).cur, None, Top(t).exc)
         \/ Kind[Top(t).node[1]] = "all" /\ \E g : Steps(t, g, "arrive", None, Top(t).cur, None, Top(t).exc)
  BY ReleasePredStep
<1>2. UNCHANGED <<cont, nodes, next, remaining, hold, queued>>
  BY DEF ReleasePred, nodeVars, ctlVars
<1>3. CASE Kind[Top(t).node[1]] = "then"
  <2>1. PICK g : Steps(t, g, "release_result", None, Top(t).cur, None, Top(t).exc)
    BY <1>1, <1>3
  <2>2. /\ Once' /\ Unchanged({"pass", "arrived", "settle"})
        /\ Change("pass", {Top(t).node}, {}) /\ Change("arrived", {Top(t).node}, {})
        /\ Change("settle", {Top(t).node[1]}, {}) /\ ~Marked("pass", Top(t).node)
    BY <1>1, <1>3, <2>1, PassThenMarks
  <2>. QED BY <1>1, <1>2, <1>3, <2>1, <2>2, PassRefs
<1>4. CASE Kind[Top(t).node[1]] = "all"
  <2>1. PICK g, l : l \in {"claim", "arrive"} /\ Steps(t, g, l, None, Top(t).cur, None, Top(t).exc)
    BY <1>1, <1>4
  <2>2. /\ Once' /\ Unchanged({"pass"}) /\ Change("pass", {Top(t).node}, {}) /\ ~Marked("pass", Top(t).node)
    BY <1>1, <1>4, <2>1, PassAllMarks
  <2>3. /\ Unchanged({"pass", "arrived", "settle"}) /\ Change("arrived", {}, {}) /\ Change("settle", {}, {})
    BY <2>2, MarksAre DEF Unchanged
  <2>. QED BY <1>1, <1>2, <1>4, <2>1, <2>2, <2>3, PassRefs
<1>. QED BY <1>1, <1>3, <1>4

-----------------------------------------------------------------------------
(* A node is freed.                                                        *)

\* A reference less for the result.
LEMMA ResultLess ==
  ASSUME Types, RefInv, NEW p \in Tasks, hold'[p] = hold[p], Waiters(p)' = Waiters(p),
         refs'[p] = refs[p] - 1, ResultRef(p), ~ResultRef(p)'
  PROVE  refs'[p] = Cardinality(hold'[p]) + Cardinality(Waiters(p)') + (IF ResultRef(p)' THEN 1 ELSE 0)
BY RefsCount DEF RefInv

LEMMA FreedKeep ==
  ASSUME TaskStateAssumption, RefsInv, NEW t \in Threads, stack[t] # <<>>,
         Top(t).pc \in {"release_result", "arrive"}, Top(t).making = None, NEW n \in Nodes, n = Top(t).node,
         Types', ShapeInv', Pops(t), nodes' = nodes \ {n}, UNCHANGED <<cont, next, hold, queued>>
  PROVE  /\ HandleInv' /\ NodeInv' /\ ListInv'
         /\ \A j \in Tasks : Waiters(j)' = Waiters(j)
         /\ n \in nodes /\ ~Marked("come", n)
         /\ \A m \in Nodes : /\ Marked("come", m)' <=> Marked("come", m)
                             /\ Marked("arrived", m)' <=> Marked("arrived", m) /\ m # n
         /\ \A j \in Tasks : /\ Marked("make", j)' <=> Marked("make", j)
                             /\ Marked("settle", j)' => Marked("settle", j)
                             /\ j # n[1] \/ Top(t).pc = "arrive" => (Marked("settle", j)' <=> Marked("settle", j))
         /\ Top(t).pc = "release_result" => /\ Marked("settle", n[1]) /\ ~Marked("settle", n[1])'
                                            /\ Marked("arrived", n)
         /\ Top(t).pc = "arrive" => ~Marked("arrived", n)
<1>. USE DEF RefsInv, NodeInv
<1>1. n # None /\ n[1] \in Tasks /\ nodes \in SUBSET Nodes /\ nodes' \in SUBSET Nodes
  BY Names, NodeTyped DEF Types
<1>2. /\ Once' /\ Unchanged({"run", "pass", "arrived", "settle"})
      /\ Change("run", {}, {n}) /\ Change("pass", {}, {n}) /\ Change("arrived", {}, {n})
      /\ Change("settle", {}, IF Top(t).pc = "release_result" THEN {n[1]} ELSE {})
      /\ Marked("run", n)
      /\ Top(t).pc = "release_result" => Marked("settle", n[1]) /\ Marked("arrived", n)
      /\ Top(t).pc = "arrive" => ~Marked("arrived", n)
      /\ Kind[n[1]] # "produce" => Marked("pass", n)
  BY FreedMarks
<1>3. /\ Change("give", {}, {}) /\ Change("make", {}, {}) /\ Change("link", {}, {}) /\ Change("come", {}, {})
  BY <1>2, MarksAre DEF Unchanged
<1>4. /\ \A m \in Nodes : /\ Marked("run", m)' <=> Marked("run", m) /\ m # n
                          /\ Marked("pass", m)' <=> Marked("pass", m) /\ m # n
                          /\ Marked("arrived", m)' <=> Marked("arrived", m) /\ m # n
                          /\ Marked("come", m)' <=> Marked("come", m)
                          /\ Marked("link", m)' <=> Marked("link", m)
                          /\ Marked("give", m)' <=> Marked("give", m)
      /\ \A j \in Tasks : Marked("make", j)' <=> Marked("make", j)
  BY <1>2, <1>3 DEF Change
<1>5. ASSUME NEW j \in Tasks
      PROVE  /\ Marked("settle", j)' => Marked("settle", j)
             /\ j # n[1] \/ Top(t).pc = "arrive" => (Marked("settle", j)' <=> Marked("settle", j))
             /\ Top(t).pc = "release_result" /\ j = n[1] => ~Marked("settle", j)'
  BY <1>2 DEF Change
<1>6. n \in nodes /\ n \notin queued /\ ~Marked("link", n) /\ ~Marked("come", n)
  BY <1>2 DEF Apart
<1>7. Apart'
  BY <1>4, <1>6 DEF Apart
<1>8. \A m \in Nodes : IsWaiting(m)' <=> IsWaiting(m)
  BY <1>2, <1>4 DEF IsWaiting
<1>9. ReadyInv'
  BY <1>4, ReadyMove DEF IsReady
<1>10. SettleInv'
  BY <1>1, <1>4, SettlePop
<1>11. HandleInv'
  BY HandlePop
<1>12. ListInv'
  BY <1>1, <1>8, ListPop
<1>13. ASSUME NEW j \in Tasks PROVE Waiters(j)' = Waiters(j)
  BY <1>1, <1>4, <1>2 DEF PredOf, Waiters
<1>. QED BY <1>1, <1>2, <1>4, <1>5, <1>6, <1>7, <1>9, <1>10, <1>11, <1>12, <1>13

LEMMA ReleaseResultRefs ==
  ASSUME TaskStateAssumption, RefsInv, NEW t \in Threads, ReleaseResult(t)
  PROVE  RefsInv'
<1>. USE DEF RefsInv, NodeInv
<1>1. /\ Types' /\ refs' = [refs EXCEPT ![Subject(t)] = @ - 1]
      /\ \/ /\ Top(t).making = None /\ nodes' = nodes \ {Top(t).node} /\ Pops(t) /\ ShapeInv'
         \/ /\ Top(t).making # None /\ nodes' = nodes /\ \E g : Steps(t, g, "user", None, None, None, None)
  BY ReleaseResultStep
<1>2. /\ UNCHANGED <<cont, next, remaining, hold, queued>>
      /\ stack[t] # <<>> /\ Top(t).pc = "release_result"
  BY DEF ReleaseResult, ctlVars, At
<1>3. /\ Subject(t) = SubjectOf(Top(t)) /\ Subject(t) \in Tasks
      /\ Top(t).making = None => Top(t).node \in Nodes /\ Top(t).node # None /\ Subject(t) = Top(t).node[1]
      /\ Top(t).making # None => Subject(t) = Top(t).making /\ Kind[Top(t).making] = "all"
                                 /\ Pred[Top(t).making] # <<>>
  BY <1>2, SettleTop DEF SettlerPcs
<1>4. cont[Subject(t)] = Finished
  BY <1>2, <1>3, SettleSays
<1>5. PICK k : k = Subject(t)
  OBVIOUS
<1>6. k \in Tasks /\ cont[k] = Finished /\ refs' = [refs EXCEPT ![k] = @ - 1]
  BY <1>1, <1>3, <1>4, <1>5
<1>7. /\ \A j \in Tasks : j # k => refs'[j] = refs[j]
      /\ refs'[k] = refs[k] - 1 /\ hold'[k] = hold[k]
  BY <1>2, <1>6 DEF Types
<1>8. ASSUME Marked("settle", k), ~Marked("settle", k)', Kind[k] = "all", Pred[k] # <<>>
      PROVE  ResultRef(k) /\ ~ResultRef(k)'
  <2>1. remaining[k] = 0
    BY <1>6, <1>8 DEF CountInv
  <2>. QED BY <1>2, <1>8, <2>1 DEF ResultRef
<1>9. ASSUME \A j \in Tasks : Waiters(j)' = Waiters(j), \A j \in Tasks : j # k => (ResultRef(j)' <=> ResultRef(j)),
             ResultRef(k), ~ResultRef(k)'
      PROVE  RefInv'
  <2>1. refs'[k] = Cardinality(hold'[k]) + Cardinality(Waiters(k)') + (IF ResultRef(k)' THEN 1 ELSE 0)
    <3>1. k \in Tasks
      BY <1>6
    <3>. QED BY <1>7, <1>9, <3>1, ResultLess
  <2>2. k \in Tasks /\ hold' = hold
    BY <1>2, <1>6
  <2>. QED BY <1>7, <1>9, <2>1, <2>2, RefOne
<1>10. CASE Top(t).making = None
  <2>1. PICK n : n = Top(t).node
    OBVIOUS
  <2>2. n \in Nodes /\ nodes' = nodes \ {n} /\ Pops(t) /\ ShapeInv'
    BY <1>1, <1>3, <1>10, <2>1
  <2>3. n[1] = k
    BY <1>3, <1>5, <1>10, <2>1
  <2>4. /\ HandleInv' /\ NodeInv' /\ ListInv'
        /\ \A j \in Tasks : Waiters(j)' = Waiters(j)
        /\ n \in nodes /\ ~Marked("come", n)
        /\ \A m \in Nodes : /\ Marked("come", m)' <=> Marked("come", m)
                            /\ Marked("arrived", m)' <=> Marked("arrived", m) /\ m # n
        /\ \A j \in Tasks : /\ Marked("make", j)' <=> Marked("make", j)
                            /\ Marked("settle", j)' => Marked("settle", j)
                            /\ j # n[1] => (Marked("settle", j)' <=> Marked("settle", j))
        /\ Marked("settle", n[1]) /\ ~Marked("settle", n[1])' /\ Marked("arrived", n)
    BY <1>1, <1>2, <1>10, <2>1, <2>2, FreedKeep
  <2>5. n = <<n[1], n[2]>> /\ n[2] \in Places(n[1]) /\ (Kind[n[1]] # "all" => n[2] = 1)
    BY <2>2, NodeTyped
  <2>6. ASSUME NEW j \in Tasks, j # n[1] PROVE ResultRef(j)' <=> ResultRef(j)
    BY <2>2, <2>5, <2>6, <1>2, <2>4 DEF ResultRef
  <2>7. ResultRef(n[1]) /\ ~ResultRef(n[1])'
    <3>1. CASE Kind[n[1]] # "all"
      BY <2>2, <2>4, <2>5, <3>1 DEF ResultRef
    <3>2. CASE Kind[n[1]] = "all"
      BY <2>5, <3>2, <1>8, <2>3, <2>4 DEF Places
    <3>. QED BY <3>1, <3>2
  <2>8. RefInv'
    BY <1>9, <2>3, <2>4, <2>6, <2>7
  <2>9. StageInv'
    BY <2>2, <1>2, <2>4, UnmadeSame, <1>6, <2>3, <2>6, StageMove
  <2>10. CountInv'
    BY <2>2, <2>4, <1>2, CountSame DEF Pends
  <2>. QED BY <1>1, <2>2, <2>4, <2>8, <2>9, <2>10
<1>11. CASE Top(t).making # None
  <2>1. PICK g : Steps(t, g, "user", None, None, None, None)
    BY <1>1, <1>11
  <2>2. nodes' = nodes
    BY <1>1, <1>11
  <2>3. Change("settle", {}, {Top(t).making}) /\ Marked("settle", Top(t).making)
    BY <1>2, <1>3, <1>11, <2>1, ReturnedMarks, TopMarked, HasRules DEF SettlerPcs, SubjectOf
  <2>4. k = Top(t).making /\ Kind[k] = "all" /\ Pred[k] # <<>>
    BY <1>3, <1>5, <1>11
  <2>5. Marked("settle", k) /\ ~Marked("settle", k)'
    BY <1>6, <2>3, <2>4 DEF Change
  <2>6. \A j \in Tasks : j # k => (Marked("settle", j)' <=> Marked("settle", j))
    BY <2>3, <2>4 DEF Change
  <2>7. \A j \in Tasks : j # k => (ResultRef(j)' <=> ResultRef(j))
    BY <1>2, <2>2, <2>6, ResultSame
  <2>8. ResultRef(k) /\ ~ResultRef(k)'
    BY <1>8, <2>4, <2>5
  <2>9. \A j \in Tasks : j = Top(t).making \/ (ResultRef(j)' <=> ResultRef(j))
    BY <2>4, <2>7
  <2>10. /\ Types' /\ ShapeInv' /\ HandleInv' /\ NodeInv' /\ ListInv' /\ StageInv' /\ CountInv'
         /\ \A j \in Tasks : Waiters(j)' = Waiters(j)
    BY <1>1, <1>2, <1>11, <2>1, <2>2, <2>9, ReturnedKeep
  <2>11. RefInv'
    BY <1>9, <2>7, <2>8, <2>10
  <2>. QED BY <2>10, <2>11
<1>. QED BY <1>10, <1>11

-----------------------------------------------------------------------------
(* The arrivals at a when_all.                                             *)

\* While a node is pending the when_all has not settled.
LEMMA PendingSays ==
  ASSUME TaskStateAssumption, RefsInv, NEW n \in Nodes, Kind[n[1]] = "all", Pends(n)
  PROVE  /\ remaining[n[1]] \in Nat \ {0} /\ ~Marked("settle", n[1]) /\ cont[n[1]] # Finished
         /\ remaining[n[1]] = 1 => \A m \in Nodes : m[1] = n[1] /\ Pends(m) => m = n
<1>. USE DEF RefsInv
<1>1. n[1] \in Tasks /\ n[2] \in Places(n[1]) /\ n = <<n[1], n[2]>>
  BY NodeTyped
<1>2. n[2] \in PendingOf(n[1])
  BY <1>1 DEF PendingOf
<1>3. IsFiniteSet(PendingOf(n[1])) /\ Cardinality(PendingOf(n[1])) \in Nat /\ Cardinality(PendingOf(n[1])) # 0
  BY <1>1, <1>2, PendingFinite
<1>4. /\ remaining[n[1]] = Cardinality(PendingOf(n[1]))
      /\ remaining[n[1]] # 0 => ~Marked("settle", n[1]) /\ cont[n[1]] # Finished
  BY <1>1 DEF CountInv
<1>5. ASSUME remaining[n[1]] = 1, NEW m \in Nodes, m[1] = n[1], Pends(m) PROVE m = n
  <2>1. m = <<m[1], m[2]>> /\ m[2] \in Places(m[1])
    BY NodeTyped
  <2>2. m[2] \in PendingOf(n[1])
    BY <1>5, <2>1 DEF PendingOf
  <2>3. PICK i : PendingOf(n[1]) = {i}
    BY <1>3, <1>4, <1>5, FS_Singleton
  <2>4. m[2] = n[2]
    BY <1>2, <2>2, <2>3
  <2>. QED BY <1>1, <1>5, <2>1, <2>4
<1>. QED BY <1>3, <1>4, <1>5

\* One of them arrives.
LEMMA CountLess ==
  ASSUME TaskStateAssumption, RefsInv, NEW k \in Tasks, NEW n \in Nodes, n[1] = k, Kind[k] = "all",
         Pends(n), ~Pends(n)', \A m \in Nodes : m # n => (Pends(m)' <=> Pends(m)),
         cont' = cont, \A j \in Tasks : j # k => (Marked("settle", j)' => Marked("settle", j)),
         remaining[k] # 1 => ~Marked("settle", k)', remaining' = [remaining EXCEPT ![k] = @ - 1]
  PROVE  CountInv'
<1>. USE DEF RefsInv
<1>1. n[2] \in Places(n[1]) /\ n = <<n[1], n[2]>>
  BY NodeTyped
<1>2. remaining[k] \in Nat \ {0} /\ cont[k] # Finished
  BY PendingSays
<1>3. remaining'[k] = remaining[k] - 1 /\ \A j \in Tasks : j # k => remaining'[j] = remaining[j]
  BY DEF Types
<1>4. ASSUME NEW j \in Tasks, j # k PROVE PendingOf(j)' = PendingOf(j)
  BY <1>4, PendingSame
<1>5. PendingOf(k)' = PendingOf(k) \ {n[2]} /\ n[2] \in PendingOf(k)
  <2>1. \A i \in Places(k) : Pends(<<k, i>>)' <=> Pends(<<k, i>>) /\ i # n[2]
    <3>1. ASSUME NEW i \in Places(k) PROVE Pends(<<k, i>>)' <=> Pends(<<k, i>>) /\ i # n[2]
      BY NodeOf, <1>1
    <3>. QED BY <3>1
  <2>2. PendingOf(k)' = {i \in Places(k) : Pends(<<k, i>>)'}
    BY DEF PendingOf, Places
  <2>3. PendingOf(k) = {i \in Places(k) : Pends(<<k, i>>)}
    BY DEF PendingOf
  <2>4. n[2] \in PendingOf(k)
    BY <1>1, <2>3
  <2>. QED BY <2>1, <2>2, <2>3, <2>4
<1>6. IsFiniteSet(PendingOf(k))
  BY PendingFinite
<1>7. Cardinality(PendingOf(k)') = Cardinality(PendingOf(k)) - 1
  <2>1. n[2] \in PendingOf(k)
    BY <1>5
  <2>2. Cardinality(PendingOf(k) \ {n[2]}) = Cardinality(PendingOf(k)) - 1
    <3>1. PICK i : i = n[2]
      OBVIOUS
    <3>2. i \in PendingOf(k)
      BY <2>1, <3>1
    <3>3. Cardinality(PendingOf(k) \ {i}) = Cardinality(PendingOf(k)) - 1
      BY <1>6, <3>2, FS_RemoveElement
    <3>. QED BY <3>1, <3>3
  <2>. QED BY <1>5, <2>2
<1>8. ASSUME NEW j \in Tasks, Kind[j] = "all"
      PROVE  /\ remaining'[j] = Cardinality(PendingOf(j)')
             /\ remaining'[j] # 0 => ~Marked("settle", j)' /\ cont'[j] # Finished
  BY <1>8, <1>2, <1>3, <1>7, <1>4 DEF CountInv
<1>. QED BY <1>8 DEF CountInv

\* An arrival after which the frame goes on.
LEMMA ArriveMoves ==
  ASSUME TaskStateAssumption, RefsInv, NEW t \in Threads, stack[t] # <<>>, Top(t).pc = "arrive",
         NEW k \in Tasks, k = SubjectOf(Top(t)), Kind[k] = "all", remaining[k] # 0, cont[k] # Finished,
         NEW g, NEW l \in {"store", "claim", "user"}, NEW m, NEW c, NEW e, Steps(t, g, l, m, c, None, e),
         m = Top(t).making \/ (l = "user" /\ m = None), l = "user" => Top(t).making # None,
         Types', Once', Unchanged({"make", "arrived", "settle", "come"}),
         \A n \in Nodes : Marked("come", n)' => Marked("come", n),
         \A j \in Tasks : Marked("make", j)' => Marked("make", j),
         \A j \in Tasks : Marked("make", j) => Marked("make", j)' \/ ResultRef(j)',
         \A j \in Tasks : ResultRef(j)' <=> ResultRef(j),
         \A j \in Tasks : j # k => remaining'[j] = remaining[j],
         UNCHANGED <<refs, cont, nodes, next, hold, queued>>,
         CountInv'
  PROVE  RefsInv'
<1>. USE DEF RefsInv, NodeInv
<1>1. ShapeInv' /\ g.node = Top(t).node /\ g.making = m /\ g.pc = l
  BY DEF Steps, Is
<1>2. /\ Change("run", {}, {}) /\ Change("link", {}, {}) /\ Change("give", {}, {}) /\ Change("pass", {}, {})
  BY MarksAre DEF Unchanged
<1>3. nodes \in SUBSET Nodes /\ nodes' \in SUBSET Nodes
  BY DEF Types
<1>4. \A n \in Nodes : /\ Marked("run", n)' <=> Marked("run", n)
                       /\ Marked("link", n)' <=> Marked("link", n)
                       /\ Marked("give", n)' <=> Marked("give", n)
  BY <1>2 DEF Change
<1>5. Apart'
  BY <1>4 DEF Apart
<1>6. \A n \in Nodes : IsWaiting(n)' <=> IsWaiting(n)
  BY <1>4 DEF IsWaiting
<1>7. ReadyInv'
  BY <1>2, ReadySame
<1>8. SettleInv'
  <2>1. Kind[Runner(Top(t))] # "all" => Top(t).making # None
    BY DEF SubjectOf, Runner
  <2>2. Top(t).making # None => ~Left(g) /\ ~Left(Top(t))
    BY <1>1 DEF Left, Own, LeavePcs
  <2>3. l = "store" => SubjectOf(g) = k
    BY <1>1 DEF SubjectOf
  <2>4. l \notin LeavePcs \cup {"release_result"} /\ (l \in SettlePcs => l = "store")
    BY DEF LeavePcs, SettlePcs
  <2>5. \A n \in nodes' : ~Marked("run", n)' => n \in nodes /\ ~Marked("run", n)
    BY <1>3, <1>4
  <2>6. l \in SettlePcs => SubjectOf(g) \in Tasks /\ cont[SubjectOf(g)] # Finished
    BY <2>3, <2>4
  <2>7. Kind[Runner(Top(t))] # "all" => (Left(g) <=> Left(Top(t)))
    BY <2>1, <2>2
  <2>. QED BY <1>3, <2>4, <2>5, <2>6, <2>7, SettleMove
<1>9. HandleInv'
  BY HandleMove DEF UserPcs
<1>10. ListInv'
  BY <1>3, <1>6, ListMove DEF LeavePcs
<1>11. \A j \in Tasks : Waiters(j)' = Waiters(j)
  BY <1>2, <1>3, WaitersSame
<1>12. RefInv'
  BY <1>11, RefSame
<1>13. StageInv'
  <2>1. ASSUME NEW j \in Tasks, Unmade(j) PROVE Unmade(j)'
    <3>1. j # k
      BY <2>1 DEF Unmade
    <3>. QED BY <2>1, <3>1, UnmadeSame
  <2>. QED BY <2>1, StageMove
<1>. QED BY <1>1, <1>5, <1>7, <1>8, <1>9, <1>10, <1>12, <1>13

\* The node that a frame arrives for: the one that it runs, or that it could not make.
LEMMA Arriving ==
  ASSUME TaskStateAssumption, RefsInv, NEW t \in Threads, stack[t] # <<>>, Top(t).pc = "arrive"
  PROVE  \E n \in Nodes :
           /\ n[1] = SubjectOf(Top(t)) /\ n[1] \in Tasks /\ Kind[n[1]] = "all" /\ Pred[n[1]] # <<>> /\ Pends(n)
           /\ Top(t).making = None => n = Top(t).node /\ n \in nodes
           /\ Top(t).making # None => n = Top(t).cur /\ n[1] = Top(t).making /\ Marked("come", n) /\ n \notin nodes
<1>. USE DEF RefsInv, NodeInv
<1>1. /\ Subject(t) = SubjectOf(Top(t)) /\ Subject(t) \in Tasks /\ Kind[Subject(t)] = "all"
      /\ Top(t).making = None => Top(t).node \in Nodes /\ Top(t).node # None /\ Subject(t) = Top(t).node[1]
      /\ Top(t).making # None => Subject(t) = Top(t).making /\ Pred[Top(t).making] # <<>>
  BY SettleTop DEF ArrivePcs
<1>2. CASE Top(t).making = None
  <2>1. PICK n : n = Top(t).node
    OBVIOUS
  <2>2. /\ n \in Nodes /\ n # None /\ n[1] = Subject(t) /\ n[1] = SubjectOf(Top(t)) /\ Kind[n[1]] = "all"
    BY <1>1, <1>2, <2>1
  <2>3. Marked("run", Top(t).node) /\ ~Has(Top(t), "arrived", Top(t).node)
    BY <1>1, <1>2, RunOnly, HasRules DEF Own, SettlerPcs, SettlePcs, LeavePcs
  <2>4. ~Marked("arrived", Top(t).node)
    BY <1>1, <1>2, <2>3, RunOnly
  <2>5. n \in nodes /\ Pends(n)
    BY <2>1, <2>2, <2>3, <2>4 DEF Apart, Pends
  <2>6. Pred[n[1]] # <<>>
    BY <2>2, NodeTyped DEF Places
  <2>. QED BY <1>1, <1>2, <2>1, <2>2, <2>5, <2>6
<1>3. CASE Top(t).making # None
  BY <1>3, AddTop, NodeTyped, Names, HasRules, TopMarked, <1>1 DEF ArrivePcs, ToCome, Pends, Apart
<1>. QED BY <1>2, <1>3

LEMMA ArrivalRefs ==
  ASSUME TaskStateAssumption, RefsInv, NEW t \in Threads, Arrive(t)
  PROVE  RefsInv'
<1>. USE DEF RefsInv, NodeInv
<1>1. stack[t] # <<>> /\ Top(t).pc = "arrive" /\ UNCHANGED <<refs, cont, next, hold, queued>>
  BY DEF Arrive, At, stateVars
<1>2. PICK n \in Nodes :
           /\ n[1] = SubjectOf(Top(t)) /\ n[1] \in Tasks /\ Kind[n[1]] = "all" /\ Pred[n[1]] # <<>> /\ Pends(n)
           /\ Top(t).making = None => n = Top(t).node /\ n \in nodes
           /\ Top(t).making # None => n = Top(t).cur /\ n[1] = Top(t).making /\ Marked("come", n) /\ n \notin nodes
  BY <1>1, Arriving
<1>3. /\ remaining[n[1]] \in Nat \ {0} /\ ~Marked("settle", n[1]) /\ cont[n[1]] # Finished
      /\ remaining[n[1]] = 1 => \A m \in Nodes : m[1] = n[1] /\ Pends(m) => m = n
  BY <1>2, PendingSays
<1>4. /\ Types' /\ remaining' = [remaining EXCEPT ![n[1]] = @ - 1]
      /\ \/ /\ remaining[n[1]] = 1 /\ nodes' = nodes
            /\ \E g, e : Steps(t, g, "store", Top(t).making, Top(t).cur, None, e)
         \/ /\ remaining[n[1]] # 1 /\ More(Top(t)) /\ nodes' = nodes /\ Top(t).making # None
            /\ \E g, c, e : /\ c = <<Top(t).cur[1], Top(t).cur[2] + 1>>
                            /\ Steps(t, g, "claim", Top(t).making, c, None, e)
         \/ /\ remaining[n[1]] # 1 /\ Top(t).making = None /\ nodes' = nodes \ {Top(t).node} /\ Pops(t) /\ ShapeInv'
         \/ /\ remaining[n[1]] # 1 /\ ~More(Top(t)) /\ Top(t).making # None /\ nodes' = nodes
            /\ \E g : Steps(t, g, "user", None, None, None, None)
  <2>1. Subject(t) = n[1]
    BY <1>2 DEF Subject
  <2>. QED BY <2>1, ArriveStep
<1>5. /\ \A j \in Tasks : j # n[1] => remaining'[j] = remaining[j]
      /\ remaining'[n[1]] = remaining[n[1]] - 1
  BY <1>2, <1>4 DEF Types
<1>6. ASSUME ~Pends(n)', \A m \in Nodes : m # n => (Pends(m)' <=> Pends(m)),
             \A j \in Tasks : j # n[1] => (Marked("settle", j)' => Marked("settle", j)),
             remaining[n[1]] # 1 => ~Marked("settle", n[1])'
      PROVE  CountInv'
  BY <1>1, <1>2, <1>4, <1>6, CountLess
\* While it is not the last one, the result stays referred to; so it does when the last one settles it.
<1>7. ASSUME NEW j \in Tasks, Kind[j] # "all" => (<<j, 1>> \in nodes' <=> <<j, 1>> \in nodes),
             j # n[1] => (Marked("settle", j)' <=> Marked("settle", j)),
             remaining[n[1]] = 1 => Marked("settle", n[1])'
      PROVE  ResultRef(j)' <=> ResultRef(j)
  BY <1>2, <1>3, <1>5, <1>7 DEF ResultRef
<1>8. ResultRef(n[1])
  BY <1>2, <1>3 DEF ResultRef
<1>. HIDE DEF RefsInv, NodeInv
<1>9. CASE remaining[n[1]] = 1 /\ Top(t).making = None
  <2>1. PICK g, e : Steps(t, g, "store", Top(t).making, Top(t).cur, None, e)
    BY <1>4, <1>9
  <2>2. /\ Once' /\ Unchanged({"arrived", "settle"})
        /\ Change("arrived", {Top(t).node}, {}) /\ Change("settle", {Top(t).node[1]}, {})
    BY <1>2, <1>3, <1>9, Names, <2>1, <1>1, EndMarks DEF RefsInv, NodeInv
  <2>3. /\ Once' /\ Unchanged({"arrived", "settle"})
        /\ Change("arrived", {n}, {}) /\ Change("settle", {n[1]}, {})
    BY <1>2, <1>9, <2>2
  <2>4. Change("come", {}, {}) /\ Change("make", {}, {}) /\ Unchanged({"make", "arrived", "settle", "come"})
    BY <2>3, MarksAre DEF Unchanged
  <2>5. /\ \A m \in Nodes : /\ Marked("come", m)' <=> Marked("come", m)
                            /\ Marked("arrived", m)' <=> Marked("arrived", m) \/ m = n
        /\ \A j \in Tasks : /\ Marked("make", j)' <=> Marked("make", j)
                            /\ Marked("settle", j)' <=> Marked("settle", j) \/ j = n[1]
    BY <2>3, <2>4 DEF Change
  <2>6. n \in nodes /\ ~Marked("come", n) /\ nodes' = nodes
    BY <1>2, <1>4, <1>9 DEF RefsInv, NodeInv, Apart
  <2>7. ~Pends(n)' /\ \A m \in Nodes : m # n => (Pends(m)' <=> Pends(m))
    BY <2>5, <2>6 DEF Pends
  <2>8. CountInv'
    BY <1>6, <1>9, <2>5, <2>7
  <2>9. \A j \in Tasks : ResultRef(j)' <=> ResultRef(j)
    BY <1>2, <1>7, <2>5, <2>6
  <2>10. Top(t).making = Top(t).making \/ ("store" = "user" /\ Top(t).making = None)
    OBVIOUS
  <2>. QED BY <1>1, <1>2, <1>3, <1>4, <1>5, <2>1, <2>3, <2>4, <2>5, <2>6, <2>8, <2>9, <2>10, ArriveMoves
<1>10. CASE remaining[n[1]] = 1 /\ Top(t).making # None
  <2>1. PICK g, e : Steps(t, g, "store", Top(t).making, Top(t).cur, None, e)
    BY <1>4, <1>10
  <2>2. /\ Once' /\ Unchanged({"settle", "come"})
        /\ Change("settle", {Top(t).making}, {})
        /\ Change("come", {}, {m \in Nodes : m[1] = Top(t).making /\ m[2] >= Top(t).cur[2]})
    BY <1>2, <1>3, <1>10, <1>1, <2>1, MakerSettleMarks DEF RefsInv, NodeInv
  <2>3. Change("arrived", {}, {}) /\ Change("make", {}, {}) /\ Unchanged({"make", "arrived", "settle", "come"})
    BY <2>2, MarksAre DEF Unchanged
  <2>4. /\ \A m \in Nodes : /\ Marked("come", m)' => Marked("come", m)
                            /\ m[1] # Top(t).making => (Marked("come", m)' <=> Marked("come", m))
                            /\ Marked("arrived", m)' <=> Marked("arrived", m)
        /\ \A j \in Tasks : /\ Marked("make", j)' <=> Marked("make", j)
                            /\ Marked("settle", j)' <=> Marked("settle", j) \/ j = Top(t).making
    BY <2>2, <2>3 DEF Change
  <2>5. ~Marked("come", n)'
    BY <1>2, <1>10, NodeTyped, <2>2 DEF Change
  <2>6. n \notin nodes /\ nodes' = nodes /\ n[1] = Top(t).making
    BY <1>2, <1>4, <1>10
  <2>7. ~Pends(n)'
    BY <2>5, <2>6 DEF Pends
  <2>8. ASSUME NEW m \in Nodes, m # n PROVE Pends(m)' <=> Pends(m)
    BY <2>4, <2>6, <1>3, <1>10, <2>8 DEF Pends
  <2>9. \A j \in Tasks : Marked("settle", j)' <=> Marked("settle", j) \/ j = n[1]
    BY <2>4, <2>6
  <2>10. CountInv'
    BY <1>6, <1>10, <2>7, <2>8, <2>9
  <2>11. \A j \in Tasks : ResultRef(j)' <=> ResultRef(j)
    BY <1>2, <1>7, <2>6, <2>9
  <2>12. Top(t).making = Top(t).making \/ ("store" = "user" /\ Top(t).making = None)
    OBVIOUS
  <2>. QED BY <1>1, <1>2, <1>3, <1>4, <1>5, <2>1, <2>2, <2>3, <2>4, <2>6, <2>10, <2>11, <2>12, ArriveMoves
<1>11. CASE remaining[n[1]] # 1 /\ More(Top(t))
  <2>1. PICK g, c, e : /\ c = <<Top(t).cur[1], Top(t).cur[2] + 1>>
                       /\ Steps(t, g, "claim", Top(t).making, c, None, e)
    BY <1>4, <1>11 DEF More
  <2>2. Top(t).making # None /\ nodes' = nodes
    BY <1>4, <1>11 DEF More
  <2>3. Once' /\ Unchanged({"come"}) /\ Change("come", {}, {Top(t).cur})
    BY <1>1, <1>11, <2>1, MakerNextMarks DEF RefsInv, NodeInv
  <2>4. Change("come", {}, {n}) /\ n \notin nodes /\ n[1] = Top(t).making
    BY <1>2, <2>2, <2>3
  <2>5. /\ Change("arrived", {}, {}) /\ Change("make", {}, {}) /\ Change("settle", {}, {})
        /\ Unchanged({"make", "arrived", "settle", "come"})
    BY <2>3, MarksAre DEF Unchanged
  <2>6. /\ \A m \in Nodes : /\ Marked("come", m)' <=> Marked("come", m) /\ m # n
                            /\ Marked("arrived", m)' <=> Marked("arrived", m)
        /\ \A j \in Tasks : /\ Marked("make", j)' <=> Marked("make", j)
                            /\ Marked("settle", j)' <=> Marked("settle", j)
    BY <2>4, <2>5 DEF Change
  <2>7. ~Pends(n)' /\ \A m \in Nodes : m # n => (Pends(m)' <=> Pends(m))
    BY <2>2, <2>4, <2>6 DEF Pends
  <2>8. CountInv'
    BY <1>2, <1>3, <1>6, <2>6, <2>7
  <2>9. \A j \in Tasks : ResultRef(j)' <=> ResultRef(j)
    BY <1>7, <1>11, <2>2, <2>6
  <2>10. Top(t).making = Top(t).making \/ ("claim" = "user" /\ Top(t).making = None)
    OBVIOUS
  <2>11. Steps(t, g, "claim", Top(t).making, c, None, e)
    BY <2>1
  <2>. QED BY <1>1, <1>2, <1>3, <1>4, <1>5, <2>2, <2>3, <2>5, <2>6, <2>8, <2>9, <2>10, <2>11, ArriveMoves
<1>12. CASE remaining[n[1]] # 1 /\ Top(t).making = None
  <2>1. nodes' = nodes \ {n} /\ Pops(t) /\ ShapeInv' /\ n = Top(t).node
    BY <1>2, <1>4, <1>12
  <2>2. /\ HandleInv' /\ NodeInv' /\ ListInv'
        /\ \A j \in Tasks : Waiters(j)' = Waiters(j)
        /\ n \in nodes /\ ~Marked("come", n)
        /\ \A m \in Nodes : /\ Marked("come", m)' <=> Marked("come", m)
                            /\ Marked("arrived", m)' <=> Marked("arrived", m) /\ m # n
        /\ \A j \in Tasks : /\ Marked("make", j)' <=> Marked("make", j)
                            /\ Marked("settle", j)' <=> Marked("settle", j)
    BY <1>1, <1>4, <1>12, <2>1, FreedKeep
  <2>3. ~Pends(n)' /\ \A m \in Nodes : m # n => (Pends(m)' <=> Pends(m))
    BY <2>1, <2>2 DEF Pends
  <2>4. CountInv'
    BY <1>2, <1>3, <1>6, <2>2, <2>3
  <2>5. \A j \in Tasks : ResultRef(j)' <=> ResultRef(j)
    <3>1. ASSUME NEW j \in Tasks, Kind[j] # "all" PROVE <<j, 1>> \in nodes' <=> <<j, 1>> \in nodes
      <4>1. <<j, 1>> # n
        BY <1>2, <3>1
      <4>. QED BY <2>1, <4>1
    <3>. QED BY <1>7, <1>12, <2>2, <3>1
  <2>6. RefInv'
    BY <1>1, <2>2, <2>5, RefSame DEF RefsInv
  <2>7. StageInv'
    BY <2>2, <2>1, <1>1, <1>5, UnmadeSame, <2>5, StageMove DEF Unmade, RefsInv
  <2>. QED BY <1>4, <2>1, <2>2, <2>4, <2>6, <2>7 DEF RefsInv
<1>13. CASE remaining[n[1]] # 1 /\ ~More(Top(t)) /\ Top(t).making # None
  <2>1. PICK g : Steps(t, g, "user", None, None, None, None)
    BY <1>4, <1>13
  <2>2. nodes' = nodes
    BY <1>4, <1>13
  <2>3. /\ Once' /\ Unchanged({"make", "come"})
        /\ Change("make", {}, {Top(t).making}) /\ Change("come", {}, {Top(t).cur})
    BY <1>1, <1>13, <2>1, MakerLeaveMarks DEF RefsInv, NodeInv
  <2>4. Change("come", {}, {n}) /\ n \notin nodes /\ Change("make", {}, {n[1]})
    BY <1>2, <1>13, <2>3
  <2>5. /\ Change("arrived", {}, {}) /\ Change("settle", {}, {})
        /\ Unchanged({"make", "arrived", "settle", "come"})
    BY <2>3, MarksAre DEF Unchanged
  <2>6. /\ \A m \in Nodes : /\ Marked("come", m)' <=> Marked("come", m) /\ m # n
                            /\ Marked("arrived", m)' <=> Marked("arrived", m)
        /\ \A j \in Tasks : /\ Marked("make", j)' <=> Marked("make", j) /\ j # n[1]
                            /\ Marked("settle", j)' <=> Marked("settle", j)
    BY <2>4, <2>5 DEF Change
  <2>7. ~Pends(n)' /\ \A m \in Nodes : m # n => (Pends(m)' <=> Pends(m))
    BY <2>2, <2>4, <2>6 DEF Pends
  <2>8. CountInv'
    BY <1>2, <1>3, <1>6, <2>6, <2>7
  <2>9. \A j \in Tasks : ResultRef(j)' <=> ResultRef(j)
    BY <1>7, <1>13, <2>2, <2>6
  <2>10. ResultRef(n[1])'
    BY <1>2, <1>8, <2>9
  <2>11. \A j \in Tasks : Marked("make", j) => Marked("make", j)' \/ ResultRef(j)'
    BY <2>6, <2>10
  <2>. QED BY <1>1, <1>2, <1>3, <1>4, <1>5, <1>13, <2>1, <2>2, <2>3, <2>5, <2>6, <2>8, <2>9, <2>11, ArriveMoves
<1>. QED BY <1>9, <1>10, <1>11, <1>12, <1>13 DEF More

-----------------------------------------------------------------------------
(* Every step keeps the invariant.                                         *)

LEMMA StepRefs ==
  ASSUME TaskStateAssumption, RefsInv, NEW t \in Threads, Step(t)
  PROVE  RefsInv'
<1>1. SubmitTask(t) => RefsInv'
  BY SubmitTaskRefs
<1>2. Then(t) => RefsInv'
  BY ThenRefs
<1>3. WhenAll(t) => RefsInv'
  BY WhenAllRefs
<1>4. Attach(t) => RefsInv'
  BY AttachRefs
<1>5. AttachFails(t) => RefsInv'
  BY AttachFailsRefs
<1>6. Load(t) => RefsInv'
  BY LoadRefs
<1>7. CompareExchange(t) => RefsInv'
  BY CompareExchangeRefs
<1>8. Give(t) => RefsInv'
  BY GiveRefs
<1>9. Take(t) => RefsInv'
  BY TakeRefs
<1>10. Look(t) => RefsInv'
  BY LookRefs
<1>11. Return(t) => RefsInv'
  BY ReturnRefs
<1>12. StoreException(t) => RefsInv'
  BY StoreExceptionRefs
<1>13. Exchange(t) => RefsInv'
  BY ExchangeRefs
<1>14. Notify(t) => RefsInv'
  BY NotifyRefs
<1>15. Schedule(t) => RefsInv'
  BY ScheduleRefs
<1>16. Submit(t) => RefsInv'
  BY SubmitRefs
<1>17. ReleasePred(t) => RefsInv'
  BY ReleasePredRefs
<1>18. ReleaseResult(t) => RefsInv'
  BY ReleaseResultRefs
<1>19. Claim(t) => RefsInv'
  BY ClaimRefs
<1>20. WriteException(t) => RefsInv'
  BY WriteExceptionRefs
<1>21. Arrive(t) => RefsInv'
  BY ArrivalRefs
<1>22. Wait(t) \/ HelpNobody(t) \/ Block(t) \/ Compare(t) => RefsInv'
  BY WaitRefs
<1>23. Copy(t) => RefsInv'
  BY CopyRefs
<1>24. Drop(t) => RefsInv'
  BY DropRefs
<1>. QED BY <1>1, <1>2, <1>3, <1>4, <1>5, <1>6, <1>7, <1>8, <1>9, <1>10, <1>11, <1>12, <1>13, <1>14,
            <1>15, <1>16, <1>17, <1>18, <1>19, <1>20, <1>21, <1>22, <1>23, <1>24, Zenon DEF Step

LEMMA InitRefs ==
  ASSUME TaskStateAssumption, Init
  PROVE  RefsInv
<1>1. Types /\ ShapeInv
  BY TypesInit
<1>2. /\ refs = [k \in Tasks |-> 0] /\ cont = [k \in Tasks |-> None] /\ nodes = {} /\ queued = {}
      /\ next = [n \in Nodes |-> None] /\ remaining = [k \in Tasks |-> 0] /\ hold = [k \in Tasks |-> {}]
  BY DEF Init
<1>3. None # Finished
  BY Names
<1>4. ASSUME NEW x \in Frames
      PROVE  FrameAt(x).node = None /\ FrameAt(x).pc = "user" /\ FrameAt(x).making = None
  BY <1>1, Position DEF Init, FrameAt, Frame
<1>5. ASSUME NEW x \in Frames, NEW m \in Marks, NEW n PROVE ~Has(FrameAt(x), m, n)
  BY <1>4, HasRules, MarksAre DEF ToCome, AddPcs, SettlerPcs, SettlePcs, LeavePcs
<1>6. \A m \in Marks : \A n : ~Marked(m, n)
  BY <1>5 DEF Marked
<1>7. HandleInv
  BY <1>4 DEF HandleInv, Handles, UserPcs
<1>8. Once
  BY <1>5 DEF Once
<1>9. Apart /\ ReadyInv
  BY <1>2, <1>6, MarksAre DEF Apart, ReadyInv, IsReady
<1>10. SettleInv
  BY <1>2, <1>4 DEF SettleInv, SettleOK, SettlePcs, LeavePcs
<1>11. ListInv
  BY <1>2, <1>4 DEF ListInv, HeadOK, CurOK, LeavePcs
<1>12. ASSUME NEW k \in Tasks PROVE ~ResultRef(k) /\ Waiters(k) = {} /\ hold[k] = {} /\ refs[k] = 0 /\ Unmade(k)
  BY <1>2, <1>6, MarksAre DEF ResultRef, Waiters, Unmade
<1>13. RefInv
  <2>1. Cardinality({}) = 0
    BY FS_EmptySet
  <2>. QED BY <1>12, <2>1 DEF RefInv
<1>14. StageInv
  BY <1>12 DEF StageInv
<1>15. CountInv
  BY FS_EmptySet, <1>2, <1>6, MarksAre DEF Pends, PendingOf, CountInv
<1>. QED BY <1>1, <1>7, <1>8, <1>9, <1>10, <1>11, <1>13, <1>14, <1>15 DEF RefsInv, NodeInv

LEMMA SameRefs ==
  ASSUME RefsInv, UNCHANGED vars
  PROVE  RefsInv'
<1>. USE DEF vars
<1>1. Frames' = Frames /\ \A x : FrameAt(x)' = FrameAt(x)
  BY DEF Frames, FrameAt
<1>2. \A m, n : Marked(m, n)' <=> Marked(m, n)
  BY <1>1 DEF Marked
<1>3. Types' /\ ShapeInv' /\ HandleInv'
  BY <1>1 DEF RefsInv, Types, ShapeInv, Stacked, HandleInv, Handles
<1>4. Once' /\ Apart' /\ ReadyInv'
  BY <1>1, <1>2 DEF RefsInv, NodeInv, Once, Apart, ReadyInv, IsReady
<1>5. SettleInv'
  BY <1>1, <1>2 DEF RefsInv, NodeInv, SettleInv, SettleOK
<1>6. \A n : IsWaiting(n)' <=> IsWaiting(n)
  BY <1>2 DEF IsWaiting
<1>7. \A n, k : Continues(n, k)' <=> Continues(n, k)
  BY <1>6 DEF Continues, PredOf
<1>8. \A n : Casing(n)' <=> Casing(n)
  BY <1>1 DEF Casing
<1>9. ListInv'
  BY <1>7, <1>1, <1>6, <1>8 DEF RefsInv, ListInv, HeadOK, CurOK, NextOK
<1>10. \A k : Waiters(k)' = Waiters(k) /\ (ResultRef(k)' <=> ResultRef(k))
  BY <1>2 DEF Waiters, ResultRef, PredOf
<1>11. RefInv' /\ StageInv'
  BY <1>2, <1>10 DEF RefsInv, RefInv, StageInv, Unmade
<1>12. \A n : Pends(n)' <=> Pends(n)
  BY <1>2 DEF Pends
<1>13. CountInv'
  BY <1>2, <1>12 DEF RefsInv, CountInv, PendingOf, Places
<1>. QED BY <1>3, <1>4, <1>5, <1>9, <1>11, <1>13 DEF RefsInv, NodeInv

\* Only when_all counts.
Counted == \A k \in Tasks : Kind[k] # "all" => remaining[k] = 0

LEMMA StepCounted ==
  ASSUME TaskStateAssumption, Types, ShapeInv, Counted, NEW t \in Threads, Step(t)
  PROVE  Counted'
<1>1. ASSUME NEW k \in Tasks, Kind[k] = "all", NEW v, remaining' = [remaining EXCEPT ![k] = v]
      PROVE  Counted'
  BY <1>1 DEF Counted, Types
<1>2. CASE WhenAll(t)
  <2>1. Call(t).arg \in Tasks /\ Kind[Call(t).arg] = "all"
    BY <1>2, CallTop DEF WhenAll, CallsMake
  <2>2. remaining' = remaining \/ remaining' = [remaining EXCEPT ![Call(t).arg] = Len(Pred[Call(t).arg])]
    BY <1>2 DEF WhenAll
  <2>3. CASE remaining' = remaining
    BY <2>3 DEF Counted
  <2>. QED BY <1>1, <2>1, <2>2, <2>3
<1>3. CASE Arrive(t)
  BY <1>3, SettleTop, <1>1 DEF Arrive, At, ArrivePcs
<1>4. CASE remaining' = remaining
  BY <1>4 DEF Counted
<1>5. \/ WhenAll(t) \/ Arrive(t) \/ remaining' = remaining
  BY DEF Step, SubmitTask, Then, Attach, AttachFails, Load, CompareExchange, Give, Take, Look, Return,
         StoreException, Exchange, Notify, Schedule, Submit, ReleasePred, ReleaseResult, Claim,
         WriteException, Wait, HelpNobody, Block, Compare, Copy, Drop, ctlVars
<1>. QED BY <1>2, <1>3, <1>4, <1>5

LEMMA RefsCorrect == TaskStateAssumption => (Spec => [](RefsInv /\ Counted))
<1>. SUFFICES ASSUME TaskStateAssumption PROVE Spec => [](RefsInv /\ Counted)
  OBVIOUS
<1>1. Init => RefsInv /\ Counted
  BY InitRefs DEF Init, Counted
<1>2. ASSUME RefsInv, Counted, [Next]_vars PROVE RefsInv' /\ Counted'
  <2>1. CASE UNCHANGED vars
    <3>1. Counted'
      BY <1>2, <2>1 DEF Counted, vars
    <3>. QED BY <1>2, <2>1, <3>1, SameRefs
  <2>2. ASSUME NEW t \in Threads, Step(t) PROVE RefsInv' /\ Counted'
    <3>1. Types /\ ShapeInv
      BY <1>2 DEF RefsInv
    <3>. QED BY <1>2, <2>2, <3>1, StepRefs, StepCounted
  <2>. QED BY <1>2, <2>1, <2>2 DEF Next, Stopped
<1>. QED BY <1>1, <1>2, PTL DEF Spec

-----------------------------------------------------------------------------
(* What the invariant means.                                               *)

\* A task is not destroyed while it has a handle, a waiter or someone who settles it.
LEMMA Alive ==
  ASSUME TaskStateAssumption, RefsInv, NEW k \in Tasks
  PROVE  /\ hold[k] # {} => refs[k] > 0
         /\ ResultRef(k) => refs[k] > 0
         /\ \A n \in nodes : ~Marked("pass", n) /\ Kind[n[1]] # "produce" /\ PredOf(n) = k => refs[k] > 0
BY RefsCount DEF RefsInv, Waiters

\* A frame whose node has not released its predecessor.
LEMMA NotPassed ==
  ASSUME TaskStateAssumption, RefsInv, NEW x \in Frames, FrameAt(x).node # None, ~Passed(FrameAt(x))
  PROVE  ~Marked("pass", FrameAt(x).node)
<1>. SUFFICES ASSUME Marked("pass", FrameAt(x).node) PROVE FALSE
  OBVIOUS
<1>1. PICK y \in Frames : Has(FrameAt(y), "pass", FrameAt(x).node)
  BY DEF Marked
<1>2. Passed(FrameAt(y)) /\ FrameAt(y).node = FrameAt(x).node
  BY <1>1, HasRules
<1>3. Has(FrameAt(x), "run", FrameAt(x).node) /\ Has(FrameAt(y), "run", FrameAt(x).node)
  BY <1>2, HasRules
<1>4. FrameAt(x).node \in Nodes
  BY Position, FrameTyped DEF RefsInv
<1>5. x = y
  BY <1>3, <1>4, MarksAre DEF RefsInv, NodeInv, Once
<1>. QED BY <1>2, <1>5

LEMMA NodesUsed ==
  ASSUME TaskStateAssumption, RefsInv, NEW x \in Frames
  PROVE  UsesNodes(FrameAt(x)) \subseteq nodes \cup {None}
<1>. USE DEF RefsInv, NodeInv
<1>. DEFINE f == FrameAt(x)
<1>1. f \in FrameSet /\ Shape(x[1], f)
  BY Position DEF ShapeInv
<1>2. f.node \in nodes \cup {None}
  BY <1>1, FrameTyped, MarkedBy, HasRules DEF Apart
<1>3. ASSUME f.pc \in AddPcs PROVE f.cur \in nodes /\ f.nxt = None
  BY <1>1, <1>3, Names, MarkedBy, HasRules DEF Shape, ShapeOwn, ShapeMaking, AddPcs, Apart
<1>4. ASSUME f.pc \in LeavePcs PROVE f.cur \in nodes \cup {None} /\ f.nxt \in nodes \cup {None}
  BY <1>4 DEF ListInv, CurOK, Continues, IsWaiting
<1>5. f.pc \in {"load", "cas", "give", "schedule", "submit"} => f.cur \in nodes \cup {None} /\ f.nxt \in nodes \cup {None}
  BY <1>3, <1>4 DEF AddPcs, LeavePcs
<1>. QED BY <1>2, <1>5 DEF UsesNodes

LEMMA StatesUsed ==
  ASSUME TaskStateAssumption, RefsInv, NEW x \in Frames, NEW k \in UsesStates(x)
  PROVE  refs[k] > 0
<1>. USE DEF RefsInv, NodeInv
<1>. DEFINE f == FrameAt(x)
<1>1. f \in FrameSet /\ Shape(x[1], f) /\ Stacked(x) /\ Handles(x[1], f) /\ x[1] \in Threads
  BY Position DEF ShapeInv, HandleInv
<1>2. /\ f.node \in Nodes \cup {None} /\ f.making \in Tasks \cup {None}
      /\ f.node # None => f.node \in Nodes /\ f.node[1] \in Tasks /\ f.node \in nodes
  <2>1. f.node \in Nodes \cup {None} /\ f.making \in Tasks \cup {None}
    BY <1>1, FrameTyped
  <2>2. f.node # None => f.node \in nodes
    BY <2>1, MarkedBy, HasRules DEF Apart
  <2>. QED BY <2>1, <2>2, NodeTyped
\* The task of a wait.
<1>3. ASSUME f.pc \in {"wait", "help", "block", "compare", "parked"}, k = CallOf(x[1], f).arg PROVE refs[k] > 0
  <2>1. f.making = None
    BY <1>1, <1>2, <1>3 DEF Shape, ShapeMaking, MakerPcs, AddPcs, ArrivePcs, SettlePcs, LeavePcs, SettlerPcs
  <2>2. InCall(x[1], f, {"wait", "block"})
    BY <1>1, <1>3, <2>1 DEF Shape, ShapeOwn, InCall
  <2>3. BodyOf(x[1], f) \in Bodies
    BY <1>1, <1>2 DEF Shape, BodyOf, Bodies
  <2>4. CallOf(x[1], f) \in Op
    BY <2>3, <1>1, <2>2, FrameTyped DEF TaskStateAssumption, InCall, CallOf
  <2>5. CallOf(x[1], f).arg \in Tasks
    BY <2>4 DEF Op
  <2>6. BodyOf(x[1], f) \in hold[CallOf(x[1], f).arg]
    BY <1>1, <1>3, <2>1 DEF Handles, UserPcs
  <2>. QED BY <1>3, <2>5, <2>6, Alive
\* The task that is made.
<1>4. ASSUME f.making # None, k = SubjectOf(f) PROVE refs[k] > 0
  <2>1. f.making \in Tasks /\ hold[f.making] # {}
    BY <1>1, <1>2, <1>4 DEF Handles
  <2>. QED BY <1>4, <2>1, Alive DEF SubjectOf
\* The task that a function or a continuation settles.
<1>5. ASSUME f.node # None, Kind[f.node[1]] # "all", k = f.node[1] PROVE refs[k] > 0
  <2>1. f.node = <<f.node[1], 1>> /\ f.node \in nodes
    BY <1>2, <1>5, NodeTyped
  <2>2. ResultRef(f.node[1])
    BY <1>5, <2>1 DEF ResultRef
  <2>. QED BY <1>2, <1>5, <2>2, Alive
\* The result of a when_all.
<1>6. ASSUME f.making = None, f.pc \in SettlerPcs, k = SubjectOf(f) PROVE refs[k] > 0
  <2>1. f.node # None /\ SubjectOf(f) = f.node[1] /\ f.node \in Nodes /\ f.node[1] \in Tasks
    <3>1. f.node # None
      BY <1>1, <1>6 DEF Shape, ShapeOwn, SettlerPcs, SettlePcs, LeavePcs, UserPcs
    <3>. QED BY <1>2, <1>6, <3>1 DEF SubjectOf
  <2>2. CASE Kind[f.node[1]] # "all"
    BY <1>5, <1>6, <2>1, <2>2
  <2>3. CASE Kind[f.node[1]] = "all"
    <3>1. Marked("settle", f.node[1])
      BY <1>6, <2>1, Names, MarkedBy, HasRules
    <3>2. Pred[f.node[1]] # <<>>
      BY <2>1, <2>3, NodeTyped DEF Places
    <3>3. ResultRef(f.node[1])
      BY <2>3, <3>1, <3>2 DEF ResultRef
    <3>. QED BY <1>6, <2>1, <3>3, Alive
  <2>. QED BY <2>2, <2>3
\* The task to which a continuation is added.
<1>7. ASSUME f.pc \in {"load", "cas"}, k = PredOf(f.cur) PROVE refs[k] > 0
  <2>1. f.making # None
    BY <1>1, <1>7 DEF Shape, ShapeOwn, AddPcs
  <2>2. f.cur \in Nodes /\ f.cur[1] = f.making /\ Kind[f.making] # "produce"
    BY <1>1, <1>7, <2>1 DEF Shape, ShapeMaking, MakerPcs, AddPcs
  <2>3. Marked("link", f.cur)
    BY <1>7, <2>2, Names, MarkedBy, HasRules DEF AddPcs
  <2>4. f.cur \in nodes /\ ~Marked("pass", f.cur)
    BY <2>2, <2>3, MarkRules DEF Apart
  <2>5. PredOf(f.cur) \in Tasks /\ Kind[f.cur[1]] # "produce"
    BY <2>2, PredTyped
  <2>. QED BY <1>7, <2>4, <2>5, Alive
\* The task whose exception a continuation looks at.
<1>8. ASSUME f.node # None, f.pc = "look", k = PredOf(f.node) PROVE refs[k] > 0
  <2>1. f.making = None
    BY <1>1, <1>2, <1>8 DEF Shape, ShapeMaking, MakerPcs, AddPcs, ArrivePcs, SettlePcs, LeavePcs, SettlerPcs
  <2>2. Kind[f.node[1]] # "produce" /\ ~Passed(f)
    BY <1>1, <1>8, <2>1 DEF Shape, ShapeOwn, Passed, Own, Runner
  <2>3. ~Marked("pass", f.node)
    BY <1>8, <2>2, NotPassed
  <2>4. PredOf(f.node) \in Tasks
    BY <1>2, <1>8, <2>2, PredTyped
  <2>. QED BY <1>2, <1>8, <2>2, <2>3, <2>4, Alive
<1>9. \/ f.pc \in {"wait", "help", "block", "compare", "parked"} /\ k = CallOf(x[1], f).arg
      \/ (f.pc \in Finishing \/ f.making # None) /\ k = SubjectOf(f)
      \/ f.pc \in {"load", "cas"} /\ k = PredOf(f.cur)
      \/ f.node # None /\ Kind[f.node[1]] # "all" /\ k = f.node[1]
      \/ f.node # None /\ f.pc = "look" /\ k = PredOf(f.node)
  BY DEF UsesStates
<1>10. f.pc \in Finishing => f.pc \in SettlerPcs
  BY DEF Finishing, SettlerPcs, SettlePcs, LeavePcs
<1>. QED BY <1>3, <1>4, <1>5, <1>6, <1>7, <1>8, <1>9, <1>10

LEMMA RefsMean ==
  ASSUME TaskStateAssumption, RefsInv
  PROVE  NoDangling
<1>. USE DEF RefsInv, NodeInv
<1>1. \A x \in Frames : /\ UsesNodes(FrameAt(x)) \subseteq nodes \cup {None}
                        /\ \A k \in UsesStates(x) : refs[k] > 0
  BY NodesUsed, StatesUsed
<1>2. queued \subseteq nodes
  BY DEF Apart
<1>3. ASSUME NEW k \in Tasks
      PROVE  cont[k] \in nodes \cup {None, Finished} /\ (cont[k] \in nodes => refs[k] > 0)
  <2>1. HeadOK(k)
    BY DEF ListInv
  <2>2. PICK h : h = cont[k]
    OBVIOUS
  <2>3. CASE h \in {None, Finished}
    <3>1. h \notin nodes
      BY <2>3, Names DEF Types
    <3>. QED BY <2>2, <2>3, <3>1
  <2>4. CASE h \notin {None, Finished}
    BY <2>1, <2>2, <2>4, MarkRules, Alive DEF HeadOK, Continues, IsWaiting
  <2>. QED BY <2>3, <2>4
<1>4. ASSUME NEW n \in nodes
      PROVE  next[n] \in nodes \cup {None} \/ \E x \in Frames : FrameAt(x).pc = "cas" /\ FrameAt(x).cur = n
  BY DEF Types, ListInv, NextOK, Continues, IsWaiting, Casing
<1>. QED BY <1>1, <1>2, <1>3, <1>4 DEF NoDangling

LEMMA TypesMean ==
  ASSUME TaskStateAssumption, RefsInv, Counted
  PROVE  TypeOK
<1>. USE DEF RefsInv
<1>1. refs \in [Tasks -> Nat]
  BY RefsCount DEF Types
<1>2. \A k \in Tasks : remaining[k] \in Nat
  BY PendingFinite DEF CountInv, Counted
<1>3. ASSUME NEW x \in Frames
      PROVE  FrameAt(x) \in [node : Pointers, pc : PCs, at : Nat, making : Tasks \cup {None}, cur : Pointers,
                             nxt : Pointers, exc : Tasks \cup {None, AllocError}]
  BY Position DEF FrameSet, Pointers
<1>4. remaining \in [Tasks -> Nat]
  BY <1>2 DEF Types
<1>5. cont \in [Tasks -> Pointers \cup {Finished}] /\ next \in [Nodes -> Pointers]
  BY DEF Types, Pointers
<1>6. /\ err \in [Tasks -> Tasks \cup {None, AllocError}] /\ nodes \subseteq Nodes
      /\ ctlErr \in [Tasks -> Tasks \cup {None, AllocError}]
      /\ hold \in [Tasks -> SUBSET Bodies] /\ queued \subseteq Nodes /\ runs \in [Tasks -> Nat]
  BY DEF Types
<1>7. claimed \in [Tasks -> BOOLEAN] /\ aborted \in BOOLEAN
  BY DEF Types
<1>. QED BY <1>1, <1>3, <1>4, <1>5, <1>6, <1>7, Zenon DEF TypeOK

-----------------------------------------------------------------------------
(* The theorems.                                                           *)

\* The counts of references never fall below zero, nor does the count of a when_all, and
\* the pointers name nodes.
THEOREM TypeTheorem == TaskStateAssumption => (Spec => []TypeOK)
<1>. SUFFICES ASSUME TaskStateAssumption PROVE Spec => []TypeOK
  OBVIOUS
<1>1. RefsInv /\ Counted => TypeOK
  BY TypesMean
<1>. QED BY <1>1, RefsCorrect, PTL

\* No thread, list or queue has the address of a node that has been freed or of a state that
\* has been destroyed: neither the thread that finishes a task while others drop their handles,
\* nor one that adds a continuation while the task finishes, nor one that waits.
THEOREM DanglingTheorem == TaskStateAssumption => (Spec => []NoDangling)
<1>. SUFFICES ASSUME TaskStateAssumption PROVE Spec => []NoDangling
  OBVIOUS
<1>1. RefsInv /\ Counted => NoDangling
  BY RefsMean
<1>. QED BY <1>1, RefsCorrect, PTL

\* A thread that is parked in wait() waits for a task that is not complete, or whose
\* finish() has still to notify: the notification of finish(), which comes after the
\* exchange of continuations_, cannot fall between the comparison of a waiter and its
\* sleep.
THEOREM WakeupTheorem == TaskStateAssumption => (Spec => []NoLostWakeup)
<1>. SUFFICES ASSUME TaskStateAssumption PROVE Spec => []NoLostWakeup
  OBVIOUS
<1>1. Types /\ ShapeInv /\ ParkInv => NoLostWakeup
  BY ParkMeans
<1>. QED BY <1>1, ParkCorrect, PTL
=============================================================================
