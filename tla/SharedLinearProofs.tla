------------------------- MODULE SharedLinearProofs -------------------------
(***************************************************************************)
(* Proofs about SharedLinear, for any threads, pages, sizes, alignments    *)
(* and bounds: the blocks that clients hold are those of a Heap.           *)
(*                                                                         *)
(* The invariant SharedInv says where every page is (ListInv), that the    *)
(* blocks of a page lie one behind the other below its offset (BlockInv),  *)
(* and what a thread may conclude from the page and the offset it read     *)
(* (CallInv).                                                              *)
(***************************************************************************)
EXTENDS SharedLinear, SequenceTheorems, FiniteSetTheorems, TLAPS

-----------------------------------------------------------------------------
(* Remainders.                                                             *)

LEMMA Division ==
  ASSUME NEW a \in Nat \ {0}, NEW x \in Int
  PROVE  /\ x = a * (x \div a) + (x % a)
         /\ x % a \in 0 .. a - 1 /\ x \div a \in Int
OBVIOUS

LEMMA MultipleZero ==
  ASSUME NEW a \in Nat \ {0}, NEW k \in Int
  PROVE  (a * k) % a = 0
OBVIOUS

LEMMA Multiple ==
  ASSUME NEW a \in Nat \ {0}, NEW x \in Int, NEW k \in Int, x = a * k
  PROVE  x % a = 0
BY MultipleZero

LEMMA Factor ==
  ASSUME NEW a \in Nat \ {0}, NEW x \in Int, x % a = 0
  PROVE  \E k \in Int : x = a * k
<1>1. x = a * (x \div a) /\ x \div a \in Int
  BY Division
<1>. QED BY <1>1

\* Padding up to a multiple.
LEMMA PadMultiple ==
  ASSUME NEW a \in Nat \ {0}, NEW x \in Int
  PROVE  /\ (-x) % a \in 0 .. a - 1
         /\ (x + ((-x) % a)) % a = 0
<1>. DEFINE k == (-x) \div a
            y == x + ((-x) % a)
<1>1. -x = a * k + ((-x) % a) /\ k \in Int /\ (-x) % a \in 0 .. a - 1
  BY Division
<1>2. y = a * (-k) /\ -k \in Int /\ y \in Int
  BY <1>1
<1>. HIDE DEF k, y
<1>3. y % a = 0
  BY <1>2, Multiple
<1>. QED BY <1>1, <1>3 DEF y

LEMMA SumMultiple ==
  ASSUME NEW a \in Nat \ {0}, NEW x \in Int, NEW y \in Int, x % a = 0, y % a = 0
  PROVE  (x + y) % a = 0 /\ (x - y) % a = 0
<1>1. PICK k \in Int : x = a * k
  BY Factor
<1>2. PICK l \in Int : y = a * l
  BY Factor
<1>. DEFINE s == x + y
            d == x - y
            m == k + l
            n == k - l
<1>3. s = a * m /\ d = a * n /\ s \in Int /\ d \in Int /\ m \in Int /\ n \in Int
  BY <1>1, <1>2
<1>. HIDE DEF s, d, m, n
<1>4. s % a = 0 /\ d % a = 0
  BY <1>3, Multiple
<1>. QED BY <1>4 DEF s, d

LEMMA MultipleOfMultiple ==
  ASSUME NEW a \in Nat \ {0}, NEW b \in Nat \ {0}, NEW x \in Int, x % a = 0, a % b = 0
  PROVE  x % b = 0
<1>1. PICK k \in Int : x = a * k
  BY Factor
<1>2. PICK l \in Int : a = b * l
  BY Factor
<1>3. x = b * (l * k) /\ l * k \in Int
  BY <1>1, <1>2
<1>. QED BY <1>3, Multiple

\* align_up gives a multiple of the alignment that is not smaller.
LEMMA AlignedUp ==
  ASSUME SharedAssumption, NEW n \in Nat \ {0}
  PROVE  AlignUp(n) \in Nat \ {0} /\ AlignUp(n) % Alignment = 0
<1>. DEFINE k == (n + Alignment - 1) \div Alignment
            r == (n + Alignment - 1) % Alignment
<1>1. Alignment \in Nat \ {0} /\ n + Alignment - 1 \in Int
  BY DEF SharedAssumption
<1>2. n + Alignment - 1 = Alignment * k + r /\ r \in 0 .. Alignment - 1 /\ k \in Int
  BY <1>1, Division
<1>. HIDE DEF k, r
<1>3. k > 0
  <2>1. SUFFICES ASSUME ~(k > 0) PROVE FALSE
    OBVIOUS
  <2>2. Alignment * k <= 0
    BY <1>1, <1>2, <2>1
  <2>3. Alignment * k >= n
    BY <1>1, <1>2
  <2>. QED BY <2>2, <2>3, <1>1, <1>2
<1>4. k * Alignment = Alignment * k /\ k * Alignment \in Nat \ {0}
  BY <1>1, <1>2, <1>3
<1>5. (k * Alignment) % Alignment = 0
  BY <1>1, <1>2, <1>4, MultipleZero
<1>. QED BY <1>4, <1>5 DEF AlignUp, k

-----------------------------------------------------------------------------
(* The inductive invariant.                                                *)

PCs == {"idle", "head", "roll", "load", "cas", "lock", "install", "copy"}
Held == [at : Pages, lo : Nat, size : Nat \ {0}, align : Nat \ {0}]
Regs == [op : {"allocate", "deallocate", "realloc", None}, size : Nat, align : Nat \ {0},
         block : Held \cup {None}, arena : Pages \cup {None}, off : Nat,
         stage : {"fast", "again", "own"}]

TypeInv ==
  /\ size \in [Pages -> Nat] /\ offset \in [Pages -> Nat]
  /\ current \in Pages \cup {None}
  /\ list \in Seq(Pages) /\ large \in Seq(Pages) /\ available \in Seq(Pages)
  /\ mutex \in Threads \cup {None}
  /\ pc \in [Threads -> PCs] /\ reg \in [Threads -> Regs]
  /\ blocks \subseteq Held
  /\ calls \in 0 .. CallBound /\ resets \in 0 .. ResetBound

\* A page is in one list, at one place.
Once(s) == \A i, j \in DOMAIN s : s[i] = s[j] => i = j
Serving == Members(list) \cup Members(large)
ListInv ==
  /\ Once(list) /\ Once(large) /\ Once(available)
  /\ Members(list) \cap Members(large) = {}
  /\ Serving \cap Members(available) = {}
  /\ current = IF list = <<>> THEN None ELSE list[1]
  /\ \A p \in Members(list) \cup Members(available) : size[p] = DefaultSize

\* The blocks of a page: below its offset, aligned, and one behind the other.
AlignKnown(a) == a > Alignment => a % Alignment = 0
BlockOK(b) ==
  /\ b.at \in Serving /\ End(b) <= offset[b.at]
  /\ b.lo % Alignment = 0 /\ b.size % Alignment = 0 /\ AlignKnown(b.align)
  /\ (Base(b.at) + b.lo) % b.align = 0
Ordered(b, c) == b.at = c.at /\ b # c => End(b) <= c.lo \/ End(c) <= b.lo
BlockInv ==
  /\ \A p \in Pages : offset[p] <= size[p] /\ offset[p] % Alignment = 0
  /\ \A b \in blocks : BlockOK(b)
  /\ \A b, c \in blocks : Ordered(b, c)

\* What a thread has in its locals at each place of a call.
CallOK(t) ==
  /\ pc[t] = "idle" => reg[t].block = None
  /\ pc[t] # "idle" =>
       /\ reg[t].op \in {"allocate", "deallocate", "realloc"}
       /\ reg[t].size # 0 /\ reg[t].size % Alignment = 0 /\ AlignKnown(reg[t].align)
       /\ reg[t].block = None <=> reg[t].op = "allocate"
       /\ reg[t].block # None => reg[t].block \in blocks
  /\ pc[t] \in {"head", "roll"} => reg[t].op \in {"deallocate", "realloc"}
  /\ pc[t] \in {"load", "cas", "lock", "install"} => reg[t].op \in {"allocate", "realloc"}
  /\ pc[t] \in {"load", "cas"} => reg[t].arena \in Serving
  /\ pc[t] = "roll" =>
       /\ reg[t].block.at = reg[t].arena /\ reg[t].off = End(reg[t].block)
       /\ reg[t].op = "realloc" => reg[t].block.lo + reg[t].size <= size[reg[t].arena]
  /\ pc[t] = "copy" => reg[t].op = "realloc"
OwnBlock(t, u) == t # u /\ reg[t].block # None => reg[t].block # reg[u].block
CallInv ==
  /\ \A t \in Threads : CallOK(t)
  /\ \A t, u \in Threads : OwnBlock(t, u)

SharedInv == TypeInv /\ ListInv /\ BlockInv /\ CallInv

-----------------------------------------------------------------------------
(* Lists of pages.                                                         *)

LEMMA MembersCons ==
  ASSUME NEW p \in Pages, NEW s \in Seq(Pages)
  PROVE  /\ <<p>> \o s \in Seq(Pages) /\ <<p>> \o s # <<>> /\ (<<p>> \o s)[1] = p
         /\ Members(<<p>> \o s) = {p} \cup Members(s)
         /\ Once(s) /\ p \notin Members(s) => Once(<<p>> \o s)
<1>. DEFINE r == <<p>> \o s
<1>1. <<p>> \in Seq(Pages) /\ Len(<<p>>) = 1 /\ <<p>>[1] = p
  OBVIOUS
<1>2. /\ r \in Seq(Pages) /\ Len(r) = 1 + Len(s) /\ Len(s) \in Nat
      /\ DOMAIN r = 1 .. (1 + Len(s)) /\ DOMAIN s = 1 .. Len(s)
      /\ \A i \in 1 .. (1 + Len(s)) : r[i] = IF i <= 1 THEN <<p>>[i] ELSE s[i - 1]
  BY <1>1, ConcatProperties, LenProperties
<1>. HIDE DEF r
<1>3. r[1] = p /\ \A i \in DOMAIN s : i + 1 \in DOMAIN r /\ r[i + 1] = s[i]
  BY <1>1, <1>2
<1>4. \A i \in DOMAIN r : i # 1 => i - 1 \in DOMAIN s /\ r[i] = s[i - 1]
  BY <1>2
<1>5. Members(r) = {p} \cup Members(s)
  <2>1. 1 \in DOMAIN r
    BY <1>2
  <2>2. {p} \cup Members(s) \subseteq Members(r)
    BY <1>3, <2>1 DEF Members
  <2>3. Members(r) \subseteq {p} \cup Members(s)
    BY <1>3, <1>4 DEF Members
  <2>. QED BY <2>2, <2>3
<1>6. ASSUME Once(s), p \notin Members(s) PROVE Once(r)
  <2>1. SUFFICES ASSUME NEW i \in DOMAIN r, NEW j \in DOMAIN r, r[i] = r[j] PROVE i = j
    BY DEF Once
  <2>2. CASE i = 1 \/ j = 1
    BY <2>1, <2>2, <1>3, <1>4, <1>6 DEF Members
  <2>3. CASE i # 1 /\ j # 1
    <3>1. i - 1 \in DOMAIN s /\ j - 1 \in DOMAIN s /\ s[i - 1] = s[j - 1]
      BY <2>1, <2>3, <1>4
    <3>2. i - 1 = j - 1 /\ i \in Int /\ j \in Int
      BY <3>1, <1>6, <1>2 DEF Once
    <3>. QED BY <3>2
  <2>. QED BY <2>2, <2>3
<1>. QED BY <1>2, <1>3, <1>5, <1>6 DEF r

LEMMA MembersTail ==
  ASSUME NEW s \in Seq(Pages), s # <<>>
  PROVE  /\ s[1] \in Members(s) /\ s[1] \in Pages /\ Tail(s) \in Seq(Pages)
         /\ Members(Tail(s)) \subseteq Members(s)
         /\ Once(s) => Once(Tail(s)) /\ s[1] \notin Members(Tail(s))
<1>1. /\ Len(s) \in Nat \ {0} /\ DOMAIN s = 1 .. Len(s) /\ Tail(s) \in Seq(Pages)
      /\ Len(Tail(s)) = Len(s) - 1 /\ DOMAIN Tail(s) = 1 .. (Len(s) - 1)
      /\ \A i \in 1 .. Len(Tail(s)) : Tail(s)[i] = s[i + 1]
  BY EmptySeq, LenProperties, HeadTailProperties
<1>2. \A i \in DOMAIN Tail(s) : i + 1 \in DOMAIN s /\ i + 1 # 1 /\ Tail(s)[i] = s[i + 1]
  BY <1>1
<1>3. 1 \in DOMAIN s /\ s[1] \in Pages
  BY <1>1, ElementOfSeq
<1>4. Members(Tail(s)) \subseteq Members(s)
  BY <1>2 DEF Members
<1>5. ASSUME Once(s) PROVE Once(Tail(s)) /\ s[1] \notin Members(Tail(s))
  <2>1. s[1] \notin Members(Tail(s))
    BY <1>2, <1>3, <1>5 DEF Members, Once
  <2>2. ASSUME NEW i \in DOMAIN Tail(s), NEW j \in DOMAIN Tail(s), Tail(s)[i] = Tail(s)[j]
        PROVE  i = j
    <3>1. i + 1 = j + 1
      BY <1>2, <1>5, <2>2 DEF Once
    <3>. QED BY <3>1, <1>1
  <2>. QED BY <2>1, <2>2 DEF Once
<1>. QED BY <1>1, <1>3, <1>4, <1>5 DEF Members

LEMMA MembersConcat ==
  ASSUME NEW r \in Seq(Pages), NEW s \in Seq(Pages)
  PROVE  /\ r \o s \in Seq(Pages)
         /\ Members(r \o s) = Members(r) \cup Members(s)
         /\ Once(r) /\ Once(s) /\ Members(r) \cap Members(s) = {} => Once(r \o s)
<1>. DEFINE q == r \o s
<1>1. /\ q \in Seq(Pages) /\ Len(r) \in Nat /\ Len(s) \in Nat
      /\ DOMAIN r = 1 .. Len(r) /\ DOMAIN s = 1 .. Len(s) /\ DOMAIN q = 1 .. (Len(r) + Len(s))
      /\ \A i \in 1 .. Len(r) + Len(s) : q[i] = IF i <= Len(r) THEN r[i] ELSE s[i - Len(r)]
  BY ConcatProperties, LenProperties
<1>. HIDE DEF q
<1>2. \A i \in DOMAIN r : i \in DOMAIN q /\ q[i] = r[i]
  BY <1>1
<1>3. \A i \in DOMAIN s : i + Len(r) \in DOMAIN q /\ q[i + Len(r)] = s[i]
  <2>1. SUFFICES ASSUME NEW i \in DOMAIN s PROVE i + Len(r) \in DOMAIN q /\ q[i + Len(r)] = s[i]
    OBVIOUS
  <2>2. i + Len(r) \in 1 .. Len(r) + Len(s) /\ ~(i + Len(r) <= Len(r)) /\ (i + Len(r)) - Len(r) = i
    BY <1>1
  <2>. QED BY <1>1, <2>2
<1>4. \A i \in DOMAIN q : \/ i \in DOMAIN r /\ q[i] = r[i]
                          \/ i - Len(r) \in DOMAIN s /\ q[i] = s[i - Len(r)]
  BY <1>1
<1>5. Members(q) = Members(r) \cup Members(s)
  BY <1>2, <1>3, <1>4 DEF Members
<1>6. ASSUME Once(r), Once(s), Members(r) \cap Members(s) = {} PROVE Once(q)
  <2>1. SUFFICES ASSUME NEW i \in DOMAIN q, NEW j \in DOMAIN q, q[i] = q[j] PROVE i = j
    BY DEF Once
  <2>2. CASE i \in DOMAIN r /\ q[i] = r[i] /\ j \in DOMAIN r /\ q[j] = r[j]
    BY <2>1, <2>2, <1>6 DEF Once
  <2>3. CASE i - Len(r) \in DOMAIN s /\ q[i] = s[i - Len(r)] /\ j - Len(r) \in DOMAIN s /\ q[j] = s[j - Len(r)]
    <3>1. i - Len(r) = j - Len(r)
      BY <2>1, <2>3, <1>6 DEF Once
    <3>. QED BY <3>1, <1>1
  <2>4. CASE i \in DOMAIN r /\ q[i] = r[i] /\ j - Len(r) \in DOMAIN s /\ q[j] = s[j - Len(r)]
    BY <2>1, <2>4, <1>6 DEF Members
  <2>5. CASE i - Len(r) \in DOMAIN s /\ q[i] = s[i - Len(r)] /\ j \in DOMAIN r /\ q[j] = r[j]
    BY <2>1, <2>5, <1>6 DEF Members
  <2>. QED BY <1>4, <2>2, <2>3, <2>4, <2>5
<1>. QED BY <1>1, <1>5, <1>6 DEF q

-----------------------------------------------------------------------------
(* Frames: what a step of one thread leaves to the others.                 *)

\* A thread that does not move keeps what it knows, if its block is still held and the pages
\* that serve keep on serving.
LEMMA CallKept ==
  ASSUME TypeInv, BlockInv, NEW t \in Threads, CallOK(t),
         pc'[t] = pc[t], reg'[t] = reg[t],
         reg[t].block \in blocks => reg[t].block \in blocks',
         Serving \subseteq Serving',
         \A p \in Serving : size'[p] = size[p]
  PROVE  CallOK(t)'
<1>1. reg[t].block \in blocks => reg[t].block.at \in Serving
  BY DEF BlockInv, BlockOK
<1>2. pc[t] = "roll" => reg[t].arena \in Serving
  BY <1>1 DEF CallOK
<1>. QED BY <1>2 DEF CallOK, End

\* So a step of t need only be looked at for t.
LEMMA CallStep ==
  ASSUME SharedAssumption, TypeInv, BlockInv, CallInv, NEW t \in Threads, NEW l, NEW r,
         pc' = [pc EXCEPT ![t] = l], reg' = [reg EXCEPT ![t] = r],
         r.block = None \/ r.block = reg[t].block \/ \A u \in Threads : reg[u].block # r.block,
         \A b \in blocks : b # reg[t].block => b \in blocks',
         Serving \subseteq Serving',
         \A p \in Serving : size'[p] = size[p],
         CallOK(t)'
  PROVE  CallInv'
<1>1. \A u \in Threads : u # t => pc'[u] = pc[u] /\ reg'[u] = reg[u]
  BY DEF TypeInv
<1>2. reg'[t] = r
  BY DEF TypeInv
<1>3. ASSUME NEW u \in Threads, u # t PROVE CallOK(u)'
  <2>1. reg[u].block \in blocks => reg[u].block # reg[t].block
    <3>1. None \notin Held
      BY DEF SharedAssumption, Held
    <3>2. reg[u].block \in blocks => reg[u].block # None
      BY <3>1 DEF TypeInv
    <3>. QED BY <1>3, <3>2 DEF CallInv, OwnBlock
  <2>. QED BY <1>1, <1>3, <2>1, CallKept DEF CallInv
<1>4. ASSUME NEW u \in Threads, NEW v \in Threads PROVE OwnBlock(u, v)'
  BY <1>1, <1>2 DEF CallInv, OwnBlock
<1>. QED BY <1>3, <1>4 DEF CallInv

\* A step that leaves the pages and the blocks alone.
LEMMA StillInv ==
  ASSUME ListInv, BlockInv, UNCHANGED <<pages, offset, blocks>>
  PROVE  ListInv' /\ BlockInv' /\ Serving' = Serving
BY DEF ListInv, BlockInv, BlockOK, Serving, pages, Ordered

-----------------------------------------------------------------------------
(* The initial states, and the types.                                      *)

LEMMA InitInv ==
  ASSUME SharedAssumption, Init
  PROVE  SharedInv
<1>1. TypeInv
  <2>1. NoReg \in Regs
    BY DEF NoReg, Regs
  <2>2. <<>> \in Seq(Pages)
    BY EmptySeq
  <2>. QED BY <2>1, <2>2 DEF Init, TypeInv, PCs, SharedAssumption
<1>2. ListInv
  BY DEF Init, ListInv, Once, Serving, Members
<1>3. BlockInv
  <2>1. 0 % Alignment = 0
    BY MultipleZero DEF SharedAssumption
  <2>. QED BY <2>1 DEF Init, BlockInv
<1>4. CallInv
  BY DEF Init, CallInv, CallOK, OwnBlock, NoReg
<1>. QED BY <1>1, <1>2, <1>3, <1>4 DEF SharedInv

LEMMA ReturnTypes ==
  ASSUME TypeInv, NEW t \in Threads, Return(t)
  PROVE  /\ pc' = [pc EXCEPT ![t] = "idle"] /\ reg' = [reg EXCEPT ![t] = NoReg]
         /\ pc' \in [Threads -> PCs] /\ reg' \in [Threads -> Regs] /\ mutex' \in Threads \cup {None}
<1>1. NoReg \in Regs
  BY DEF NoReg, Regs
<1>. QED BY <1>1 DEF TypeInv, Return, Goto, PCs

\* A thread that returns knows nothing any more.
LEMMA ReturnCall ==
  ASSUME SharedAssumption, TypeInv, BlockInv, CallInv, NEW t \in Threads, Return(t),
         \A b \in blocks : b # reg[t].block => b \in blocks',
         Serving \subseteq Serving',
         \A p \in Serving : size'[p] = size[p]
  PROVE  CallInv'
<1>1. pc' = [pc EXCEPT ![t] = "idle"] /\ reg' = [reg EXCEPT ![t] = NoReg]
  BY ReturnTypes
<1>2. CallOK(t)'
  BY <1>1 DEF CallOK, TypeInv, NoReg
<1>3. NoReg.block = None
  BY DEF NoReg
<1>. HIDE DEF NoReg
<1>. QED BY <1>1, <1>2, <1>3, CallStep

-----------------------------------------------------------------------------
(* The steps of a call.                                                    *)

\* A block that is not being given back or resized is nobody's.
LEMMA FreeBlock ==
  ASSUME SharedAssumption, TypeInv, BlockInv, NEW b \in blocks \ Busy
  PROVE  /\ \A u \in Threads : reg[u].block # b
         /\ b # None /\ b \in Held
         /\ b.size \in Nat \ {0} /\ b.align \in Nat \ {0} /\ AlignKnown(b.align)
<1>1. None \notin Held
  BY DEF SharedAssumption, Held
<1>. QED BY <1>1 DEF TypeInv, Busy, BlockInv, BlockOK, Held

LEMMA CallStarts ==
  ASSUME SharedAssumption, SharedInv, NEW t \in Threads,
         NEW o \in {"allocate", "deallocate", "realloc"}, NEW n \in Nat \ {0}, NEW a \in Nat \ {0},
         NEW b, NEW l,
         AlignKnown(a),
         b \in blocks \ Busy \/ b = None, b = None <=> o = "allocate",
         \/ l = "head" /\ o # "allocate"
         \/ l = "lock" /\ o = "allocate"
         \/ l = "load" /\ o = "allocate" /\ current # None,
         Call(t, o, n, a, b), Goto(t, l)
  PROVE  SharedInv'
<1>. DEFINE r == [op |-> o, size |-> AlignUp(n), align |-> a, block |-> b, arena |-> current,
                   off |-> 0, stage |-> "fast"]
<1>1. /\ reg' = [reg EXCEPT ![t] = r] /\ pc' = [pc EXCEPT ![t] = l]
      /\ UNCHANGED <<pages, offset, mutex, blocks, resets>>
      /\ calls < CallBound /\ calls' = calls + 1
  BY DEF Call, Goto
<1>2. AlignUp(n) \in Nat \ {0} /\ AlignUp(n) % Alignment = 0
  BY AlignedUp
<1>3. r = [op |-> o, size |-> AlignUp(n), align |-> a, block |-> b, arena |-> current,
           off |-> 0, stage |-> "fast"]
  OBVIOUS
<1>. HIDE DEF r
<1>4. b = None \/ b \in Held
  BY DEF SharedInv, TypeInv
<1>5. r \in Regs
  BY <1>2, <1>3, <1>4 DEF Regs, SharedInv, TypeInv
<1>6. TypeInv'
  <2>1. calls' \in 0 .. CallBound
    BY <1>1 DEF SharedInv, TypeInv, SharedAssumption
  <2>2. pc' \in [Threads -> PCs]
    BY <1>1 DEF SharedInv, TypeInv, PCs
  <2>3. reg' \in [Threads -> Regs]
    BY <1>1, <1>5 DEF SharedInv, TypeInv
  <2>. QED BY <1>1, <2>1, <2>2, <2>3 DEF SharedInv, TypeInv, pages
<1>7. ListInv' /\ BlockInv' /\ Serving' = Serving
  BY <1>1, StillInv DEF SharedInv
<1>8. l = "load" => current \in Serving
  <2>1. l = "load" => list # <<>> /\ current = list[1]
    BY DEF SharedInv, ListInv
  <2>. QED BY <2>1, MembersTail DEF SharedInv, TypeInv, Serving
<1>9. CallOK(t)'
  <2>1. reg'[t] = r /\ pc'[t] = l
    BY <1>1 DEF SharedInv, TypeInv
  <2>2. r.op = o /\ r.size = AlignUp(n) /\ r.align = a /\ r.block = b /\ r.arena = current
    BY <1>3
  <2>3. b = None \/ b \in blocks'
    BY <1>1
  <2>. QED BY <2>1, <2>2, <2>3, <1>1, <1>2, <1>7, <1>8 DEF CallOK
<1>10. b = None \/ \A u \in Threads : reg[u].block # b
  BY FreeBlock DEF SharedInv
<1>11. r.block = b
  BY <1>3
<1>12. CallInv'
  <2>1. \A p \in Serving : size'[p] = size[p]
    BY <1>1 DEF pages
  <2>. QED BY <1>1, <1>7, <1>9, <1>10, <1>11, <2>1, CallStep DEF SharedInv
<1>. QED BY <1>6, <1>7, <1>12 DEF SharedInv

LEMMA AllocateInv ==
  ASSUME SharedAssumption, SharedInv, NEW t \in Threads, Allocate(t)
  PROVE  SharedInv'
<1>1. PICK n \in Sizes, a \in Aligns :
        Call(t, "allocate", n, a, None) /\ Goto(t, IF current = None THEN "lock" ELSE "load")
  BY DEF Allocate
<1>2. n \in Nat \ {0} /\ a \in Nat \ {0} /\ AlignKnown(a)
  BY DEF SharedAssumption, AlignKnown
<1>3. CASE current = None
  <2>1. Goto(t, "lock")
    BY <1>1, <1>3
  <2>. QED BY <1>1, <1>2, <2>1, CallStarts
<1>4. CASE current # None
  <2>1. Goto(t, "load")
    BY <1>1, <1>4
  <2>. QED BY <1>1, <1>2, <1>4, <2>1, CallStarts
<1>. QED BY <1>3, <1>4

LEMMA DeallocateInv ==
  ASSUME SharedAssumption, SharedInv, NEW t \in Threads, Deallocate(t)
  PROVE  SharedInv'
<1>1. PICK b \in blocks \ Busy : Call(t, "deallocate", b.size, b.align, b) /\ Goto(t, "head")
  BY DEF Deallocate
<1>. QED BY <1>1, FreeBlock, CallStarts DEF SharedInv

LEMMA ReallocInv ==
  ASSUME SharedAssumption, SharedInv, NEW t \in Threads, Realloc(t)
  PROVE  SharedInv'
<1>1. PICK b \in blocks \ Busy, n \in Sizes : Call(t, "realloc", n, b.align, b) /\ Goto(t, "head")
  BY DEF Realloc
<1>2. n \in Nat \ {0}
  BY DEF SharedAssumption
<1>. QED BY <1>1, <1>2, FreeBlock, CallStarts DEF SharedInv

\* A step of t that changes its place and its locals, and keeps its block.
LEMMA MoveStep ==
  ASSUME SharedAssumption, SharedInv, NEW t \in Threads, NEW l \in PCs, NEW r \in Regs,
         pc' = [pc EXCEPT ![t] = l], reg' = [reg EXCEPT ![t] = r],
         r.block = reg[t].block, mutex' \in Threads \cup {None},
         UNCHANGED <<pages, offset, blocks, calls, resets>>,
         CallOK(t)'
  PROVE  SharedInv'
<1>1. TypeInv'
  BY DEF SharedInv, TypeInv, pages
<1>2. ListInv' /\ BlockInv' /\ Serving' = Serving
  BY StillInv DEF SharedInv
<1>3. \A p \in Serving : size'[p] = size[p]
  BY DEF pages
<1>4. CallInv'
  BY <1>2, <1>3, CallStep DEF SharedInv
<1>. QED BY <1>1, <1>2, <1>4 DEF SharedInv

\* What a thread that is in a call holds.
LEMMA InCall ==
  ASSUME SharedAssumption, SharedInv, NEW t \in Threads, pc[t] # "idle"
  PROVE  /\ reg[t] \in Regs /\ reg[t].size \in Nat \ {0} /\ reg[t].size % Alignment = 0
         /\ reg[t].align \in Nat \ {0} /\ AlignKnown(reg[t].align)
         /\ reg[t].op \in {"allocate", "deallocate", "realloc"} /\ None \notin Held
         /\ reg[t].block = None <=> reg[t].op = "allocate"
         /\ reg[t].block # None => reg[t].block \in blocks /\ reg[t].block \in Held
<1>1. None \notin Held
  BY DEF SharedAssumption, Held
<1>2. CallOK(t) /\ reg[t] \in Regs
  BY DEF SharedInv, CallInv, TypeInv
<1>. QED BY <1>1, <1>2 DEF CallOK, Regs

\* An allocation begins anew with the current page.
LEMMA CurrentServes ==
  ASSUME TypeInv, ListInv, current # None
  PROVE  current \in Serving
<1>1. list # <<>> /\ current = list[1]
  BY DEF ListInv
<1>. QED BY <1>1, MembersTail DEF TypeInv, Serving

LEMMA ServingPages ==
  ASSUME TypeInv
  PROVE  Serving \subseteq Pages
<1>1. \A s \in Seq(Pages) : Members(s) \subseteq Pages
  BY ElementOfSeq, LenProperties DEF Members
<1>. QED BY <1>1 DEF Serving, TypeInv

LEMMA LoadInv ==
  ASSUME SharedAssumption, SharedInv, NEW t \in Threads, Load(t)
  PROVE  SharedInv'
<1>. DEFINE r == [reg[t] EXCEPT !.off = offset[reg[t].arena]]
<1>1. pc[t] = "load" /\ reg[t] \in Regs /\ CallOK(t)
  BY InCall DEF Load, At, SharedInv, CallInv
<1>2. reg[t].arena \in Pages
  BY <1>1 DEF SharedInv, TypeInv, CallOK, Serving, Members
<1>3. r \in Regs /\ r.block = reg[t].block /\ r.arena = reg[t].arena /\ r.op = reg[t].op
      /\ r.size = reg[t].size /\ r.align = reg[t].align
  BY <1>1, <1>2 DEF Regs, SharedInv, TypeInv
<1>4. reg' = [reg EXCEPT ![t] = r] /\ pc' = [pc EXCEPT ![t] = "cas"]
  BY DEF Load, Goto
<1>. HIDE DEF r
<1>5. reg'[t] = r /\ pc'[t] = "cas" /\ blocks' = blocks /\ Serving' = Serving
  BY <1>4, StillInv DEF SharedInv, TypeInv, Load
<1>6. CallOK(t)'
  BY <1>1, <1>3, <1>5 DEF CallOK
<1>. QED BY <1>3, <1>4, <1>6, MoveStep DEF Load, PCs, SharedInv, TypeInv

LEMMA FullInv ==
  ASSUME SharedAssumption, SharedInv, NEW t \in Threads, Full(t)
  PROVE  SharedInv'
<1>1. pc[t] = "cas" /\ CallOK(t) /\ reg[t] \in Regs
  BY InCall DEF Full, At, SharedInv, CallInv
<1>2. UNCHANGED <<pages, offset, blocks, calls, resets>>
  BY DEF Full
<1>3. ListInv' /\ BlockInv' /\ Serving' = Serving
  BY <1>2, StillInv DEF SharedInv
<1>4. ASSUME NEW l \in {"lock", "install"}, Goto(t, l), UNCHANGED <<mutex, reg>> PROVE SharedInv'
  <2>1. pc' = [pc EXCEPT ![t] = l] /\ pc'[t] = l /\ reg' = [reg EXCEPT ![t] = reg[t]] /\ reg'[t] = reg[t]
    BY <1>4 DEF Goto, SharedInv, TypeInv
  <2>2. CallOK(t)'
    BY <1>1, <1>2, <2>1 DEF CallOK
  <2>. QED BY <1>1, <1>2, <1>4, <2>1, <2>2, MoveStep DEF PCs, SharedInv, TypeInv
<1>5. CASE Return(t)
  <2>1. TypeInv'
    BY <1>2, <1>5, ReturnTypes DEF SharedInv, TypeInv, pages
  <2>2. CallInv'
    BY <1>2, <1>3, <1>5, ReturnCall DEF SharedInv, pages
  <2>. QED BY <1>3, <2>1, <2>2 DEF SharedInv
<1>. QED BY <1>4, <1>5 DEF Full

LEMMA SlowPathInv ==
  ASSUME SharedAssumption, SharedInv, NEW t \in Threads, SlowPath(t)
  PROVE  SharedInv'
<1>. DEFINE r == [reg[t] EXCEPT !.arena = current, !.stage = "again"]
            l == IF current = None THEN "install" ELSE "load"
<1>1. pc[t] = "lock" /\ CallOK(t) /\ reg[t] \in Regs
  BY InCall DEF SlowPath, At, SharedInv, CallInv
<1>2. r \in Regs /\ r.block = reg[t].block /\ r.arena = current /\ r.op = reg[t].op
      /\ r.size = reg[t].size /\ r.align = reg[t].align
  BY <1>1 DEF Regs, SharedInv, TypeInv
<1>3. reg' = [reg EXCEPT ![t] = r] /\ pc' = [pc EXCEPT ![t] = l] /\ mutex' = t
  BY DEF SlowPath, Goto
<1>. HIDE DEF r
<1>4. reg'[t] = r /\ pc'[t] = l /\ blocks' = blocks /\ Serving' = Serving
  BY <1>3, StillInv DEF SharedInv, TypeInv, SlowPath
<1>5. l = "load" => current \in Serving
  BY CurrentServes DEF SharedInv
<1>6. l \in {"install", "load"}
  OBVIOUS
<1>. HIDE DEF l
<1>7. CallOK(t)'
  BY <1>1, <1>2, <1>4, <1>5, <1>6 DEF CallOK
<1>. QED BY <1>2, <1>3, <1>6, <1>7, MoveStep DEF SlowPath, PCs

\* A block is forgotten, and the pages stay as they are.
LEMMA ForgetInv ==
  ASSUME SharedAssumption, SharedInv, NEW t \in Threads, Return(t),
         blocks' = blocks \ {reg[t].block}, UNCHANGED <<pages, offset, calls, resets>>
  PROVE  SharedInv'
<1>1. TypeInv'
  BY ReturnTypes DEF SharedInv, TypeInv, pages
<1>2. ListInv' /\ Serving' = Serving
  BY DEF SharedInv, ListInv, Serving, pages
<1>3. BlockInv'
  BY <1>2 DEF SharedInv, BlockInv, BlockOK, Ordered, pages
<1>4. CallInv'
  BY <1>2, ReturnCall DEF SharedInv, pages
<1>. QED BY <1>1, <1>2, <1>3, <1>4 DEF SharedInv

LEMMA CopyInv ==
  ASSUME SharedAssumption, SharedInv, NEW t \in Threads, Copy(t)
  PROVE  SharedInv'
BY ForgetInv DEF Copy

LEMMA CompareInv ==
  ASSUME SharedAssumption, SharedInv, NEW t \in Threads, Compare(t)
  PROVE  SharedInv'
<1>. DEFINE p == reg[t].arena
            b == reg[t].block
<1>1. pc[t] = "head" /\ CallOK(t) /\ reg[t] \in Regs
  BY InCall DEF Compare, At, SharedInv, CallInv
<1>2. UNCHANGED <<pages, offset, calls, resets>>
  BY DEF Compare
<1>3. reg[t].op \in {"deallocate", "realloc"} /\ b \in blocks /\ b \in Held
  BY <1>1, InCall DEF CallOK
<1>4. ASSUME b.at = p, End(b) = offset[p], reg[t].op = "realloc" => b.lo + reg[t].size <= size[p],
             reg' = [reg EXCEPT ![t].off = offset[p]], Goto(t, "roll"), UNCHANGED <<mutex, blocks>>
      PROVE  SharedInv'
  <2>. DEFINE r == [reg[t] EXCEPT !.off = offset[p]]
  <2>1. r \in Regs /\ r.block = b /\ r.arena = p /\ r.op = reg[t].op /\ r.off = offset[p]
        /\ r.size = reg[t].size /\ r.align = reg[t].align
    <3>1. p \in Pages
      BY <1>3, <1>4 DEF Held
    <3>. QED BY <1>1, <3>1 DEF Regs, SharedInv, TypeInv
  <2>2. reg' = [reg EXCEPT ![t] = r] /\ pc' = [pc EXCEPT ![t] = "roll"]
    BY <1>4 DEF Goto
  <2>. HIDE DEF r
  <2>3. reg'[t] = r /\ pc'[t] = "roll" /\ blocks' = blocks /\ size' = size
    BY <1>2, <1>4, <2>2 DEF SharedInv, TypeInv, pages
  <2>4. CallOK(t)'
    BY <1>1, <1>3, <1>4, <2>1, <2>3 DEF CallOK, End
  <2>. QED BY <1>2, <1>4, <2>1, <2>2, <2>4, MoveStep DEF PCs, SharedInv, TypeInv
<1>5. ASSUME Return(t), blocks' = blocks \ {b} PROVE SharedInv'
  BY <1>2, <1>5, ForgetInv
<1>6. ASSUME reg[t].op = "realloc", reg' = [reg EXCEPT ![t].arena = current],
             Goto(t, IF current = None THEN "lock" ELSE "load"), UNCHANGED <<mutex, blocks>>
      PROVE  SharedInv'
  <2>. DEFINE r == [reg[t] EXCEPT !.arena = current]
              l == IF current = None THEN "lock" ELSE "load"
  <2>1. r \in Regs /\ r.block = b /\ r.arena = current /\ r.op = reg[t].op
        /\ r.size = reg[t].size /\ r.align = reg[t].align
    BY <1>1 DEF Regs, SharedInv, TypeInv
  <2>2. reg' = [reg EXCEPT ![t] = r] /\ pc' = [pc EXCEPT ![t] = l]
    BY <1>6 DEF Goto
  <2>. HIDE DEF r
  <2>3. reg'[t] = r /\ pc'[t] = l /\ blocks' = blocks /\ Serving' = Serving
    BY <1>2, <1>6, <2>2, StillInv DEF SharedInv, TypeInv
  <2>4. l = "load" => current \in Serving
    BY CurrentServes DEF SharedInv
  <2>5. l \in {"lock", "load"}
    OBVIOUS
  <2>. HIDE DEF l
  <2>6. CallOK(t)'
    BY <1>1, <1>6, <2>1, <2>3, <2>4, <2>5 DEF CallOK
  <2>. QED BY <1>2, <1>6, <2>1, <2>2, <2>5, <2>6, MoveStep DEF PCs, SharedInv, TypeInv
<1>. QED BY <1>4, <1>5, <1>6 DEF Compare

\* The last block of a page: the others end before it begins.
LEMMA LastBlock ==
  ASSUME SharedInv, NEW b \in blocks, End(b) = offset[b.at],
         NEW c \in blocks, c # b, c.at = b.at
  PROVE  End(c) <= b.lo
<1>1. b \in Held /\ c \in Held /\ End(c) <= offset[b.at] /\ offset[b.at] \in Nat
  BY DEF SharedInv, TypeInv, BlockInv, BlockOK, Held
<1>2. End(c) <= b.lo \/ End(b) <= c.lo
  BY DEF SharedInv, BlockInv, Ordered
<1>3. b.lo \in Nat /\ c.lo \in Nat /\ c.size \in Nat \ {0}
  BY <1>1 DEF Held
<1>4. c.lo + c.size <= offset[b.at] /\ End(c) = c.lo + c.size
  BY <1>1 DEF End
<1>. QED BY <1>1, <1>2, <1>3, <1>4

\* What Roll does when the offset has not moved.
RollsBack(t) ==
  LET p == reg[t].arena
      b == reg[t].block IN
    /\ b \in blocks /\ b.at = p /\ End(b) = offset[p] /\ p \in Serving
    /\ \/ /\ reg[t].op = "deallocate"
          /\ offset' = [offset EXCEPT ![p] = b.lo]
          /\ blocks' = blocks \ {b}
       \/ /\ reg[t].op = "realloc"
          /\ b.lo + reg[t].size <= size[p]
          /\ offset' = [offset EXCEPT ![p] = b.lo + reg[t].size]
          /\ blocks' = (blocks \ {b}) \cup {[b EXCEPT !.size = reg[t].size]}
    /\ Return(t)

LEMMA RollSplits ==
  ASSUME SharedAssumption, SharedInv, NEW t \in Threads, Roll(t)
  PROVE  \/ Goto(t, "head") /\ UNCHANGED <<offset, mutex, reg, blocks>>
         \/ RollsBack(t)
<1>1. pc[t] = "roll" /\ CallOK(t)
  BY DEF Roll, At, SharedInv, CallInv
<1>2. reg[t].block \in blocks
  BY <1>1, InCall DEF CallOK
<1>3. reg[t].block.at \in Serving
  BY <1>2 DEF SharedInv, BlockInv, BlockOK
<1>4. /\ reg[t].op \in {"deallocate", "realloc"}
      /\ reg[t].block.at = reg[t].arena /\ reg[t].off = End(reg[t].block)
      /\ reg[t].op = "realloc" => reg[t].block.lo + reg[t].size <= size[reg[t].arena]
  BY <1>1 DEF CallOK
<1>. QED BY <1>2, <1>3, <1>4 DEF Roll, RollsBack

LEMMA RollInv ==
  ASSUME SharedAssumption, SharedInv, NEW t \in Threads, Roll(t)
  PROVE  SharedInv'
<1>1. pc[t] = "roll" /\ CallOK(t) /\ reg[t] \in Regs
  BY InCall DEF Roll, At, SharedInv, CallInv
<1>2. UNCHANGED <<pages, calls, resets>>
  BY DEF Roll
<1>3. CASE Goto(t, "head") /\ UNCHANGED <<offset, mutex, reg, blocks>>
  <2>1. /\ pc' = [pc EXCEPT ![t] = "head"] /\ pc'[t] = "head"
        /\ reg' = [reg EXCEPT ![t] = reg[t]] /\ reg'[t] = reg[t]
    BY <1>3 DEF Goto, SharedInv, TypeInv
  <2>2. CallOK(t)'
    BY <1>1, <1>3, <2>1 DEF CallOK
  <2>. QED BY <1>1, <1>2, <1>3, <2>1, <2>2, MoveStep DEF PCs, SharedInv, TypeInv
<1>4. CASE RollsBack(t)
  <2>. DEFINE p == reg[t].arena
              b == reg[t].block
              d == [b EXCEPT !.size = reg[t].size]
  <2>1. /\ b \in blocks /\ b \in Held /\ b.at = p /\ End(b) = offset[p] /\ p \in Serving /\ p \in Pages
        /\ BlockOK(b) /\ Return(t)
    BY <1>4 DEF RollsBack, SharedInv, TypeInv, BlockInv, Held
  <2>2. ListInv' /\ Serving' = Serving
    BY <1>2 DEF SharedInv, ListInv, Serving, pages
  <2>3. CallInv'
    <3>1. \A c \in blocks : c # b => c \in blocks'
      BY <1>4 DEF RollsBack
    <3>. QED BY <1>2, <2>1, <2>2, <3>1, ReturnCall DEF SharedInv, pages
  <2>4. /\ reg[t].size \in Nat \ {0} /\ reg[t].size % Alignment = 0
        /\ b.lo \in Nat /\ b.size \in Nat \ {0} /\ b.align \in Nat \ {0}
    BY <1>1, <2>1, InCall DEF Held
  <2>5. /\ d \in Held /\ d.at = p /\ d.lo = b.lo /\ d.size = reg[t].size /\ d.align = b.align
    BY <2>1, <2>4 DEF Held
  <2>6. \A q \in Pages : offset[q] \in Nat /\ size[q] \in Nat /\ offset[q] <= size[q] /\ offset[q] % Alignment = 0
    BY DEF SharedInv, TypeInv, BlockInv
  <2>7. \A c \in blocks : c # b /\ c.at = p => End(c) <= b.lo
    BY <2>1, LastBlock
  <2>8. CASE reg[t].op = "deallocate" /\ offset' = [offset EXCEPT ![p] = b.lo] /\ blocks' = blocks \ {b}
    <3>1. TypeInv'
      BY <1>2, <2>1, <2>4, <2>8, ReturnTypes DEF SharedInv, TypeInv, pages
    <3>2. \A q \in Pages : offset'[q] <= size'[q] /\ offset'[q] % Alignment = 0
      <4>1. b.lo <= offset[p] /\ b.lo % Alignment = 0
        BY <2>1, <2>4 DEF End, BlockOK
      <4>2. b.lo <= size[p]
        BY <2>1, <2>4, <2>6, <4>1
      <4>. QED BY <1>2, <2>6, <2>8, <4>1, <4>2 DEF SharedInv, TypeInv, pages
    <3>3. ASSUME NEW c \in blocks' PROVE BlockOK(c)'
      <4>1. c \in blocks /\ c # b /\ BlockOK(c) /\ c.at \in Pages
        BY <2>8 DEF SharedInv, TypeInv, BlockInv, Held
      <4>2. CASE c.at = p
        <5>1. End(c) <= offset'[c.at]
          BY <2>7, <2>8, <4>1, <4>2 DEF SharedInv, TypeInv
        <5>. QED BY <2>2, <4>1, <5>1 DEF BlockOK, End
      <4>3. CASE c.at # p
        BY <2>2, <2>8, <4>1, <4>3 DEF BlockOK, SharedInv, TypeInv
      <4>. QED BY <4>2, <4>3
    <3>4. \A c, e \in blocks' : Ordered(c, e)
      BY <2>8 DEF SharedInv, BlockInv
    <3>. QED BY <2>2, <2>3, <3>1, <3>2, <3>3, <3>4 DEF SharedInv, BlockInv, Ordered
  <2>9. CASE /\ reg[t].op = "realloc" /\ b.lo + reg[t].size <= size[p]
             /\ offset' = [offset EXCEPT ![p] = b.lo + reg[t].size]
             /\ blocks' = (blocks \ {b}) \cup {d}
    <3>. HIDE DEF d
    <3>1. TypeInv'
      <4>1. b.lo + reg[t].size \in Nat
        BY <2>4
      <4>2. offset' \in [Pages -> Nat]
        BY <2>9, <4>1 DEF SharedInv, TypeInv
      <4>3. blocks' \subseteq Held
        BY <2>5, <2>9 DEF SharedInv, TypeInv
      <4>. QED BY <1>2, <2>1, <4>2, <4>3, ReturnTypes DEF SharedInv, TypeInv, pages
    <3>2. \A q \in Pages : offset'[q] <= size'[q] /\ offset'[q] % Alignment = 0
      <4>1. (b.lo + reg[t].size) % Alignment = 0
        BY <2>1, <2>4, SumMultiple DEF BlockOK, SharedAssumption
      <4>. QED BY <1>2, <2>6, <2>9, <4>1 DEF SharedInv, TypeInv, pages
    <3>3. ASSUME NEW c \in blocks' PROVE BlockOK(c)'
      <4>1. CASE c = d
        <5>1. End(d) = offset'[p]
          BY <2>1, <2>5, <2>9 DEF End, SharedInv, TypeInv
        <5>2. offset'[p] \in Nat
          BY <2>1, <3>1 DEF TypeInv
        <5>. QED BY <2>1, <2>2, <2>4, <2>5, <4>1, <5>1, <5>2 DEF BlockOK
      <4>2. CASE c \in blocks /\ c # b
        <5>1. BlockOK(c) /\ c.at \in Pages /\ End(c) \in Nat
          BY <4>2 DEF SharedInv, TypeInv, BlockInv, Held, End
        <5>2. CASE c.at = p
          <6>1. End(c) <= offset'[c.at]
            <7>1. offset'[p] = b.lo + reg[t].size
              BY <2>1, <2>9 DEF SharedInv, TypeInv
            <7>2. End(c) <= b.lo
              BY <2>7, <4>2, <5>2
            <7>. QED BY <2>4, <5>1, <5>2, <7>1, <7>2
          <6>. QED BY <2>2, <5>1, <6>1 DEF BlockOK, End
        <5>3. CASE c.at # p
          BY <2>2, <2>9, <5>1, <5>3 DEF BlockOK, SharedInv, TypeInv
        <5>. QED BY <5>2, <5>3
      <4>. QED BY <2>9, <4>1, <4>2
    <3>4. ASSUME NEW c \in blocks', NEW e \in blocks' PROVE Ordered(c, e)
      <4>1. CASE c \in blocks /\ e \in blocks
        BY <4>1 DEF SharedInv, BlockInv
      <4>2. ASSUME NEW f \in blocks, f # b PROVE Ordered(d, f) /\ Ordered(f, d)
        BY <2>5, <2>7, <4>2 DEF Ordered, End
      <4>. QED BY <2>9, <4>1, <4>2 DEF Ordered
    <3>. QED BY <2>2, <2>3, <3>1, <3>2, <3>3, <3>4 DEF SharedInv, BlockInv, Ordered
  <2>. QED BY <1>4, <2>8, <2>9 DEF RollsBack
<1>. QED BY <1>3, <1>4, RollSplits

\* Where a new block begins: padded as it was asked for, and a multiple of the alignment.
LEMMA StartAligned ==
  ASSUME SharedAssumption, SharedInv, NEW t \in Threads, pc[t] = "cas", offset[reg[t].arena] = reg[t].off
  PROVE  LET p == reg[t].arena
             d == Block(p, Start(t), reg[t].size, reg[t].align) IN
           /\ p \in Serving /\ p \in Pages
           /\ Start(t) \in Nat /\ reg[t].off <= Start(t) /\ Start(t) % Alignment = 0
           /\ d \in Held /\ d.at = p /\ d.lo = Start(t) /\ d.size = reg[t].size
           /\ AlignKnown(d.align) /\ (Base(p) + d.lo) % d.align = 0
<1>. DEFINE p == reg[t].arena
            a == reg[t].align
            x == Base(p) + reg[t].off
            m == IF Big(a) THEN a ELSE Alignment
<1>1. /\ p \in Serving /\ p \in Pages /\ reg[t].off \in Nat
      /\ a \in Nat \ {0} /\ AlignKnown(a) /\ reg[t].size \in Nat \ {0}
  <2>1. reg[t] \in Regs /\ CallOK(t)
    BY InCall DEF SharedInv, CallInv
  <2>. QED BY <2>1, InCall, ServingPages DEF SharedInv, CallOK, Regs
<1>2. Alignment \in Nat \ {0} /\ Base(p) \in Nat /\ Base(p) % Alignment = 0 /\ reg[t].off % Alignment = 0
  BY <1>1 DEF SharedAssumption, SharedInv, BlockInv
<1>3. x \in Nat /\ x % Alignment = 0
  <2>1. Base(p) \in Int /\ reg[t].off \in Int
    BY <1>1, <1>2
  <2>. QED BY <1>1, <1>2, <2>1, SumMultiple
<1>4. m \in Nat \ {0} /\ m % Alignment = 0
  <2>1. Alignment % Alignment = 0
    <3>1. Alignment = Alignment * 1
      BY <1>2
    <3>. QED BY <1>2, <3>1, Multiple
  <2>. QED BY <1>1, <1>2, <2>1 DEF Big, AlignKnown
<1>5. /\ Start(t) \in Nat /\ reg[t].off <= Start(t) /\ Base(p) + Start(t) \in Nat
      /\ (Base(p) + Start(t)) % m = 0
  <2>1. CASE Big(a)
    <3>. DEFINE q == (-x) % a
    <3>1. q \in 0 .. a - 1 /\ (x + q) % a = 0
      <4>1. x \in Int /\ a \in Nat \ {0}
        BY <1>1, <1>3
      <4>. HIDE DEF x, a
      <4>. QED BY <4>1, PadMultiple
    <3>2. Start(t) = reg[t].off + q
      BY <2>1 DEF Start, Padding
    <3>. HIDE DEF q
    <3>3. Base(p) + Start(t) = x + q
      BY <1>1, <1>2, <3>1, <3>2
    <3>4. q \in Nat
      BY <1>1, <3>1
    <3>5. (Base(p) + Start(t)) % a = 0
      BY <3>1, <3>3
    <3>6. m = a
      BY <2>1
    <3>. QED BY <1>1, <1>2, <3>2, <3>4, <3>5, <3>6
  <2>2. CASE ~Big(a)
    <3>1. Start(t) = reg[t].off
      BY <1>1, <2>2 DEF Start, Padding
    <3>2. Base(p) + Start(t) = x /\ m = Alignment
      BY <2>2, <3>1
    <3>. QED BY <1>1, <1>3, <3>1, <3>2
  <2>. QED BY <2>1, <2>2
<1>. HIDE DEF m
<1>6. Start(t) % Alignment = 0
  <2>. DEFINE y == Base(p) + Start(t)
  <2>1. y % Alignment = 0
    <3>. HIDE DEF y
    <3>. QED BY <1>2, <1>4, <1>5, MultipleOfMultiple DEF y
  <2>2. y \in Int /\ Start(t) = y - Base(p)
    BY <1>2, <1>5
  <2>. HIDE DEF y
  <2>3. (y - Base(p)) % Alignment = 0
    BY <1>2, <2>1, <2>2, SumMultiple
  <2>. QED BY <2>2, <2>3
<1>7. Block(p, Start(t), reg[t].size, a) = [at |-> p, lo |-> Start(t), size |-> reg[t].size, align |-> m]
  BY DEF Block, m
<1>8. AlignKnown(m)
  BY <1>4 DEF AlignKnown
<1>. QED BY <1>1, <1>4, <1>5, <1>6, <1>7, <1>8 DEF Held

\* What Cas does when the offset has not moved.
Cuts(t) ==
  LET p == reg[t].arena
      d == Block(p, Start(t), reg[t].size, reg[t].align) IN
    /\ Fits(t) /\ offset[p] = reg[t].off
    /\ offset' = [offset EXCEPT ![p] = Start(t) + reg[t].size]
    /\ blocks' = blocks \cup {d}
    /\ \/ Return(t) /\ reg[t].block = None
       \/ /\ Goto(t, "copy") /\ UNCHANGED reg /\ reg[t].block # None
          /\ mutex' = IF mutex = t THEN None ELSE mutex

LEMMA CasSplits ==
  ASSUME NEW t \in Threads, Cas(t)
  PROVE  /\ pc[t] = "cas" /\ UNCHANGED <<pages, calls, resets>>
         /\ \/ /\ reg' = [reg EXCEPT ![t].off = offset[reg[t].arena]]
               /\ UNCHANGED <<offset, pc, mutex, blocks>>
            \/ Cuts(t)
BY DEF Cas, Cuts, At

LEMMA CasInv ==
  ASSUME SharedAssumption, SharedInv, NEW t \in Threads, Cas(t)
  PROVE  SharedInv'
<1>. DEFINE p == reg[t].arena
            d == Block(p, Start(t), reg[t].size, reg[t].align)
<1>1. pc[t] = "cas" /\ CallOK(t) /\ reg[t] \in Regs /\ p \in Serving /\ p \in Pages
  <2>1. pc[t] = "cas" /\ CallOK(t)
    BY CasSplits DEF SharedInv, CallInv
  <2>. QED BY <2>1, InCall, ServingPages DEF SharedInv, CallOK
<1>2. UNCHANGED <<pages, calls, resets>>
  BY CasSplits
<1>3. CASE reg' = [reg EXCEPT ![t].off = offset[p]] /\ UNCHANGED <<offset, pc, mutex, blocks>>
  <2>. DEFINE r == [reg[t] EXCEPT !.off = offset[p]]
  <2>1. r \in Regs /\ r.block = reg[t].block /\ r.arena = p /\ r.op = reg[t].op
        /\ r.size = reg[t].size /\ r.align = reg[t].align
    BY <1>1 DEF Regs, SharedInv, TypeInv
  <2>2. reg' = [reg EXCEPT ![t] = r] /\ pc' = [pc EXCEPT ![t] = "cas"]
    BY <1>1, <1>3 DEF SharedInv, TypeInv
  <2>. HIDE DEF r
  <2>3. reg'[t] = r /\ pc'[t] = "cas" /\ blocks' = blocks /\ Serving' = Serving
    BY <1>2, <1>3, <2>2, StillInv DEF SharedInv, TypeInv
  <2>4. CallOK(t)'
    BY <1>1, <2>1, <2>3 DEF CallOK
  <2>. QED BY <1>2, <1>3, <2>1, <2>2, <2>4, MoveStep DEF PCs, SharedInv, TypeInv
<1>4. CASE Cuts(t)
  <2>1. /\ Start(t) \in Nat /\ reg[t].off <= Start(t) /\ Start(t) % Alignment = 0
        /\ d \in Held /\ d.at = p /\ d.lo = Start(t) /\ d.size = reg[t].size
        /\ AlignKnown(d.align) /\ (Base(p) + d.lo) % d.align = 0
    BY <1>1, <1>4, StartAligned DEF Cuts
  <2>2. /\ offset[p] = reg[t].off /\ Start(t) + reg[t].size <= size[p]
        /\ offset' = [offset EXCEPT ![p] = Start(t) + reg[t].size] /\ blocks' = blocks \cup {d}
    BY <1>4 DEF Cuts, Fits
  <2>. HIDE DEF d
  <2>3. reg[t].size \in Nat \ {0} /\ reg[t].size % Alignment = 0
    BY <1>1, InCall
  <2>4. ListInv' /\ Serving' = Serving
    BY <1>2 DEF SharedInv, ListInv, Serving, pages
  <2>5. /\ Start(t) + reg[t].size \in Nat /\ (Start(t) + reg[t].size) % Alignment = 0
        /\ offset[p] <= Start(t) + reg[t].size
    <3>1. /\ Start(t) \in Int /\ reg[t].size \in Int /\ Alignment \in Nat \ {0}
          /\ Start(t) % Alignment = 0 /\ reg[t].size % Alignment = 0
      BY <2>1, <2>3 DEF SharedAssumption
    <3>2. (Start(t) + reg[t].size) % Alignment = 0
      BY <3>1, SumMultiple
    <3>3. reg[t].off \in Nat
      BY <1>1, <2>2 DEF SharedInv, TypeInv
    <3>. QED BY <2>1, <2>2, <2>3, <3>2, <3>3
  <2>6. /\ offset' \in [Pages -> Nat] /\ offset'[p] = Start(t) + reg[t].size
        /\ \A q \in Pages : offset[q] <= offset'[q]
    BY <1>1, <2>2, <2>5 DEF SharedInv, TypeInv
  <2>7. TypeInv'
    <3>1. mutex' \in Threads \cup {None} /\ pc' \in [Threads -> PCs] /\ reg' \in [Threads -> Regs]
      BY <1>4, ReturnTypes DEF Cuts, Goto, PCs, SharedInv, TypeInv
    <3>. QED BY <1>2, <2>1, <2>2, <2>6, <3>1 DEF SharedInv, TypeInv, pages
  <2>8. \A q \in Pages : offset'[q] <= size'[q] /\ offset'[q] % Alignment = 0
    BY <1>1, <1>2, <2>2, <2>5 DEF SharedInv, TypeInv, BlockInv, pages
  <2>9. ASSUME NEW c \in blocks' PROVE BlockOK(c)'
    <3>1. CASE c = d
      <4>1. End(d) <= offset'[p]
        BY <2>1, <2>3, <2>6 DEF End
      <4>. QED BY <1>1, <2>1, <2>3, <2>4, <3>1, <4>1 DEF BlockOK
    <3>2. CASE c \in blocks
      <4>1. BlockOK(c) /\ c.at \in Pages /\ End(c) \in Nat
        BY <3>2 DEF SharedInv, TypeInv, BlockInv, Held, End
      <4>2. offset[c.at] \in Nat /\ offset'[c.at] \in Nat
        BY <2>6, <4>1 DEF SharedInv, TypeInv
      <4>3. End(c) <= offset'[c.at]
        BY <2>6, <4>1, <4>2 DEF BlockOK
      <4>. QED BY <2>4, <4>1, <4>3 DEF BlockOK, End
    <3>. QED BY <2>2, <3>1, <3>2
  <2>10. ASSUME NEW c \in blocks, c.at = p PROVE End(c) <= d.lo
    <3>1. End(c) <= offset[p] /\ End(c) \in Nat
      BY <2>10 DEF SharedInv, TypeInv, BlockInv, BlockOK, Held, End
    <3>2. offset[p] \in Nat /\ offset[p] <= d.lo /\ d.lo \in Nat
      BY <1>1, <2>1, <2>2 DEF SharedInv, TypeInv
    <3>. QED BY <3>1, <3>2
  <2>11. ASSUME NEW c \in blocks', NEW e \in blocks' PROVE Ordered(c, e)
    <3>1. CASE c \in blocks /\ e \in blocks
      BY <3>1 DEF SharedInv, BlockInv
    <3>2. ASSUME NEW f \in blocks PROVE Ordered(d, f) /\ Ordered(f, d)
      BY <2>1, <2>10, <3>2 DEF Ordered
    <3>. QED BY <2>2, <3>1, <3>2 DEF Ordered
  <2>12. CallInv'
    <3>1. \A q \in Serving : size'[q] = size[q]
      BY <1>2 DEF pages
    <3>2. CASE Return(t)
      BY <2>2, <2>4, <3>1, <3>2, ReturnCall DEF SharedInv
    <3>3. CASE Goto(t, "copy") /\ UNCHANGED reg /\ reg[t].block # None
      <4>1. /\ pc' = [pc EXCEPT ![t] = "copy"] /\ pc'[t] = "copy"
            /\ reg' = [reg EXCEPT ![t] = reg[t]] /\ reg'[t] = reg[t]
        BY <3>3 DEF Goto, SharedInv, TypeInv
      <4>2. CallOK(t)'
        BY <1>1, <2>2, <3>3, <4>1 DEF CallOK
      <4>. QED BY <2>2, <2>4, <3>1, <4>1, <4>2, CallStep DEF SharedInv
    <3>. QED BY <1>4, <3>2, <3>3 DEF Cuts
  <2>. QED BY <2>4, <2>7, <2>8, <2>9, <2>11, <2>12 DEF SharedInv, BlockInv, Ordered
<1>. QED BY <1>3, <1>4, CasSplits

\* What Install does to the lists, whichever page it finds.
Installs(t, p) ==
  /\ p \in Pages /\ p \notin Serving /\ p \notin Members(available')
  /\ available' \in Seq(Pages) /\ Once(available') /\ Members(available') \subseteq Members(available)
  /\ size' \in [Pages -> Nat] /\ \A q \in Pages : q # p => size'[q] = size[q]
  /\ offset' = [offset EXCEPT ![p] = 0]
  /\ \/ /\ list' = <<p>> \o list /\ current' = p /\ UNCHANGED large
        /\ size'[p] = DefaultSize
     \/ large' = <<p>> \o large /\ UNCHANGED <<list, current>>
  /\ reg' = [reg EXCEPT ![t].arena = p, ![t].stage = "own"]
  /\ Goto(t, "load")
  /\ UNCHANGED <<mutex, blocks, calls, resets>>

LEMMA InstallSplits ==
  ASSUME SharedAssumption, SharedInv, NEW t \in Threads, Install(t)
  PROVE  \E p \in Pages : Installs(t, p)
<1>1. PICK p \in Pages :
       /\ \/ /\ Reserved(t) <= DefaultSize
             /\ available # <<>> /\ size[available[1]] >= Reserved(t)
             /\ p = available[1]
             /\ available' = Tail(available)
             /\ UNCHANGED size
          \/ /\ ~(Reserved(t) <= DefaultSize /\ available # <<>> /\ size[available[1]] >= Reserved(t))
             /\ p \notin InUse
             /\ size' = [size EXCEPT ![p] = IF Reserved(t) > DefaultSize THEN Reserved(t) ELSE DefaultSize]
             /\ UNCHANGED available
       /\ offset' = [offset EXCEPT ![p] = 0]
       /\ IF Reserved(t) <= DefaultSize
            THEN list' = <<p>> \o list /\ current' = p /\ UNCHANGED large
            ELSE large' = <<p>> \o large /\ UNCHANGED <<list, current>>
       /\ reg' = [reg EXCEPT ![t].arena = p, ![t].stage = "own"]
  BY DEF Install
<1>2. Goto(t, "load") /\ UNCHANGED <<mutex, blocks, calls, resets>>
  BY DEF Install
<1>3. Reserved(t) \in Nat /\ DefaultSize \in Nat
  <2>1. pc[t] = "install"
    BY DEF Install, At
  <2>. QED BY <2>1, InCall DEF Reserved, SharedAssumption
<1>4. CASE /\ Reserved(t) <= DefaultSize /\ available # <<>> /\ p = available[1]
           /\ available' = Tail(available) /\ UNCHANGED size
  <2>1. /\ p \in Members(available) /\ p \notin Members(available') /\ available' \in Seq(Pages)
        /\ Once(available') /\ Members(available') \subseteq Members(available)
    BY <1>4, MembersTail DEF SharedInv, TypeInv, ListInv
  <2>2. p \notin Serving /\ size'[p] = DefaultSize /\ size' \in [Pages -> Nat]
    BY <1>4, <2>1 DEF SharedInv, TypeInv, ListInv
  <2>. QED BY <1>1, <1>2, <1>4, <2>1, <2>2 DEF Installs
<1>5. CASE /\ p \notin InUse /\ UNCHANGED available
           /\ size' = [size EXCEPT ![p] = IF Reserved(t) > DefaultSize THEN Reserved(t) ELSE DefaultSize]
  <2>1. p \notin Serving /\ p \notin Members(available')
    BY <1>5 DEF InUse, Serving, Members
  <2>2. /\ size' \in [Pages -> Nat] /\ \A q \in Pages : q # p => size'[q] = size[q]
        /\ Reserved(t) <= DefaultSize => size'[p] = DefaultSize
    BY <1>3, <1>5 DEF SharedInv, TypeInv
  <2>. QED BY <1>1, <1>2, <1>5, <2>1, <2>2 DEF Installs, SharedInv, TypeInv, ListInv
<1>. QED BY <1>1, <1>4, <1>5

LEMMA InstallInv ==
  ASSUME SharedAssumption, SharedInv, NEW t \in Threads, Install(t)
  PROVE  SharedInv'
<1>1. PICK p \in Pages : Installs(t, p)
  BY InstallSplits
<1>2. pc[t] = "install" /\ CallOK(t) /\ reg[t] \in Regs
  BY InCall DEF Install, At, SharedInv, CallInv
<1>3. ListInv' /\ Serving' = Serving \cup {p} /\ list' \in Seq(Pages) /\ large' \in Seq(Pages)
      /\ current' \in Pages \cup {None}
  <2>1. Serving \subseteq Pages /\ Members(list) \subseteq Serving /\ Members(available) \cap Serving = {}
    BY ServingPages DEF SharedInv, ListInv, Serving
  <2>2. \A q \in Members(list) \cup Members(available') : size'[q] = DefaultSize
    <3>1. Members(available) \subseteq Pages
      BY ElementOfSeq, LenProperties DEF Members, SharedInv, TypeInv
    <3>. QED BY <1>1, <2>1, <3>1 DEF Installs, SharedInv, ListInv
  <2>5. /\ p \in Pages /\ p \notin Members(list) /\ p \notin Members(large) /\ p \notin Members(available')
        /\ Members(available') \subseteq Members(available) /\ Once(available')
        /\ Members(list) \cap Members(large) = {} /\ Once(list) /\ Once(large)
    BY <1>1 DEF Installs, SharedInv, ListInv, Serving
  <2>3. CASE list' = <<p>> \o list /\ current' = p /\ UNCHANGED large /\ size'[p] = DefaultSize
    <3>1. /\ list' \in Seq(Pages) /\ list' # <<>> /\ list'[1] = p /\ Members(list') = {p} \cup Members(list)
          /\ Once(list')
      BY <1>1, <2>1, <2>3, MembersCons DEF Installs, SharedInv, TypeInv, ListInv
    <3>2. Serving' = Serving \cup {p}
      BY <2>3, <3>1 DEF Serving
    <3>3. Members(list') \cap Members(large') = {}
      BY <2>3, <2>5, <3>1
    <3>4. Serving' \cap Members(available') = {}
      BY <2>1, <2>5, <3>2
    <3>5. \A q \in Members(list') \cup Members(available') : size'[q] = DefaultSize
      BY <2>2, <2>3, <3>1
    <3>6. current' = IF list' = <<>> THEN None ELSE list'[1]
      BY <2>3, <3>1
    <3>. QED BY <2>3, <2>5, <3>1, <3>2, <3>3, <3>4, <3>5, <3>6 DEF ListInv, SharedInv, TypeInv
  <2>4. CASE large' = <<p>> \o large /\ UNCHANGED <<list, current>>
    <3>1. large' \in Seq(Pages) /\ Members(large') = {p} \cup Members(large) /\ Once(large')
      BY <1>1, <2>1, <2>4, MembersCons DEF Installs, SharedInv, TypeInv, ListInv, Serving
    <3>2. Serving' = Serving \cup {p}
      BY <2>4, <3>1 DEF Serving
    <3>3. Members(list') \cap Members(large') = {}
      BY <2>4, <2>5, <3>1
    <3>4. Serving' \cap Members(available') = {}
      BY <2>1, <2>5, <3>2
    <3>5. \A q \in Members(list') \cup Members(available') : size'[q] = DefaultSize
      BY <2>2, <2>4
    <3>6. current' = IF list' = <<>> THEN None ELSE list'[1]
      BY <2>4 DEF SharedInv, ListInv
    <3>. QED BY <2>4, <2>5, <3>1, <3>2, <3>3, <3>4, <3>5, <3>6 DEF ListInv, SharedInv, TypeInv
  <2>. QED BY <1>1, <2>3, <2>4 DEF Installs
<1>. DEFINE r == [reg[t] EXCEPT !.arena = p, !.stage = "own"]
<1>4. r \in Regs /\ r.block = reg[t].block /\ r.arena = p /\ r.op = reg[t].op
      /\ r.size = reg[t].size /\ r.align = reg[t].align
  BY <1>2 DEF Regs
<1>5. reg' = [reg EXCEPT ![t] = r] /\ pc' = [pc EXCEPT ![t] = "load"] /\ blocks' = blocks
  BY <1>1 DEF Installs, Goto
<1>. HIDE DEF r
<1>6. TypeInv'
  BY <1>1, <1>3, <1>4, <1>5 DEF Installs, SharedInv, TypeInv, PCs
<1>7. BlockInv'
  <2>1. 0 % Alignment = 0
    <3>1. Alignment \in Nat \ {0} /\ 0 = Alignment * 0
      BY DEF SharedAssumption
    <3>. QED BY <3>1, Multiple
  <2>2. \A q \in Pages : offset'[q] <= size'[q] /\ offset'[q] % Alignment = 0
    BY <1>1, <2>1 DEF Installs, SharedInv, TypeInv, BlockInv
  <2>3. \A b \in blocks : BlockOK(b)'
    <3>1. SUFFICES ASSUME NEW b \in blocks PROVE BlockOK(b)'
      OBVIOUS
    <3>2. BlockOK(b) /\ b.at # p /\ b.at \in Pages
      BY <1>1 DEF Installs, SharedInv, TypeInv, BlockInv, BlockOK, Held
    <3>. QED BY <1>1, <1>3, <3>2 DEF Installs, BlockOK, End, SharedInv, TypeInv
  <2>. QED BY <1>5, <2>2, <2>3 DEF SharedInv, BlockInv, Ordered
<1>8. CallInv'
  <2>1. reg'[t] = r /\ pc'[t] = "load"
    BY <1>5 DEF SharedInv, TypeInv
  <2>2. CallOK(t)'
    BY <1>2, <1>3, <1>4, <1>5, <2>1 DEF CallOK
  <2>3. \A q \in Serving : size'[q] = size[q]
    BY <1>1, ServingPages DEF Installs, SharedInv
  <2>. QED BY <1>3, <1>4, <1>5, <2>2, <2>3, CallStep DEF SharedInv
<1>. QED BY <1>3, <1>6, <1>7, <1>8 DEF SharedInv

-----------------------------------------------------------------------------
(* reset and release.                                                      *)

LEMMA ResetPagesInv ==
  ASSUME SharedAssumption, SharedInv, ResetPages,
         available' \in Seq(Pages), Once(available'),
         \A p \in Members(available') : size[p] = DefaultSize,
         offset' \in [Pages -> Nat], \A p \in Pages : offset'[p] = 0 \/ offset'[p] = offset[p]
  PROVE  SharedInv'
<1>1. /\ \A t \in Threads : pc[t] = "idle"
      /\ current' = None /\ list' = <<>> /\ large' = <<>> /\ blocks' = {}
      /\ resets < ResetBound /\ resets' = resets + 1
      /\ UNCHANGED <<size, mutex, pc, reg, calls>>
  BY DEF ResetPages, At
<1>2. TypeInv'
  <2>1. <<>> \in Seq(Pages)
    BY EmptySeq
  <2>2. resets' \in 0 .. ResetBound
    BY <1>1 DEF SharedAssumption, SharedInv, TypeInv
  <2>. QED BY <1>1, <2>1, <2>2 DEF SharedInv, TypeInv
<1>3. ListInv'
  BY <1>1 DEF ListInv, Serving, Members, Once
<1>4. BlockInv'
  <2>1. 0 % Alignment = 0
    <3>1. Alignment \in Nat \ {0} /\ 0 = Alignment * 0
      BY DEF SharedAssumption
    <3>. QED BY <3>1, Multiple
  <2>2. ASSUME NEW p \in Pages PROVE offset'[p] <= size'[p] /\ offset'[p] % Alignment = 0
    <3>1. size'[p] \in Nat /\ offset[p] <= size'[p] /\ offset[p] % Alignment = 0
      BY <1>1 DEF SharedInv, TypeInv, BlockInv
    <3>2. CASE offset'[p] = 0
      BY <2>1, <3>1, <3>2
    <3>3. CASE offset'[p] = offset[p]
      BY <3>1, <3>3
    <3>. QED BY <3>2, <3>3
  <2>. QED BY <1>1, <2>2 DEF BlockInv
<1>5. CallInv'
  BY <1>1 DEF SharedInv, CallInv, CallOK, OwnBlock
<1>. QED BY <1>2, <1>3, <1>4, <1>5 DEF SharedInv

LEMMA ResetInv ==
  ASSUME SharedAssumption, SharedInv, Reset
  PROVE  SharedInv'
<1>1. /\ ResetPages /\ available' = list \o available
      /\ offset' = [p \in Pages |-> IF \E n \in DOMAIN available : available[n] = p THEN 0 ELSE offset[p]]
  BY DEF Reset
<1>2. /\ available' \in Seq(Pages) /\ Members(available') = Members(list) \cup Members(available)
      /\ Once(available')
  BY <1>1, MembersConcat DEF SharedInv, TypeInv, ListInv, Serving
<1>3. \A p \in Members(available') : size[p] = DefaultSize
  BY <1>2 DEF SharedInv, ListInv
<1>4. offset' \in [Pages -> Nat] /\ \A p \in Pages : offset'[p] = 0 \/ offset'[p] = offset[p]
  BY <1>1 DEF SharedInv, TypeInv
<1>. QED BY <1>1, <1>2, <1>3, <1>4, ResetPagesInv

LEMMA ReleaseInv ==
  ASSUME SharedAssumption, SharedInv, Release
  PROVE  SharedInv'
<1>1. ResetPages /\ available' = <<>> /\ offset' = offset
  BY DEF Release
<1>2. available' \in Seq(Pages) /\ Once(available') /\ Members(available') = {}
  BY <1>1, EmptySeq DEF Once, Members
<1>. QED BY <1>1, <1>2, ResetPagesInv DEF SharedInv, TypeInv

LEMMA NextInv ==
  ASSUME SharedAssumption, SharedInv, [Next]_vars
  PROVE  SharedInv'
<1>1. ASSUME NEW t \in Threads, Step(t) PROVE SharedInv'
  BY <1>1, AllocateInv, DeallocateInv, ReallocInv, CompareInv, RollInv, LoadInv, CasInv, FullInv,
     SlowPathInv, InstallInv, CopyInv DEF Step
<1>2. CASE UNCHANGED vars
  <2>1. UNCHANGED <<pages, offset, blocks, mutex, pc, reg, calls, resets>>
    BY <1>2 DEF vars, pages
  <2>2. ListInv' /\ BlockInv' /\ Serving' = Serving
    BY <2>1, StillInv DEF SharedInv
  <2>3. TypeInv'
    BY <2>1 DEF SharedInv, TypeInv, pages
  <2>4. CallInv'
    BY <2>1, <2>2 DEF SharedInv, CallInv, CallOK, OwnBlock, pages
  <2>. QED BY <2>2, <2>3, <2>4 DEF SharedInv
<1>. QED BY <1>1, <1>2, ResetInv, ReleaseInv DEF Next

-----------------------------------------------------------------------------
(* The theorems.                                                           *)

\* The inductive invariant: where each page is, that the blocks of a page lie one behind the
\* other below its offset, and what each call knows of the page and the block it works on.
THEOREM SharedCorrect == SharedAssumption /\ Spec => []SharedInv
<1>. SUFFICES ASSUME SharedAssumption PROVE Spec => []SharedInv
  OBVIOUS
<1>1. Init => SharedInv
  BY InitInv
<1>2. SharedInv /\ [Next]_vars => SharedInv'
  BY NextInv
<1>. QED BY <1>1, <1>2, PTL DEF Spec

\* Every offset is within its page, and every block lies in a page that is in use below its
\* offset.
THEOREM TypeTheorem == SharedAssumption /\ Spec => []TypeOK
<1>1. SharedInv => TypeOK
  <2>1. SUFFICES ASSUME SharedInv PROVE TypeOK
    OBVIOUS
  <2>2. \A p \in Pages : size[p] \in Nat /\ offset[p] \in 0 .. size[p]
    BY <2>1 DEF SharedInv, TypeInv, BlockInv
  <2>3. \A b \in blocks : b.at \in InUse /\ End(b) <= offset[b.at]
    BY <2>1 DEF SharedInv, BlockInv, BlockOK, Serving, Members, InUse
  <2>. QED BY <2>1, <2>2, <2>3 DEF TypeOK, SharedInv, TypeInv
<1>. QED BY <1>1, SharedCorrect, PTL

LEMMA PlacesOnce ==
  ASSUME NEW s \in Seq(Pages), Once(s), NEW p
  PROVE  /\ Cardinality(PlacesIn(s, p)) \in {0, 1}
         /\ p \notin Members(s) => Cardinality(PlacesIn(s, p)) = 0
<1>1. PlacesIn(s, p) = {} => Cardinality(PlacesIn(s, p)) = 0
  BY FS_EmptySet
<1>2. \A i \in PlacesIn(s, p) : Cardinality(PlacesIn(s, p)) = 1
  <2>1. SUFFICES ASSUME NEW i \in PlacesIn(s, p) PROVE Cardinality(PlacesIn(s, p)) = 1
    OBVIOUS
  <2>2. PlacesIn(s, p) = {i}
    BY DEF PlacesIn, Once
  <2>. QED BY <2>2, FS_Singleton
<1>3. p \notin Members(s) => PlacesIn(s, p) = {}
  BY DEF PlacesIn, Members
<1>. QED BY <1>1, <1>2, <1>3

\* A page is in one list, at one place: a page that blocks were cut from is not handed out
\* again as a fresh one, and the threads allocate from the newest page of the list.
THEOREM PagesTheorem == SharedAssumption /\ Spec => []PagesOnce
<1>1. SharedInv => PagesOnce
  <2>1. SUFFICES ASSUME SharedInv PROVE PagesOnce
    OBVIOUS
  <2>2. ASSUME NEW p \in Pages
        PROVE  Cardinality(PlacesIn(list, p)) + Cardinality(PlacesIn(large, p))
                 + Cardinality(PlacesIn(available, p)) <= 1
    <3>1. /\ Cardinality(PlacesIn(list, p)) \in {0, 1} /\ Cardinality(PlacesIn(large, p)) \in {0, 1}
          /\ Cardinality(PlacesIn(available, p)) \in {0, 1}
          /\ p \notin Members(list) => Cardinality(PlacesIn(list, p)) = 0
          /\ p \notin Members(large) => Cardinality(PlacesIn(large, p)) = 0
          /\ p \notin Members(available) => Cardinality(PlacesIn(available, p)) = 0
      BY <2>1, PlacesOnce DEF SharedInv, TypeInv, ListInv
    <3>2. \/ p \notin Members(list) /\ p \notin Members(large)
          \/ p \notin Members(list) /\ p \notin Members(available)
          \/ p \notin Members(large) /\ p \notin Members(available)
      BY <2>1 DEF SharedInv, ListInv, Serving
    <3>. QED BY <3>1, <3>2
  <2>. QED BY <2>1, <2>2 DEF PagesOnce, SharedInv, ListInv
<1>. QED BY <1>1, SharedCorrect, PTL

-----------------------------------------------------------------------------
(* Heap.                                                                   *)

LEMMA ApartWhenOrdered ==
  ASSUME NEW b \in Held, NEW c \in Held,
         b.at = c.at => End(b) <= c.lo \/ End(c) <= b.lo
  PROVE  H!Bytes(b) \cap H!Bytes(c) = {}
<1>1. SUFFICES ASSUME NEW i \in b.lo .. (b.lo + b.size - 1), NEW j \in c.lo .. (c.lo + c.size - 1),
                      b.at = c.at, i = j
               PROVE  FALSE
  BY DEF H!Bytes
<1>2. b.lo \in Nat /\ c.lo \in Nat /\ b.size \in Nat /\ c.size \in Nat
  BY DEF Held
<1>. QED BY <1>1, <1>2 DEF End

\* Every step allocates, frees or resizes one block, forgets all of them, or leaves them alone.
LEMMA StepRefines ==
  ASSUME SharedAssumption, SharedInv, [Next]_vars
  PROVE  [H!Next]_blocks
<1>1. ASSUME NEW t \in Threads, Cas(t), Cuts(t) PROVE H!Allocate
  <2>. DEFINE p == reg[t].arena
              d == Block(p, Start(t), reg[t].size, reg[t].align)
  <2>1. /\ p \in Pages /\ d \in Held /\ d.at = p /\ d.lo = Start(t)
        /\ d.size = reg[t].size /\ reg[t].size \in Nat \ {0} /\ Start(t) \in Nat
        /\ reg[t].off <= Start(t) /\ (Base(p) + d.lo) % d.align = 0
    <3>1. pc[t] = "cas" /\ offset[p] = reg[t].off
      BY <1>1, CasSplits DEF Cuts
    <3>. QED BY <3>1, StartAligned, InCall
  <2>2. blocks' = blocks \cup {d} /\ offset[p] = reg[t].off /\ offset[p] \in Nat
    BY <1>1, <2>1 DEF Cuts, SharedInv, TypeInv
  <2>. HIDE DEF d
  <2>3. ASSUME NEW c \in blocks PROVE c # d /\ H!Bytes(d) \cap H!Bytes(c) = {}
    <3>1. c \in Held /\ End(c) <= offset[c.at] /\ c.lo \in Nat /\ c.size \in Nat \ {0}
      BY DEF SharedInv, TypeInv, BlockInv, BlockOK, Held
    <3>2. c.at = d.at => End(c) <= d.lo /\ End(c) = c.lo + c.size
      BY <2>1, <2>2, <3>1 DEF End
    <3>3. c # d
      BY <2>1, <3>1, <3>2
    <3>. QED BY <2>1, <3>1, <3>2, <3>3, ApartWhenOrdered
  <2>4. d \in blocks' \ blocks
    BY <2>2, <2>3
  <2>. QED BY <2>1, <2>2, <2>3, <2>4 DEF H!Allocate, H!Aligned, H!Apart
<1>2. ASSUME NEW t \in Threads, pc[t] # "idle", reg[t].block # None, blocks' = blocks \ {reg[t].block}
      PROVE  H!Free
  BY <1>2, InCall DEF H!Free
<1>3. ASSUME NEW t \in Threads, Compare(t), UNCHANGED blocks \/ blocks' = blocks \ {reg[t].block}
      PROVE  [H!Next]_blocks
  <2>1. pc[t] = "head" /\ CallOK(t)
    BY <1>3 DEF Compare, At, SharedInv, CallInv
  <2>2. reg[t].block # None
    BY <2>1, InCall DEF CallOK
  <2>. QED BY <1>2, <1>3, <2>1, <2>2 DEF H!Next
<1>4. ASSUME NEW t \in Threads, Copy(t) PROVE H!Free
  <2>1. pc[t] = "copy" /\ CallOK(t) /\ blocks' = blocks \ {reg[t].block}
    BY <1>4 DEF Copy, At, SharedInv, CallInv
  <2>2. reg[t].block # None
    BY <2>1, InCall DEF CallOK
  <2>. QED BY <1>2, <2>1, <2>2
<1>5. ASSUME NEW t \in Threads, Roll(t), RollsBack(t) PROVE H!Free \/ H!Resize
  <2>. DEFINE p == reg[t].arena
              b == reg[t].block
              d == [b EXCEPT !.size = reg[t].size]
  <2>1. /\ b \in blocks /\ b \in Held /\ BlockOK(b) /\ b.at = p /\ End(b) = offset[p]
        /\ reg[t].size \in Nat \ {0}
    <3>1. pc[t] = "roll"
      BY <1>5 DEF Roll, At
    <3>. QED BY <1>5, <3>1, InCall DEF RollsBack, SharedInv, TypeInv, BlockInv
  <2>2. CASE blocks' = blocks \ {b}
    BY <2>1, <2>2 DEF H!Free
  <2>3. CASE blocks' = (blocks \ {b}) \cup {d}
    <3>1. d \in Held /\ d.at = b.at /\ d.lo = b.lo /\ d.align = b.align
      BY <2>1 DEF Held
    <3>. HIDE DEF d
    <3>2. ASSUME NEW c \in blocks \ {b} PROVE H!Bytes(d) \cap H!Bytes(c) = {}
      <4>1. c \in Held /\ (c.at = b.at => End(c) <= b.lo)
        BY <2>1, LastBlock DEF SharedInv, TypeInv
      <4>. QED BY <3>1, <4>1, ApartWhenOrdered
    <3>3. (Base(d.at) + d.lo) % d.align = 0
      BY <2>1, <3>1 DEF BlockOK
    <3>4. d \in blocks'
      BY <2>3
    <3>. QED BY <2>1, <2>3, <3>1, <3>2, <3>3, <3>4 DEF H!Resize, H!Aligned, H!Apart
  <2>. QED BY <1>5, <2>2, <2>3 DEF RollsBack
<1>6. ASSUME NEW t \in Threads, Step(t) PROVE [H!Next]_blocks
  <2>1. CASE Cas(t)
    BY <1>1, <2>1, CasSplits DEF H!Next
  <2>2. CASE Roll(t)
    BY <1>5, <2>2, RollSplits DEF H!Next
  <2>3. CASE Compare(t)
    BY <1>3, <2>3 DEF Compare
  <2>4. CASE Copy(t)
    BY <1>4, <2>4 DEF H!Next
  <2>5. CASE \/ Allocate(t) \/ Deallocate(t) \/ Realloc(t) \/ Load(t) \/ Full(t) \/ SlowPath(t)
             \/ Install(t)
    BY <2>5 DEF Allocate, Deallocate, Realloc, Call, Load, Full, SlowPath, Install
  <2>. QED BY <1>6, <2>1, <2>2, <2>3, <2>4, <2>5 DEF Step
<1>7. ASSUME Reset \/ Release PROVE H!Reset
  BY <1>7 DEF Reset, Release, ResetPages, H!Reset
<1>8. CASE UNCHANGED vars
  BY <1>8 DEF vars
<1>. QED BY <1>6, <1>7, <1>8 DEF Next, H!Next

\* The blocks that clients hold are those of a Heap: a new block lies apart from all others and is
\* aligned as it was asked for; a block that is resized in place stays apart from the others;
\* whichever threads allocate, give back and resize at the same time.
THEOREM ImplementsTheorem == SharedAssumption /\ Spec => Implements
<1>. SUFFICES ASSUME SharedAssumption PROVE Spec => Implements
  OBVIOUS
<1>1. Init => H!Init
  BY DEF Init, H!Init
<1>2. SharedInv /\ [Next]_vars => [H!Next]_blocks
  BY StepRefines
<1>. QED BY <1>1, <1>2, SharedCorrect, PTL DEF Spec, Implements, H!Spec

=============================================================================
