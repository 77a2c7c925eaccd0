----------------------------- MODULE SharedLinear -----------------------------
(***************************************************************************)
(* ouly::ts_shared_linear_allocator: threads bump the offset of a shared   *)
(* page; who finds it full installs another one under the mutex.           *)
(*                                                                         *)
(* Every access to current_page_ and to an offset_ is a step; what is done *)
(* under the mutex and not visible outside belongs to the step that makes  *)
(* it visible.  The weak compare-exchange may fail for no reason.          *)
(***************************************************************************)
EXTENDS Integers, Sequences, FiniteSets

CONSTANTS
  Threads,
  Pages,       \* the memory ::operator new may return
  Base(_),     \* the address of data_ in a page: a multiple of Alignment
  Alignment,   \* alignment
  DefaultSize, \* default_page_size_
  Sizes,       \* the sizes clients ask for, not 0
  Aligns,      \* the alignments they ask for
  CallBound,   \* bound: how many calls are made
  ResetBound,  \* bound: how many resets
  None

SharedAssumption ==
  /\ Alignment \in Nat \ {0}
  /\ \A p \in Pages : Base(p) \in Nat /\ Base(p) % Alignment = 0
  /\ DefaultSize \in Nat /\ Sizes \subseteq Nat \ {0} /\ Aligns \subseteq Nat \ {0}
  \* Powers of two: the larger one is a multiple of the other.
  /\ \A a \in Aligns : a > Alignment => a % Alignment = 0
  /\ CallBound \in Nat /\ ResetBound \in Nat
  /\ None \notin Pages \cup Threads
  /\ None \notin [at : Pages, lo : Nat, size : Nat, align : Nat]

VARIABLES
  size, offset,     \* of each page
  current,          \* current_page_
  list,             \* page_list_head_ ... page_list_tail_
  large,            \* pages_to_free_
  available,        \* available_pages_
  mutex,            \* the holder of page_mutex_
  pc, reg,          \* where each thread is, and its locals
  blocks,           \* the blocks clients hold
  calls, resets

pages == <<size, current, list, large, available>>
vars == <<size, offset, current, list, large, available, mutex, pc, reg, blocks, calls, resets>>

NoReg == [op |-> None, size |-> 0, align |-> 1, block |-> None, arena |-> None, off |-> 0, stage |-> "fast"]

Init ==
  /\ size = [p \in Pages |-> 0] /\ offset = [p \in Pages |-> 0]
  /\ current = None
  /\ list = <<>> /\ large = <<>> /\ available = <<>>
  /\ mutex = None
  /\ pc = [t \in Threads |-> "idle"] /\ reg = [t \in Threads |-> NoReg]
  /\ blocks = {}
  /\ calls = 0 /\ resets = 0

At(t, l)   == pc[t] = l
Goto(t, l) == pc' = [pc EXCEPT ![t] = l]
AlignUp(n) == ((n + Alignment - 1) \div Alignment) * Alignment
Big(a)     == a > Alignment
Padding(p, off, a) == IF Big(a) THEN (-(Base(p) + off)) % a ELSE 0
Block(p, lo, n, a) == [at |-> p, lo |-> lo, size |-> n, align |-> IF Big(a) THEN a ELSE Alignment]
End(b)     == b.lo + b.size
Busy       == {reg[t].block : t \in Threads}
InUse      == {list[n] : n \in DOMAIN list} \cup {large[n] : n \in DOMAIN large}
                \cup {available[n] : n \in DOMAIN available}

\* The call is over; who came by the slow path gives the mutex back.
Return(t) == /\ Goto(t, "idle")
             /\ reg' = [reg EXCEPT ![t] = NoReg]
             /\ mutex' = IF mutex = t THEN None ELSE mutex

-----------------------------------------------------------------------------
(* The calls.  Each begins with the load of current_page_.                 *)

Call(t, o, n, a, b) ==
  /\ At(t, "idle")
  /\ calls < CallBound
  /\ calls' = calls + 1
  /\ reg' = [reg EXCEPT ![t] = [op |-> o, size |-> AlignUp(n), align |-> a, block |-> b,
                                arena |-> current, off |-> 0, stage |-> "fast"]]
  /\ UNCHANGED <<pages, offset, mutex, blocks, resets>>

Allocate(t) == \E n \in Sizes, a \in Aligns :
                 /\ Call(t, "allocate", n, a, None)
                 /\ Goto(t, IF current = None THEN "lock" ELSE "load")

\* A block may be given back or resized by any thread.
Deallocate(t) == \E b \in blocks \ Busy :
                   /\ Call(t, "deallocate", b.size, b.align, b)
                   /\ Goto(t, "head")
Realloc(t) == \E b \in blocks \ Busy, n \in Sizes :
                /\ Call(t, "realloc", n, b.align, b)
                /\ Goto(t, "head")

\* The block is the last one of the current page, or it stays where it is: it is lost until
\* the next reset, or another one is allocated and it is copied there.
Compare(t) ==
  /\ At(t, "head")
  /\ LET p == reg[t].arena
         b == reg[t].block
     IN \/ /\ b.at = p /\ End(b) = offset[p]
           /\ reg[t].op = "realloc" => b.lo + reg[t].size <= size[p]
           /\ reg' = [reg EXCEPT ![t].off = offset[p]]
           /\ Goto(t, "roll")
           /\ UNCHANGED <<mutex, blocks>>
        \/ /\ ~(b.at = p /\ End(b) = offset[p])
           /\ reg[t].op = "deallocate"
           /\ Return(t)
           /\ blocks' = blocks \ {b}
        \/ /\ reg[t].op = "realloc"
           /\ ~(b.at = p /\ End(b) = offset[p] /\ b.lo + reg[t].size <= size[p])
           /\ reg' = [reg EXCEPT ![t].arena = current]
           /\ Goto(t, IF current = None THEN "lock" ELSE "load")
           /\ UNCHANGED <<mutex, blocks>>
  /\ UNCHANGED <<pages, offset, calls, resets>>

\* The head is rolled back, or to the new end of the block.
Roll(t) ==
  /\ At(t, "roll")
  /\ LET p == reg[t].arena
         b == reg[t].block
     IN \/ /\ Goto(t, "head")
           /\ UNCHANGED <<offset, mutex, reg, blocks>>
        \/ /\ offset[p] = reg[t].off
           /\ IF reg[t].op = "deallocate"
                THEN /\ offset' = [offset EXCEPT ![p] = b.lo]
                     /\ blocks' = blocks \ {b}
                ELSE /\ offset' = [offset EXCEPT ![p] = b.lo + reg[t].size]
                     /\ blocks' = (blocks \ {b}) \cup {[b EXCEPT !.size = reg[t].size]}
           /\ Return(t)
  /\ UNCHANGED <<pages, calls, resets>>

-----------------------------------------------------------------------------
(* Allocation, from the page that is in reg.arena.                         *)

Load(t) ==
  /\ At(t, "load")
  /\ reg' = [reg EXCEPT ![t].off = offset[reg[t].arena]]
  /\ Goto(t, "cas")
  /\ UNCHANGED <<pages, offset, mutex, blocks, calls, resets>>

Start(t) == reg[t].off + Padding(reg[t].arena, reg[t].off, reg[t].align)
Fits(t)  == Start(t) + reg[t].size <= size[reg[t].arena]

\* Mutant of Cas: the new offset is stored without comparing the old one.
CasBlind(t) ==
  /\ At(t, "cas") /\ Fits(t)
  /\ LET p == reg[t].arena IN
       /\ offset' = [offset EXCEPT ![p] = Start(t) + reg[t].size]
       /\ blocks' = blocks \cup {Block(p, Start(t), reg[t].size, reg[t].align)}
       /\ IF reg[t].block = None
            THEN Return(t)
            ELSE /\ Goto(t, "copy")
                 /\ mutex' = IF mutex = t THEN None ELSE mutex
                 /\ UNCHANGED reg
  /\ UNCHANGED <<pages, calls, resets>>

\* A failed compare-exchange loads the offset again.
Cas(t) ==
  /\ At(t, "cas") /\ Fits(t)
  /\ LET p == reg[t].arena IN
       \/ /\ reg' = [reg EXCEPT ![t].off = offset[p]]
          /\ UNCHANGED <<offset, pc, mutex, blocks>>
       \/ /\ offset[p] = reg[t].off
          /\ offset' = [offset EXCEPT ![p] = Start(t) + reg[t].size]
          /\ blocks' = blocks \cup {Block(p, Start(t), reg[t].size, reg[t].align)}
          /\ IF reg[t].block = None
               THEN Return(t)
               ELSE /\ Goto(t, "copy")
                    /\ mutex' = IF mutex = t THEN None ELSE mutex
                    /\ UNCHANGED reg
  /\ UNCHANGED <<pages, calls, resets>>

\* The page is full.  The third time it is the page that was installed for this call.
Full(t) ==
  /\ At(t, "cas") /\ ~Fits(t)
  /\ \/ reg[t].stage = "fast" /\ Goto(t, "lock") /\ UNCHANGED <<mutex, reg>>
     \/ reg[t].stage = "again" /\ Goto(t, "install") /\ UNCHANGED <<mutex, reg>>
     \/ reg[t].stage = "own" /\ Return(t)
  /\ UNCHANGED <<pages, offset, blocks, calls, resets>>

SlowPath(t) ==
  /\ At(t, "lock")
  /\ mutex = None
  /\ mutex' = t
  /\ reg' = [reg EXCEPT ![t].arena = current, ![t].stage = "again"]
  /\ Goto(t, IF current = None THEN "install" ELSE "load")
  /\ UNCHANGED <<pages, offset, blocks, calls, resets>>

Reserved(t) == reg[t].size + IF Big(reg[t].align) THEN reg[t].align - 1 ELSE 0

\* A page of the default size becomes the current one; a larger one is for this block only.
Install(t) ==
  /\ At(t, "install")
  /\ \E p \in Pages :
       /\ \/ /\ Reserved(t) <= DefaultSize
             /\ available # <<>> /\ size[available[1]] >= Reserved(t)
             /\ p = available[1]
             /\ available' = Tail(available)
             /\ UNCHANGED size
          \/ /\ ~(Reserved(t) <= DefaultSize /\ available # <<>> /\ size[available[1]] >= Reserved(t))
             /\ p \notin InUse
             /\ size' = [size EXCEPT ![p] = IF Reserved(t) > DefaultSize THEN Reserved(t) ELSE DefaultSize]
             /\ UNCHANGED available
       /\ offset' = [offset EXCEPT ![p] = 0]
       /\ IF Reserved(t) <= DefaultSize
            THEN list' = <<p>> \o list /\ current' = p /\ UNCHANGED large
            ELSE large' = <<p>> \o large /\ UNCHANGED <<list, current>>
       /\ reg' = [reg EXCEPT ![t].arena = p, ![t].stage = "own"]
  /\ Goto(t, "load")
  /\ UNCHANGED <<mutex, blocks, calls, resets>>

Copy(t) ==
  /\ At(t, "copy")
  /\ blocks' = blocks \ {reg[t].block}
  /\ Return(t)
  /\ UNCHANGED <<pages, offset, calls, resets>>

-----------------------------------------------------------------------------
(* reset and release, called while no other thread uses the allocator.     *)

\* Mutant of ResetPages: the current page stays.
ResetPagesNotCurrent ==
  /\ \A t \in Threads : At(t, "idle")
  /\ resets < ResetBound
  /\ resets' = resets + 1
  /\ list' = <<>> /\ large' = <<>>
  /\ blocks' = {}
  /\ UNCHANGED <<size, current, mutex, pc, reg, calls>>

ResetPages ==
  /\ \A t \in Threads : At(t, "idle")
  /\ resets < ResetBound
  /\ resets' = resets + 1
  /\ current' = None
  /\ list' = <<>> /\ large' = <<>>
  /\ blocks' = {}
  /\ UNCHANGED <<size, mutex, pc, reg, calls>>

Reset == /\ ResetPages
         /\ available' = list \o available
         /\ offset' = [p \in Pages |-> IF \E n \in DOMAIN available : available[n] = p
                                         THEN 0 ELSE offset[p]]

Release == ResetPages /\ available' = <<>> /\ UNCHANGED offset

Step(t) == \/ Allocate(t) \/ Deallocate(t) \/ Realloc(t) \/ Compare(t) \/ Roll(t)
           \/ Load(t) \/ Cas(t) \/ Full(t) \/ SlowPath(t) \/ Install(t) \/ Copy(t)
Next == (\E t \in Threads : Step(t)) \/ Reset \/ Release

Spec == Init /\ [][Next]_vars

-----------------------------------------------------------------------------
(* Properties.                                                             *)

Members(s) == {s[n] : n \in DOMAIN s}
PlacesIn(s, p) == {n \in DOMAIN s : s[n] = p}

\* Every variable has its type; a block is in a page below its offset.
TypeOK ==
  /\ \A p \in Pages : size[p] \in Nat /\ offset[p] \in 0 .. size[p]
  /\ \A b \in blocks : b.at \in InUse /\ End(b) <= offset[b.at]
  /\ mutex \in Threads \cup {None}
  /\ calls \in 0 .. CallBound /\ resets \in 0 .. ResetBound

\* A page is in one list, once; the current page is the newest of its list; a large page
\* never becomes one that several threads allocate from.
PagesOnce ==
  /\ \A p \in Pages : Cardinality(PlacesIn(list, p)) + Cardinality(PlacesIn(large, p))
                         + Cardinality(PlacesIn(available, p)) <= 1
  /\ current = IF list = <<>> THEN None ELSE list[1]
  /\ \A p \in Members(list) \cup Members(available) : size[p] = DefaultSize

\* The blocks of the allocator are those of a Heap.
H == INSTANCE Heap
Implements == H!Spec
=============================================================================
