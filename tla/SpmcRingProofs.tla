--------------------------- MODULE SpmcRingProofs ---------------------------
(***************************************************************************)
(* Theorems about SpmcRing, for any thieves, any capacity and any number   *)
(* of pushes: its indices keep their distance, nothing half written is     *)
(* returned, and the ring implements WorkDeque.                            *)
(*                                                                         *)
(* The argument.  The stores that have not reached memory are those of the *)
(* last pushes, three each, so their slots belong to indices from bottom   *)
(* on.  A thief that saw bottom above the index it competes for therefore  *)
(* reads a slot that is written, and while nobody takes that index the     *)
(* owner does not come around to its slot again.                           *)
(***************************************************************************)
EXTENDS SpmcRing, SequenceTheorems, TLAPS

\* The first n stores of st are what pushes up to index e - 1 left there of theirs, and b is what
\* the last store that reached memory made of bottom.
Pending(st, n, b, e) ==
  /\ \A k \in Nat :
       /\ 3 * k < n     => st[n - 3 * k] = ToBottom(e - k)
       /\ 3 * k + 1 < n => \E i \in Items : st[n - 3 * k - 1] = ToSlot(e - k - 1, i)
       /\ 3 * k + 2 < n => st[n - 3 * k - 2] = ToSlot(e - k - 1, Torn)
  /\ \A k \in Nat : n <= 3 * k /\ 3 * k < n + 3 => b = e - k

\* pop_back adds the store that reserves an item, and waits for all of them.
StoresKnown ==
  /\ At(Owner, "idle") => Pending(stores, Len(stores), bottom, own)
  /\ At(Owner, "reload") =>
       \/ stores = <<>> /\ bottom = own
       \/ /\ stores # <<>> /\ stores[Len(stores)] = ToBottom(own)
          /\ Pending(stores, Len(stores) - 1, bottom, own + 1)
  /\ At(Owner, "compete") => stores = <<>> /\ bottom = own

\* The owner competes with the thieves only for the oldest item.
Ends ==
  /\ Last - top \in 0 .. Capacity
  /\ At(Owner, "compete") => own <= top

\* A thief that is not outrun competes for an item whose slot is written.
Ahead(x) ==
  /\ At(x, "idle") => loc[x] = NoLoc
  /\ loc[x].t <= top
  /\ pc[x] \in {"read", "cas"} /\ loc[x].t = top =>
       /\ top < Last
       /\ \A j \in DOMAIN stores : stores[j].slot # Slot(top)
       /\ At(x, "cas") => loc[x].item = buffer[Slot(top)]
ThievesAhead == \A x \in Thieves : Ahead(x)

\* The newest store to the slot of index i, or memory if there is none, is item v.
Holds(i, v) ==
  \/ \E j \in DOMAIN stores : /\ stores[j] = ToSlot(i, v)
                              /\ \A k \in DOMAIN stores : k > j => stores[k].slot # Slot(i)
  \/ /\ \A j \in DOMAIN stores : stores[j].slot # Slot(i)
     /\ buffer[Slot(i)] = v

\* What is in the deque was pushed, and is written or will be.
Whole == \A i \in top .. (Last - 1) : \E v \in Items : Holds(i, v)

RingInv == /\ RingAssumption
           /\ TypeOK /\ StoresKnown /\ Ends /\ ThievesAhead /\ Whole

-----------------------------------------------------------------------------
(* Slots, and types.                                                       *)

LEMMA SlotType == ASSUME RingAssumption, NEW i \in Int PROVE Slot(i) \in Slots /\ Slot(i) # None
  BY DEF RingAssumption, Slot, Slots

LEMMA Times == ASSUME NEW c \in Nat \ {0}, NEW m \in Int, NEW n \in Int, m < n
               PROVE  c * m \in Int /\ c * n \in Int /\ c * m + c <= c * n
<1> DEFINE d == n - m
<1>1. d \in Int /\ d >= 1 /\ n = m + d
  OBVIOUS
<1>2. c * n = c * m + c * d
  BY <1>1
<1>3. c * d >= c /\ c * m \in Int /\ c * n \in Int /\ c * d \in Int
  BY <1>1
<1> QED
  BY <1>2, <1>3

\* Capacity indices in a row have different slots.
LEMMA SlotApart ==
  ASSUME RingAssumption, NEW i \in Int, NEW j \in Int, i < j, j < i + Capacity
  PROVE  Slot(i) # Slot(j)
<1> DEFINE a == i \div Capacity
           b == j \div Capacity
<1>1. /\ a \in Int /\ i = Capacity * a + Slot(i)
      /\ b \in Int /\ j = Capacity * b + Slot(j)
      /\ Capacity \in Nat \ {0}
  BY DEF RingAssumption, Slot
<1>2. SUFFICES ASSUME Slot(i) = Slot(j) PROVE FALSE
  OBVIOUS
<1>3. Slot(i) \in Int
  BY SlotType DEF Slots
<1> HIDE DEF a, b
<1>4. Capacity * a \in Int /\ Capacity * b \in Int
  BY <1>1
<1>5. CASE a < b
  BY <1>1, <1>2, <1>3, <1>4, <1>5, Times
<1>6. CASE b < a
  BY <1>1, <1>2, <1>3, <1>4, <1>6, Times
<1>7. CASE a = b
  BY <1>1, <1>2, <1>3, <1>7
<1> QED
  BY <1>1, <1>5, <1>6, <1>7

Stores == [slot : Slots, val : Items \cup {Torn}] \cup [slot : {None}, val : Nat]

LEMMA InitType == RingAssumption /\ Init => TypeOK
  BY SlotType DEF Init, TypeOK, RingAssumption, Items, Slots, NoLoc

-----------------------------------------------------------------------------
(* The newest store to a slot.                                             *)

LEMMA StoresType ==
  ASSUME TypeOK, RingAssumption
  PROVE  /\ stores \in Seq(Stores) /\ Len(stores) \in Nat /\ DOMAIN stores = 1 .. Len(stores)
         /\ \A j \in DOMAIN stores : stores[j] \in Stores
  BY DEF TypeOK, Stores

\* Stores to other slots change nothing.
LEMMA HoldsLonger ==
  ASSUME NEW i \in Int, NEW v, NEW n \in Nat, NEW m \in Nat, n <= m,
         DOMAIN stores = 1 .. n, DOMAIN stores' = 1 .. m,
         \A j \in 1 .. n : stores'[j] = stores[j],
         \A j \in (n + 1) .. m : stores'[j].slot # Slot(i),
         buffer'[Slot(i)] = buffer[Slot(i)], Holds(i, v)
  PROVE  Holds(i, v)'
<1>1. CASE \A j \in DOMAIN stores : stores[j].slot # Slot(i)
  <2>1. \A j \in DOMAIN stores : stores[j] # ToSlot(i, v)
    BY <1>1 DEF ToSlot
  <2>2. buffer[Slot(i)] = v
    BY <2>1 DEF Holds
  <2>3. \A j \in 1 .. m : j \in 1 .. n \/ j \in (n + 1) .. m
    OBVIOUS
  <2> QED
    BY <1>1, <2>2, <2>3 DEF Holds
<1>2. CASE ~ \A j \in DOMAIN stores : stores[j].slot # Slot(i)
  <2>1. PICK j \in DOMAIN stores :
          /\ stores[j] = ToSlot(i, v)
          /\ \A k \in DOMAIN stores : k > j => stores[k].slot # Slot(i)
    BY <1>2 DEF Holds
  <2>2. j \in DOMAIN stores' /\ stores'[j] = ToSlot(i, v)
    BY <2>1
  <2>3. \A k \in 1 .. m : k \in 1 .. n \/ k \in (n + 1) .. m
    OBVIOUS
  <2>4. \A k \in DOMAIN stores' : k > j => stores'[k].slot # Slot(i)
    BY <2>1, <2>3
  <2> QED
    BY <2>2, <2>4 DEF Holds, ToSlot
<1> QED
  BY <1>1, <1>2

\* A store that reaches memory leaves its item there.
LEMMA HoldsDrained ==
  ASSUME RingAssumption, TypeOK, Drain, NEW i \in Int, NEW v, Holds(i, v)
  PROVE  Holds(i, v)'
<1> DEFINE n == Len(stores)
           s == stores[1]
<1>1. /\ n \in Nat \ {0} /\ DOMAIN stores = 1 .. n /\ DOMAIN stores' = 1 .. (n - 1)
      /\ \A j \in 1 .. (n - 1) : stores'[j] = stores[j + 1]
      /\ s = Head(stores)
  <2>1. stores \in Seq(Stores) /\ stores # <<>> /\ stores' = Tail(stores)
    BY StoresType DEF Drain
  <2> QED
    BY <2>1, HeadTailProperties
<1>2. /\ Slot(i) \in Slots /\ Slot(i) # None
      /\ buffer \in [Slots -> Items \cup {Torn, None}]
      /\ s.slot = None => buffer' = buffer
      /\ s.slot # None => buffer' = [buffer EXCEPT ![s.slot] = s.val]
  BY <1>1, SlotType DEF Drain, TypeOK
<1> HIDE DEF n, s
<1>3. CASE \A j \in DOMAIN stores : stores[j].slot # Slot(i)
  <2>1. \A j \in DOMAIN stores : stores[j] # ToSlot(i, v)
    BY <1>3 DEF ToSlot
  <2>2. buffer[Slot(i)] = v
    BY <2>1 DEF Holds
  <2>3. \A j \in DOMAIN stores' : stores'[j].slot # Slot(i)
    BY <1>1, <1>3
  <2>4. buffer'[Slot(i)] = v
    BY <1>1, <1>2, <1>3, <2>2 DEF s
  <2> QED
    BY <2>3, <2>4 DEF Holds
<1>4. CASE ~ \A j \in DOMAIN stores : stores[j].slot # Slot(i)
  <2>1. PICK j \in DOMAIN stores :
          /\ stores[j] = ToSlot(i, v)
          /\ \A k \in DOMAIN stores : k > j => stores[k].slot # Slot(i)
    BY <1>4 DEF Holds
  <2>2. CASE j = 1
    <3>1. \A k \in DOMAIN stores' : stores'[k].slot # Slot(i)
      BY <1>1, <2>1, <2>2
    <3>2. s.slot = Slot(i) /\ s.val = v
      BY <2>1, <2>2 DEF s, ToSlot
    <3>3. buffer'[Slot(i)] = v
      BY <1>2, <3>2
    <3> QED
      BY <3>1, <3>3 DEF Holds
  <2>3. CASE j # 1
    <3>1. j - 1 \in DOMAIN stores' /\ stores'[j - 1] = ToSlot(i, v)
      BY <1>1, <2>1, <2>3
    <3>2. \A k \in DOMAIN stores' : k > j - 1 => stores'[k].slot # Slot(i)
      BY <1>1, <2>1
    <3> QED
      BY <3>1, <3>2 DEF Holds, ToSlot
  <2> QED
    BY <2>2, <2>3
<1> QED
  BY <1>3, <1>4

\* The item that the owner sees at an index.
LEMMA HoldsAt ==
  ASSUME RingAssumption, TypeOK, NEW i \in Int, NEW v, Holds(i, v)
  PROVE  ItemAt(i) = v
<1> DEFINE js == {j \in DOMAIN stores : stores[j].slot = Slot(i)}
<1>1. CASE \A j \in DOMAIN stores : stores[j].slot # Slot(i)
  <2>1. js = {}
    BY <1>1
  <2>2. buffer[Slot(i)] = v
    BY <1>1 DEF Holds, ToSlot
  <2> QED
    BY <2>1, <2>2 DEF ItemAt
<1>2. CASE ~ \A j \in DOMAIN stores : stores[j].slot # Slot(i)
  <2>1. PICK j \in DOMAIN stores :
          /\ stores[j] = ToSlot(i, v)
          /\ \A k \in DOMAIN stores : k > j => stores[k].slot # Slot(i)
    BY <1>2 DEF Holds
  <2>2. j \in js /\ \A k \in js : k \in Nat /\ k <= j
    BY <2>1, StoresType DEF ToSlot
  <2>3. (CHOOSE l \in js : \A k \in js : k <= l) = j
    BY <2>2
  <2> QED
    BY <2>1, <2>2, <2>3 DEF ItemAt, ToSlot
<1> QED
  BY <1>1, <1>2

-----------------------------------------------------------------------------
(* The stores of pushes.                                                   *)

LEMMA PendingNone ==
  ASSUME NEW st, NEW e \in Nat PROVE Pending(st, 0, e, e)
  BY DEF Pending

\* After a push.
LEMMA PendingPush ==
  ASSUME NEW st, NEW st2, NEW n \in Nat, NEW b \in Nat, NEW e \in Nat, NEW i \in Items,
         Pending(st, n, b, e), \A j \in 1 .. n : st2[j] = st[j],
         st2[n + 1] = ToSlot(e, Torn), st2[n + 2] = ToSlot(e, i), st2[n + 3] = ToBottom(e + 1)
  PROVE  Pending(st2, n + 3, b, e + 1)
<1>1. ASSUME NEW k \in Nat
      PROVE  /\ 3 * k < n + 3 => st2[n + 3 - 3 * k] = ToBottom(e + 1 - k)
             /\ 3 * k + 1 < n + 3 =>
                  \E l \in Items : st2[n + 3 - 3 * k - 1] = ToSlot(e + 1 - k - 1, l)
             /\ 3 * k + 2 < n + 3 => st2[n + 3 - 3 * k - 2] = ToSlot(e + 1 - k - 1, Torn)
  <2>1. CASE k = 0
    <3>1. /\ n + 3 - 3 * k = n + 3 /\ n + 3 - 3 * k - 1 = n + 2 /\ n + 3 - 3 * k - 2 = n + 1
          /\ e + 1 - k = e + 1 /\ e + 1 - k - 1 = e
      BY <2>1
    <3> QED
      BY <3>1
  <2>2. CASE k # 0
    <3>1. PICK m \in Nat : k = m + 1
      <4>1. k - 1 \in Nat /\ k = (k - 1) + 1
        BY <2>2
      <4> QED
        BY <4>1
    <3>2. /\ n + 3 - 3 * k = n - 3 * m /\ n + 3 - 3 * k - 1 = n - 3 * m - 1
          /\ n + 3 - 3 * k - 2 = n - 3 * m - 2
          /\ e + 1 - k = e - m /\ e + 1 - k - 1 = e - m - 1
      BY <3>1
    <3>3. /\ 3 * m < n     => st[n - 3 * m] = ToBottom(e - m)
          /\ 3 * m + 1 < n => \E l \in Items : st[n - 3 * m - 1] = ToSlot(e - m - 1, l)
          /\ 3 * m + 2 < n => st[n - 3 * m - 2] = ToSlot(e - m - 1, Torn)
      BY DEF Pending
    <3>4. /\ 3 * k < n + 3 => 3 * m < n /\ st2[n - 3 * m] = st[n - 3 * m]
          /\ 3 * k + 1 < n + 3 => 3 * m + 1 < n /\ st2[n - 3 * m - 1] = st[n - 3 * m - 1]
          /\ 3 * k + 2 < n + 3 => 3 * m + 2 < n /\ st2[n - 3 * m - 2] = st[n - 3 * m - 2]
      BY <3>1
    <3> QED
      BY <3>2, <3>3, <3>4
  <2> QED
    BY <2>1, <2>2
<1>2. ASSUME NEW k \in Nat, n + 3 <= 3 * k, 3 * k < n + 3 + 3 PROVE b = e + 1 - k
  <2>1. k - 1 \in Nat /\ n <= 3 * (k - 1) /\ 3 * (k - 1) < n + 3
    BY <1>2
  <2>2. b = e - (k - 1)
    BY <2>1 DEF Pending
  <2> QED
    BY <2>2
<1> QED
  BY <1>1, <1>2 DEF Pending

\* What the place of a store in the buffer says of it.
LEMMA PendingKinds ==
  ASSUME NEW st, NEW n \in Nat, NEW b \in Nat, NEW e \in Nat, Pending(st, n, b, e),
         NEW j \in 1 .. n
  PROVE  \/ \E k \in Nat : 3 * k < n /\ j = n - 3 * k /\ st[j] = ToBottom(e - k)
         \/ \E k \in Nat : /\ 3 * k + 1 < n /\ b <= e - k - 1
                           /\ st[j].slot = Slot(e - k - 1)
<1>1. PICK k \in Nat : n - j = 3 * k \/ n - j = 3 * k + 1 \/ n - j = 3 * k + 2
  <2>1. /\ (n - j) \div 3 \in Nat
        /\ \/ n - j = 3 * ((n - j) \div 3)
           \/ n - j = 3 * ((n - j) \div 3) + 1
           \/ n - j = 3 * ((n - j) \div 3) + 2
    OBVIOUS
  <2> QED
    BY <2>1
<1>2. CASE n - j = 3 * k
  <2>1. 3 * k < n /\ j = n - 3 * k
    BY <1>2
  <2> QED
    BY <2>1 DEF Pending
<1>3. CASE n - j # 3 * k
  <2>1. /\ 3 * k + 1 < n
        /\ j = n - 3 * k - 1 \/ (3 * k + 2 < n /\ j = n - 3 * k - 2)
    BY <1>1, <1>3
  <2>2. \E v : st[j] = ToSlot(e - k - 1, v)
    BY <2>1 DEF Pending
  <2>5. st[j].slot = Slot(e - k - 1)
    BY <2>2 DEF ToSlot
  <2>3. b <= e - k - 1
    <3>1. PICK m \in Nat : n <= 3 * m /\ 3 * m < n + 3
      <4>1. (n + 2) \div 3 \in Nat /\ n <= 3 * ((n + 2) \div 3) /\ 3 * ((n + 2) \div 3) < n + 3
        OBVIOUS
      <4> QED
        BY <4>1
    <3>2. b = e - m /\ m >= k + 1
      BY <2>1, <3>1 DEF Pending
    <3> QED
      BY <3>2
  <2> QED
    BY <2>1, <2>3, <2>5
<1> QED
  BY <1>2, <1>3

\* After the oldest store has reached memory, b2 being bottom then.
LEMMA PendingDrain ==
  ASSUME NEW st, NEW st2, NEW n \in Nat \ {0}, NEW b \in Nat, NEW b2 \in Nat, NEW e \in Nat,
         Pending(st, n, b, e), \A j \in 1 .. (n - 1) : st2[j] = st[j + 1],
         b2 = IF st[1].slot = None THEN st[1].val ELSE b,
         RingAssumption
  PROVE  Pending(st2, n - 1, b2, e) /\ (b2 = b \/ b2 = b + 1)
<1>1. ASSUME NEW k \in Nat
      PROVE  /\ 3 * k < n - 1 => st2[n - 1 - 3 * k] = ToBottom(e - k)
             /\ 3 * k + 1 < n - 1 =>
                  \E l \in Items : st2[n - 1 - 3 * k - 1] = ToSlot(e - k - 1, l)
             /\ 3 * k + 2 < n - 1 => st2[n - 1 - 3 * k - 2] = ToSlot(e - k - 1, Torn)
  <2>1. /\ 3 * k < n     => st[n - 3 * k] = ToBottom(e - k)
        /\ 3 * k + 1 < n => \E l \in Items : st[n - 3 * k - 1] = ToSlot(e - k - 1, l)
        /\ 3 * k + 2 < n => st[n - 3 * k - 2] = ToSlot(e - k - 1, Torn)
    BY DEF Pending
  <2>2. /\ 3 * k < n - 1 => st2[n - 1 - 3 * k] = st[n - 3 * k]
        /\ 3 * k + 1 < n - 1 => st2[n - 1 - 3 * k - 1] = st[n - 3 * k - 1]
        /\ 3 * k + 2 < n - 1 => st2[n - 1 - 3 * k - 2] = st[n - 3 * k - 2]
    <3>1. /\ 3 * k < n - 1 => n - 1 - 3 * k \in 1 .. (n - 1)
          /\ 3 * k + 1 < n - 1 => n - 1 - 3 * k - 1 \in 1 .. (n - 1)
          /\ 3 * k + 2 < n - 1 => n - 1 - 3 * k - 2 \in 1 .. (n - 1)
      OBVIOUS
    <3>2. /\ (n - 1 - 3 * k) + 1 = n - 3 * k
          /\ (n - 1 - 3 * k - 1) + 1 = n - 3 * k - 1
          /\ (n - 1 - 3 * k - 2) + 1 = n - 3 * k - 2
      OBVIOUS
    <3> QED
      BY <3>1, <3>2
  <2> QED
    BY <2>1, <2>2
<1>2. PICK m \in Nat : n = 3 * m + 1 \/ n = 3 * m + 2 \/ n = 3 * m + 3
  <2>1. PICK p \in Nat : n = p + 1
    <3>1. n - 1 \in Nat /\ n = (n - 1) + 1
      OBVIOUS
    <3> QED
      BY <3>1
  <2>2. /\ p \div 3 \in Nat
        /\ p = 3 * (p \div 3) \/ p = 3 * (p \div 3) + 1 \/ p = 3 * (p \div 3) + 2
    OBVIOUS
  <2> QED
    BY <2>1, <2>2
<1>3. b = e - (m + 1)
  <2>1. m + 1 \in Nat /\ n <= 3 * (m + 1) /\ 3 * (m + 1) < n + 3
    BY <1>2
  <2> QED
    BY <2>1 DEF Pending
<1>4. b2 = IF n = 3 * m + 1 THEN b + 1 ELSE b
  <2>1. CASE n = 3 * m + 1
    <3>1. 3 * m < n /\ n - 3 * m = 1
      BY <2>1
    <3>2. st[1] = ToBottom(e - m)
      BY <3>1 DEF Pending
    <3>3. st[1].slot = None /\ st[1].val = e - m
      BY <3>2 DEF ToBottom
    <3> QED
      BY <1>3, <2>1, <3>3
  <2>2. CASE n = 3 * m + 2
    <3>1. 3 * m + 1 < n /\ n - 3 * m - 1 = 1
      BY <2>2
    <3>2. \E v : st[1] = ToSlot(e - m - 1, v)
      BY <3>1 DEF Pending
    <3>3. st[1].slot = Slot(e - m - 1)
      BY <3>2 DEF ToSlot
    <3> QED
      BY <2>2, <3>3, SlotType
  <2>3. CASE n = 3 * m + 3
    <3>1. 3 * m + 2 < n /\ n - 3 * m - 2 = 1
      BY <2>3
    <3>2. st[1] = ToSlot(e - m - 1, Torn)
      BY <3>1 DEF Pending
    <3>3. st[1].slot = Slot(e - m - 1)
      BY <3>2 DEF ToSlot
    <3> QED
      BY <2>3, <3>3, SlotType
  <2> QED
    BY <1>2, <2>1, <2>2, <2>3
<1>5. ASSUME NEW k \in Nat, n - 1 <= 3 * k, 3 * k < n - 1 + 3 PROVE b2 = e - k
  <2>1. k = IF n = 3 * m + 1 THEN m ELSE m + 1
    BY <1>2, <1>5
  <2> QED
    BY <1>3, <1>4, <2>1
<1> QED
  BY <1>1, <1>4, <1>5 DEF Pending

-----------------------------------------------------------------------------
(* The steps of the owner and of its store buffer keep the invariant.      *)

OwnerPlaces == {"idle", "reload", "compete"}
ThiefPlaces == {"idle", "bottom", "read", "cas"}

LEMMA Basics ==
  ASSUME RingInv
  PROVE  /\ RingAssumption /\ TypeOK /\ Capacity \in Nat \ {0}
         /\ top \in Nat /\ bottom \in Nat /\ own \in Nat /\ Last \in Nat
         /\ top <= Last /\ Last <= top + Capacity
         /\ Last = IF pc[Owner] = "idle" THEN own ELSE own + 1
         /\ \A x \in Thieves : x # Owner
         /\ pc[Owner] \in OwnerPlaces
  BY DEF RingInv, RingAssumption, TypeOK, Ends, Last, At, OwnerPlaces

\* The call that the owner returns from or goes on with.
LEMMA OwnerGoes ==
  ASSUME RingInv, NEW l \in OwnerPlaces, Goto(Owner, l)
  PROVE  /\ pc'[Owner] = l /\ \A x \in Thieves : pc'[x] = pc[x]
         /\ pc' \in [{Owner} \cup Thieves ->
                       {"idle", "reload", "compete", "bottom", "read", "cas"}]
         /\ pc'[Owner] \in OwnerPlaces /\ \A x \in Thieves : pc'[x] \in ThiefPlaces
         /\ Last' = IF l = "idle" THEN own' ELSE own' + 1
  BY Basics DEF RingInv, TypeOK, RingAssumption, Goto, Last, At, OwnerPlaces, ThiefPlaces

LEMMA ThievesStay ==
  ASSUME RingInv, UNCHANGED <<top, loc>>, \A x \in Thieves : pc'[x] = pc[x],
         top < Last /\ (\A j \in DOMAIN stores : stores[j].slot # Slot(top)) =>
            /\ top < Last'
            /\ \A j \in DOMAIN stores' : stores'[j].slot # Slot(top)
            /\ buffer'[Slot(top)] = buffer[Slot(top)]
  PROVE  ThievesAhead'
<1> SUFFICES ASSUME NEW x \in Thieves PROVE Ahead(x)'
  BY DEF ThievesAhead
<1>1. Ahead(x)
  BY DEF RingInv, ThievesAhead
<1> QED
  BY <1>1 DEF Ahead, At

\* Everybody is outrun when the owner takes the oldest item.
LEMMA ThievesOutrun ==
  ASSUME RingInv, top' = top + 1, UNCHANGED loc, \A x \in Thieves : pc'[x] = pc[x]
  PROVE  ThievesAhead'
<1> SUFFICES ASSUME NEW x \in Thieves PROVE Ahead(x)'
  BY DEF ThievesAhead
<1>1. Ahead(x) /\ loc[x].t \in Nat /\ top \in Nat
  BY DEF RingInv, ThievesAhead, TypeOK
<1> QED
  BY <1>1 DEF Ahead, At

\* Indices go out of the deque; what is in it stays written.
LEMMA WholeStays ==
  ASSUME RingInv, NEW m \in Nat, NEW n \in Nat, top' = m, Last' = n, top <= m, n <= Last,
         \A i \in top .. (Last - 1) : \A v \in Items : Holds(i, v) => Holds(i, v)'
  PROVE  Whole'
<1>0. top \in Nat /\ Last \in Nat
  BY Basics
<1>1. ASSUME NEW i \in m .. (n - 1) PROVE \E v \in Items : Holds(i, v)'
  <2>1. i \in top .. (Last - 1)
    BY <1>0, <1>1
  <2>2. PICK v \in Items : Holds(i, v)
    BY <2>1 DEF RingInv, Whole
  <2> QED
    BY <2>1, <2>2
<1> QED
  BY <1>1 DEF Whole, Items

LEMMA HoldsSame ==
  ASSUME UNCHANGED <<stores, buffer>>, NEW i, NEW v, Holds(i, v) PROVE Holds(i, v)'
  BY DEF Holds

LEMMA AppendKnown ==
  ASSUME RingInv, NEW b \in Nat, stores' = Append(stores, ToBottom(b))
  PROVE  /\ stores' \in Seq(Stores) /\ Len(stores') = Len(stores) + 1 /\ Len(stores) \in Nat
         /\ DOMAIN stores = 1 .. Len(stores) /\ DOMAIN stores' = 1 .. (Len(stores) + 1)
         /\ \A j \in 1 .. Len(stores) : stores'[j] = stores[j]
         /\ stores'[Len(stores) + 1] = ToBottom(b) /\ ToBottom(b).slot = None
         /\ \A i \in Int : Slot(i) # None
<1>1. ToBottom(b) \in Stores /\ ToBottom(b).slot = None
  BY DEF ToBottom, Stores
<1>2. stores \in Seq(Stores) /\ RingAssumption
  BY StoresType DEF RingInv
<1> QED
  BY <1>1, <1>2, AppendProperties, SlotType

\* A store to bottom_ changes no slot.
LEMMA HoldsBottom ==
  ASSUME RingInv, NEW b \in Nat, stores' = Append(stores, ToBottom(b)), UNCHANGED buffer
  PROVE  /\ \A i \in Int : \A v : Holds(i, v) => Holds(i, v)'
         /\ \A i \in Int : (\A j \in DOMAIN stores : stores[j].slot # Slot(i)) =>
                           \A j \in DOMAIN stores' : stores'[j].slot # Slot(i)
<1>1. ASSUME NEW i \in Int, NEW v, Holds(i, v) PROVE Holds(i, v)'
  <2>1. /\ Len(stores) \in Nat /\ Len(stores) + 1 \in Nat /\ Len(stores) <= Len(stores) + 1
        /\ \A j \in (Len(stores) + 1) .. (Len(stores) + 1) : stores'[j].slot # Slot(i)
    BY AppendKnown
  <2> QED
    BY <1>1, <2>1, AppendKnown, HoldsLonger
<1>2. ASSUME NEW i \in Int, \A j \in DOMAIN stores : stores[j].slot # Slot(i)
      PROVE  \A j \in DOMAIN stores' : stores'[j].slot # Slot(i)
  <2> TAKE j \in DOMAIN stores'
  <2>1. Len(stores) \in Nat /\ j \in 1 .. (Len(stores) + 1)
    BY AppendKnown
  <2>2. CASE j = Len(stores) + 1
    BY <2>2, AppendKnown
  <2>3. CASE j # Len(stores) + 1
    <3>1. j \in 1 .. Len(stores)
      BY <2>1, <2>3
    <3> QED
      BY <1>2, <3>1, AppendKnown
  <2> QED
    BY <2>2, <2>3
<1> QED
  BY <1>1, <1>2

LEMMA PendingSame ==
  ASSUME NEW st, NEW st2, NEW n \in Nat, NEW b, NEW e,
         Pending(st, n, b, e), \A j \in 1 .. n : st2[j] = st[j]
  PROVE  Pending(st2, n, b, e)
<1>1. ASSUME NEW k \in Nat
      PROVE  /\ 3 * k < n     => st2[n - 3 * k] = st[n - 3 * k]
             /\ 3 * k + 1 < n => st2[n - 3 * k - 1] = st[n - 3 * k - 1]
             /\ 3 * k + 2 < n => st2[n - 3 * k - 2] = st[n - 3 * k - 2]
  OBVIOUS
<1> QED
  BY <1>1 DEF Pending

\* The result of a call.
LEMMA ReturnType ==
  ASSUME TypeOK, NEW x \in {Owner} \cup Thieves, NEW a \in Items \cup {None}, Return(x, a)
  PROVE  /\ answer' \in [{Owner} \cup Thieves -> Items \cup {None}]
         /\ Goto(x, "idle")
  BY DEF TypeOK, Return

LEMMA PopReserveStays == RingInv /\ PopReserve => RingInv'
<1> SUFFICES ASSUME RingInv, PopReserve PROVE RingInv'
  OBVIOUS
<1>0. /\ UNCHANGED <<top, bottom, buffer, loc, pushes>> /\ At(Owner, "idle")
      /\ RingAssumption /\ TypeOK /\ Last = own
      /\ top \in Nat /\ bottom \in Nat /\ own \in Nat
  BY Basics DEF PopReserve, At
<1>1. CASE top >= own /\ Return(Owner, None) /\ UNCHANGED <<own, stores>>
  <2>1. pc' = pc /\ UNCHANGED <<own, stores>>
    BY <1>0, <1>1 DEF Return, Goto, At, TypeOK
  <2>2. answer' \in [{Owner} \cup Thieves -> Items \cup {None}]
    BY <1>0, <1>1, ReturnType
  <2>3. Last' = Last
    BY <2>1 DEF Last, At
  <2>4. TypeOK'
    BY <1>0, <2>1, <2>2 DEF TypeOK
  <2>5. StoresKnown' /\ Ends'
    BY <1>0, <2>1, <2>3 DEF RingInv, StoresKnown, Ends, At
  <2>6. ThievesAhead'
    BY <1>0, <2>1, <2>3, ThievesStay
  <2>7. Whole'
    BY <1>0, <2>1, <2>3 DEF RingInv, Whole, Holds
  <2> QED
    BY <1>0, <2>4, <2>5, <2>6, <2>7 DEF RingInv, RingAssumption
<1>2. CASE top < own /\ StoreBottom(own - 1) /\ Goto(Owner, "reload") /\ UNCHANGED answer
  <2>0. own - 1 \in Nat /\ own' = own - 1 /\ stores' = Append(stores, ToBottom(own - 1))
    BY <1>0, <1>2 DEF StoreBottom
  <2>1. /\ pc'[Owner] = "reload" /\ \A x \in Thieves : pc'[x] = pc[x]
        /\ pc' \in [{Owner} \cup Thieves ->
                      {"idle", "reload", "compete", "bottom", "read", "cas"}]
        /\ \A x \in Thieves : pc'[x] \in ThiefPlaces
        /\ Last' = own' + 1
    BY <1>2, OwnerGoes DEF OwnerPlaces
  <2>2. Last' = Last
    BY <1>0, <2>0, <2>1
  <2>3. /\ stores' \in Seq(Stores) /\ Len(stores') = Len(stores) + 1 /\ Len(stores) \in Nat
        /\ \A j \in 1 .. Len(stores) : stores'[j] = stores[j]
        /\ stores'[Len(stores) + 1] = ToBottom(own - 1)
    BY <2>0, AppendKnown
  <2>4. TypeOK'
    BY <1>0, <1>2, <2>0, <2>1, <2>3 DEF TypeOK, Stores, ThiefPlaces
  <2>5. StoresKnown'
    <3>1. Pending(stores, Len(stores), bottom, own)
      BY <1>0 DEF RingInv, StoresKnown
    <3>2. Pending(stores', Len(stores), bottom, own)
      BY <2>3, <3>1, PendingSame
    <3>3. stores' # <<>> /\ Len(stores') - 1 = Len(stores) /\ own' + 1 = own
      BY <1>0, <2>0, <2>3
    <3> QED
      BY <1>0, <2>0, <2>1, <2>3, <3>2, <3>3 DEF StoresKnown, At
  <2>6. Ends'
    BY <1>0, <2>1, <2>2 DEF RingInv, Ends, At
  <2>7. ThievesAhead'
    BY <1>0, <2>0, <2>1, <2>2, HoldsBottom, ThievesStay
  <2>8. Whole'
    BY <1>0, <2>0, <2>2, HoldsBottom, WholeStays
  <2> QED
    BY <1>0, <2>4, <2>5, <2>6, <2>7, <2>8 DEF RingInv, RingAssumption
<1> QED
  BY <1>1, <1>2 DEF PopReserve

LEMMA PendingOne ==
  ASSUME NEW e \in Nat PROVE Pending(<<ToBottom(e + 1)>>, 1, e, e + 1)
<1>1. ASSUME NEW k \in Nat
      PROVE  /\ 3 * k < 1 => k = 0
             /\ ~(3 * k + 1 < 1) /\ ~(3 * k + 2 < 1)
             /\ 1 <= 3 * k /\ 3 * k < 1 + 3 => k = 1
  OBVIOUS
<1>2. <<ToBottom(e + 1)>>[1] = ToBottom(e + 1)
  OBVIOUS
<1> QED
  BY <1>1, <1>2 DEF Pending

\* With all stores in memory, the slot of every index in the deque holds an item.
LEMMA SlotWritten ==
  ASSUME RingInv, stores = <<>>, NEW i \in top .. (Last - 1)
  PROVE  buffer[Slot(i)] \in Items
<1>1. PICK v \in Items : Holds(i, v)
  BY DEF RingInv, Whole
<1> QED
  BY <1>1 DEF Holds

\* What pop_back leaves when it restores bottom_.
LEMMA Restored ==
  ASSUME RingInv, stores = <<>>, bottom = own, UNCHANGED <<bottom, buffer>>,
         StoreBottom(own + 1), pc'[Owner] = "idle"
  PROVE  /\ own' = own + 1 /\ own' \in Nat /\ stores' \in Seq(Stores)
         /\ StoresKnown'
<1>1. own \in Nat /\ own + 1 \in Nat /\ own' = own + 1 /\ stores' = <<ToBottom(own + 1)>>
  BY Basics DEF StoreBottom
<1>2. stores' \in Seq(Stores)
  BY <1>1, AppendKnown DEF StoreBottom
<1>3. Pending(stores', 1, bottom, own + 1)
  BY <1>1, PendingOne
<1> QED
  BY <1>1, <1>2, <1>3 DEF StoresKnown, At

LEMMA PopReloadStays == RingInv /\ PopReload => RingInv'
<1> SUFFICES ASSUME RingInv, PopReload PROVE RingInv'
  OBVIOUS
<1>0. /\ UNCHANGED <<top, bottom, buffer, loc, pushes>> /\ At(Owner, "reload") /\ stores = <<>>
      /\ RingAssumption /\ TypeOK /\ Last = own + 1 /\ bottom = own
      /\ top \in Nat /\ bottom \in Nat /\ own \in Nat
      /\ top <= own + 1 /\ own + 1 <= top + Capacity /\ Capacity \in Nat
  BY Basics DEF PopReload, PopLoad, At, RingInv, StoresKnown
<1>1. CASE top < own /\ Return(Owner, buffer[Slot(own)]) /\ UNCHANGED <<own, stores>>
  <2>1. buffer[Slot(own)] \in Items
    BY <1>0, <1>1, SlotWritten
  <2>2. /\ answer' \in [{Owner} \cup Thieves -> Items \cup {None}]
        /\ Goto(Owner, "idle")
    BY <1>0, <1>1, <2>1, ReturnType
  <2>3. /\ pc'[Owner] = "idle" /\ \A x \in Thieves : pc'[x] = pc[x]
        /\ pc' \in [{Owner} \cup Thieves ->
                      {"idle", "reload", "compete", "bottom", "read", "cas"}]
        /\ \A x \in Thieves : pc'[x] \in ThiefPlaces
        /\ Last' = own'
    BY <2>2, OwnerGoes DEF OwnerPlaces
  <2>4. TypeOK'
    BY <1>0, <1>1, <2>2, <2>3 DEF TypeOK, ThiefPlaces
  <2>5. StoresKnown'
    BY <1>0, <1>1, <2>3, PendingNone DEF StoresKnown, At
  <2>6. Ends'
    BY <1>0, <1>1, <2>3 DEF Ends, At
  <2>7. ThievesAhead'
    BY <1>0, <1>1, <2>3, ThievesStay
  <2>8. Whole'
    BY <1>0, <1>1, <2>3, HoldsSame, WholeStays
  <2> QED
    BY <1>0, <2>4, <2>5, <2>6, <2>7, <2>8 DEF RingInv, RingAssumption
<1>2. CASE top = own /\ Goto(Owner, "compete") /\ UNCHANGED <<own, stores, answer>>
  <2>1. /\ pc'[Owner] = "compete" /\ \A x \in Thieves : pc'[x] = pc[x]
        /\ pc' \in [{Owner} \cup Thieves ->
                      {"idle", "reload", "compete", "bottom", "read", "cas"}]
        /\ \A x \in Thieves : pc'[x] \in ThiefPlaces
        /\ Last' = own' + 1
    BY <1>2, OwnerGoes DEF OwnerPlaces
  <2>2. TypeOK'
    BY <1>0, <1>2, <2>1 DEF TypeOK, ThiefPlaces
  <2>3. StoresKnown' /\ Ends'
    BY <1>0, <1>2, <2>1 DEF StoresKnown, Ends, At
  <2>4. ThievesAhead'
    BY <1>0, <1>2, <2>1, ThievesStay
  <2>5. Whole'
    BY <1>0, <1>2, <2>1, HoldsSame, WholeStays
  <2> QED
    BY <1>0, <2>2, <2>3, <2>4, <2>5 DEF RingInv, RingAssumption
<1>3. CASE top > own /\ StoreBottom(top) /\ Return(Owner, None)
  <2>1. top = own + 1 /\ StoreBottom(own + 1)
    BY <1>0, <1>3
  <2>2. /\ answer' \in [{Owner} \cup Thieves -> Items \cup {None}]
        /\ Goto(Owner, "idle")
    BY <1>0, <1>3, ReturnType
  <2>3. /\ pc'[Owner] = "idle" /\ \A x \in Thieves : pc'[x] = pc[x]
        /\ pc' \in [{Owner} \cup Thieves ->
                      {"idle", "reload", "compete", "bottom", "read", "cas"}]
        /\ \A x \in Thieves : pc'[x] \in ThiefPlaces
        /\ Last' = own'
    BY <2>2, OwnerGoes DEF OwnerPlaces
  <2>4. own' = own + 1 /\ own' \in Nat /\ stores' \in Seq(Stores) /\ StoresKnown'
    BY <1>0, <2>1, <2>3, Restored
  <2>5. TypeOK'
    BY <1>0, <2>2, <2>3, <2>4 DEF TypeOK, ThiefPlaces, Stores
  <2>6. Ends'
    BY <1>0, <2>1, <2>3, <2>4 DEF Ends, At
  <2>7. ThievesAhead'
    BY <1>0, <2>1, <2>3, <2>4, ThievesStay
  <2>8. Whole'
    BY <1>0, <2>1, <2>3, <2>4, HoldsBottom, WholeStays DEF StoreBottom
  <2> QED
    BY <1>0, <2>4, <2>5, <2>6, <2>7, <2>8 DEF RingInv, RingAssumption
<1> QED
  BY <1>1, <1>2, <1>3 DEF PopReload, PopLoad

LEMMA PopCompeteStays == RingInv /\ PopCompete => RingInv'
<1> SUFFICES ASSUME RingInv, PopCompete PROVE RingInv'
  OBVIOUS
<1>0. /\ UNCHANGED <<bottom, buffer, loc, pushes>> /\ At(Owner, "compete") /\ stores = <<>>
      /\ RingAssumption /\ TypeOK /\ Last = own + 1 /\ bottom = own /\ StoreBottom(own + 1)
      /\ top \in Nat /\ bottom \in Nat /\ own \in Nat /\ own <= top /\ top <= own + 1
      /\ Capacity \in Nat
  BY Basics DEF PopCompete, At, RingInv, StoresKnown, Ends
<1>1. ASSUME NEW a \in Items \cup {None}, Return(Owner, a)
      PROVE  /\ pc'[Owner] = "idle" /\ \A x \in Thieves : pc'[x] = pc[x]
             /\ pc' \in [{Owner} \cup Thieves ->
                           {"idle", "reload", "compete", "bottom", "read", "cas"}]
             /\ \A x \in Thieves : pc'[x] \in ThiefPlaces
             /\ Last' = own + 1 /\ own' = own + 1 /\ StoresKnown'
             /\ stores' \in Seq(Stores)
             /\ answer' \in [{Owner} \cup Thieves -> Items \cup {None}]
  <2>1. /\ answer' \in [{Owner} \cup Thieves -> Items \cup {None}]
        /\ Goto(Owner, "idle")
    BY <1>0, <1>1, ReturnType
  <2>2. /\ pc'[Owner] = "idle" /\ \A x \in Thieves : pc'[x] = pc[x]
        /\ pc' \in [{Owner} \cup Thieves ->
                      {"idle", "reload", "compete", "bottom", "read", "cas"}]
        /\ \A x \in Thieves : pc'[x] \in ThiefPlaces
        /\ Last' = own'
    BY <2>1, OwnerGoes DEF OwnerPlaces
  <2> QED
    BY <1>0, <2>1, <2>2, Restored
<1>2. CASE top = own /\ top' = top + 1 /\ Return(Owner, buffer[Slot(own)])
  <2>1. buffer[Slot(own)] \in Items
    BY <1>0, <1>2, SlotWritten
  <2>2. TypeOK' /\ StoresKnown'
    BY <1>0, <1>1, <1>2, <2>1 DEF TypeOK, ThiefPlaces, Stores
  <2>3. Ends'
    BY <1>0, <1>1, <1>2, <2>1 DEF Ends, At
  <2>4. ThievesAhead'
    BY <1>0, <1>1, <1>2, <2>1, ThievesOutrun
  <2>5. Whole'
    BY <1>0, <1>1, <1>2, <2>1, HoldsBottom, WholeStays DEF StoreBottom
  <2> QED
    BY <1>0, <2>2, <2>3, <2>4, <2>5 DEF RingInv, RingAssumption
<1>3. CASE top # own /\ UNCHANGED top /\ Return(Owner, None)
  <2>2. TypeOK' /\ StoresKnown'
    BY <1>0, <1>1, <1>3 DEF TypeOK, ThiefPlaces, Stores
  <2>3. Ends'
    BY <1>0, <1>1, <1>3 DEF Ends, At
  <2>4. ThievesAhead'
    BY <1>0, <1>1, <1>3, ThievesStay
  <2>5. Whole'
    BY <1>0, <1>1, <1>3, HoldsBottom, WholeStays DEF StoreBottom
  <2> QED
    BY <1>0, <2>2, <2>3, <2>4, <2>5 DEF RingInv, RingAssumption
<1> QED
  BY <1>2, <1>3 DEF PopCompete

\* bottom is never past the index that the owner has stored.
LEMMA PendingBottom ==
  ASSUME NEW st, NEW n \in Nat, NEW b \in Nat, NEW e \in Nat, Pending(st, n, b, e) PROVE b <= e
<1>1. PICK m \in Nat : n <= 3 * m /\ 3 * m < n + 3
  <2>1. (n + 2) \div 3 \in Nat /\ n <= 3 * ((n + 2) \div 3) /\ 3 * ((n + 2) \div 3) < n + 3
    OBVIOUS
  <2> QED
    BY <2>1
<1>2. b = e - m
  BY <1>1 DEF Pending
<1> QED
  BY <1>2

LEMMA PendingZero ==
  ASSUME NEW st, NEW b \in Nat, NEW e \in Nat, Pending(st, 0, b, e) PROVE b = e
<1> SUFFICES ASSUME NEW n \in Nat, n = 0, Pending(st, n, b, e) PROVE b = e
  OBVIOUS
<1>1. PICK m \in Nat : n <= 3 * m /\ 3 * m < n + 3
  BY 0 \in Nat
<1>2. b = e - m
  BY <1>1 DEF Pending
<1> QED
  BY <1>1, <1>2

\* What is below bottom is written and stays so for a while.
LEMMA BelowBottom ==
  ASSUME RingInv, top < bottom
  PROVE  top < Last /\ \A j \in DOMAIN stores : stores[j].slot # Slot(top)
<1>0. /\ RingAssumption /\ TypeOK
      /\ top \in Nat /\ bottom \in Nat /\ own \in Nat /\ Last \in Nat /\ Capacity \in Nat
      /\ Last <= top + Capacity
      /\ Len(stores) \in Nat /\ DOMAIN stores = 1 .. Len(stores)
      /\ Slot(top) # None
  BY Basics, StoresType, SlotType
<1>1. ASSUME NEW n \in Nat, Pending(stores, n, bottom, Last), NEW j \in 1 .. n
      PROVE  stores[j].slot # Slot(top)
  <2>1. CASE \E k \in Nat : 3 * k < n /\ j = n - 3 * k /\ stores[j] = ToBottom(Last - k)
    BY <1>0, <2>1 DEF ToBottom
  <2>2. CASE \E k \in Nat : /\ 3 * k + 1 < n /\ bottom <= Last - k - 1
                            /\ stores[j].slot = Slot(Last - k - 1)
    <3>1. PICK k \in Nat : bottom <= Last - k - 1 /\ stores[j].slot = Slot(Last - k - 1)
      BY <2>2
    <3>2. Last - k - 1 \in Int /\ top < Last - k - 1 /\ Last - k - 1 < top + Capacity
      BY <1>0, <3>1
    <3> QED
      BY <1>0, <3>1, <3>2, SlotApart
  <2> QED
    BY <1>0, <1>1, <2>1, <2>2, PendingKinds
<1>2. CASE At(Owner, "idle")
  <2>1. Pending(stores, Len(stores), bottom, Last)
    BY <1>2 DEF RingInv, StoresKnown, Last
  <2> QED
    BY <1>0, <1>1, <2>1, PendingBottom
<1>3. CASE At(Owner, "reload") /\ stores # <<>> /\ stores[Len(stores)] = ToBottom(own)
             /\ Pending(stores, Len(stores) - 1, bottom, own + 1)
  <2>1. Len(stores) - 1 \in Nat /\ Last = own + 1
    BY <1>0, <1>3 DEF Last, At
  <2>0. Len(stores) \in Nat
    BY <1>0
  <2>2. top < Last
    BY <1>0, <1>3, <2>1, PendingBottom
  <2>3. ASSUME NEW j \in 1 .. Len(stores) PROVE stores[j].slot # Slot(top)
    <3>1. CASE j = Len(stores)
      BY <1>0, <1>3, <3>1 DEF ToBottom
    <3>2. CASE j # Len(stores)
      <4>1. j \in 1 .. (Len(stores) - 1)
        BY <2>0, <3>2
      <4> QED
        BY <1>1, <1>3, <2>1, <4>1
    <3> QED
      BY <3>1, <3>2
  <2> QED
    BY <1>0, <2>2, <2>3
<1>4. CASE stores = <<>> /\ bottom = own /\ ~At(Owner, "idle")
  BY <1>0, <1>4 DEF Last
<1> QED
  BY <1>0, <1>2, <1>3, <1>4 DEF RingInv, StoresKnown, TypeOK, At

-----------------------------------------------------------------------------
(* The steps of the thieves keep it.                                       *)

LEMMA ThiefMoves ==
  ASSUME RingInv, NEW x \in Thieves, NEW l \in ThiefPlaces,
         NEW r \in [t : Nat, item : Items \cup {Torn, None}],
         UNCHANGED <<bottom, buffer, stores, own, pushes>>,
         Goto(x, l), loc' = [loc EXCEPT ![x] = r],
         answer' \in [{Owner} \cup Thieves -> Items \cup {None}],
         top' = top \/ (top' = top + 1 /\ top < Last), Ahead(x)'
  PROVE  RingInv'
<1>0. /\ RingAssumption /\ TypeOK /\ StoresKnown /\ Ends /\ ThievesAhead /\ Whole
      /\ top \in Nat /\ own \in Nat /\ Last \in Nat /\ Capacity \in Nat /\ x # Owner
      /\ Last <= top + Capacity /\ top <= Last /\ top' \in Nat
  BY Basics DEF RingInv
<1>1. /\ pc'[Owner] = pc[Owner] /\ \A y \in Thieves \ {x} : pc'[y] = pc[y] /\ loc'[y] = loc[y]
      /\ pc'[x] = l /\ loc'[x] = r /\ Last' = Last
  BY <1>0 DEF Goto, TypeOK, Last, At
<1>2. TypeOK'
  BY <1>0, <1>1 DEF TypeOK, Goto, ThiefPlaces
<1>3. StoresKnown'
  BY <1>0, <1>1 DEF StoresKnown, At
<1>4. Ends'
  <2>1. /\ Last - top \in 0 .. Capacity
        /\ At(Owner, "compete") => own <= top
    BY <1>0 DEF Ends
  <2>2. Last' - top' \in 0 .. Capacity
    <3>1. CASE top' = top
      BY <1>1, <2>1, <3>1
    <3>2. CASE top' = top + 1 /\ top < Last
      <4>1. Last - (top + 1) \in 0 .. Capacity
        BY <1>0, <3>2
      <4> QED
        BY <1>1, <3>2, <4>1
    <3> QED
      BY <3>1, <3>2
  <2>3. At(Owner, "compete")' => own' <= top'
    BY <1>0, <1>1, <2>1 DEF At
  <2> QED
    BY <2>2, <2>3 DEF Ends
<1>5. ThievesAhead'
  <2> SUFFICES ASSUME NEW y \in Thieves \ {x} PROVE Ahead(y)'
    BY DEF ThievesAhead
  <2>1. Ahead(y) /\ loc[y].t \in Nat
    BY <1>0 DEF ThievesAhead, TypeOK
  <2> QED
    BY <1>0, <1>1, <2>1 DEF Ahead, At
<1>6. Whole'
  BY <1>0, <1>1, HoldsSame, WholeStays
<1> QED
  BY <1>0, <1>2, <1>3, <1>4, <1>5, <1>6 DEF RingInv, RingAssumption

LEMMA StealsStay ==
  ASSUME RingInv, NEW x \in Thieves, StealTop(x) \/ StealBottom(x) \/ StealRead(x) \/ StealCas(x)
  PROVE  RingInv'
<1>0. /\ RingAssumption /\ TypeOK /\ top \in Nat /\ bottom \in Nat /\ x \in {Owner} \cup Thieves
      /\ loc \in [Thieves -> [t : Nat, item : Items \cup {Torn, None}]]
      /\ buffer \in [Slots -> Items \cup {Torn, None}]
      /\ pc \in [{Owner} \cup Thieves -> {"idle", "reload", "compete", "bottom", "read", "cas"}]
      /\ answer \in [{Owner} \cup Thieves -> Items \cup {None}]
      /\ NoLoc \in [t : Nat, item : Items \cup {Torn, None}]
      /\ Ahead(x) /\ loc[x].t \in Nat
  BY Basics DEF TypeOK, NoLoc, RingInv, ThievesAhead
<1>1. CASE StealTop(x)
  <2> DEFINE r == [t |-> top, item |-> loc[x].item]
  <2>0. /\ loc[x] \in [t : Nat, item : Items \cup {Torn, None}]
        /\ loc' = [loc EXCEPT ![x] = [loc[x] EXCEPT !.t = top]]
    BY <1>0, <1>1 DEF StealTop
  <2>1. r \in [t : Nat, item : Items \cup {Torn, None}] /\ loc' = [loc EXCEPT ![x] = r]
    <3>1. [loc[x] EXCEPT !.t = top] = r
      BY <2>0
    <3>2. loc[x].item \in Items \cup {Torn, None}
      BY <2>0
    <3> QED
      BY <1>0, <2>0, <3>1, <3>2
  <2>2. loc'[x].t = top /\ pc'[x] = "bottom"
    BY <1>0, <1>1 DEF StealTop, Goto
  <2>3. Ahead(x)'
    BY <1>0, <1>1, <2>2 DEF StealTop, Ahead, At
  <2> HIDE DEF r
  <2> QED
    BY <1>0, <1>1, <2>1, <2>3, ThiefMoves DEF StealTop, ThiefPlaces
<1>2. CASE StealBottom(x) /\ loc[x].t < bottom /\ Goto(x, "read") /\ UNCHANGED <<loc, answer>>
  <2>1. loc' = [loc EXCEPT ![x] = loc[x]] /\ pc'[x] = "read"
        /\ UNCHANGED <<top, bottom, buffer, stores, own, pushes>>
    BY <1>0, <1>2 DEF StealBottom, Goto
  <2>2. Last' = Last
    BY <1>0, <1>2, <2>1, Basics DEF Last, At, Goto
  <2>3. Ahead(x)'
    BY <1>0, <1>2, <2>1, <2>2, BelowBottom DEF Ahead, At
  <2> QED
    BY <1>0, <1>2, <2>1, <2>3, ThiefMoves DEF ThiefPlaces
<1>3. CASE StealBottom(x) /\ Return(x, None) /\ Forget(x)
  <2>1. loc' = [loc EXCEPT ![x] = NoLoc] /\ pc'[x] = "idle" /\ loc'[x] = NoLoc
        /\ UNCHANGED <<top, bottom, buffer, stores, own, pushes>>
    BY <1>0, <1>3 DEF StealBottom, Forget, Return, Goto
  <2>2. Ahead(x)'
    BY <1>0, <2>1 DEF Ahead, At, NoLoc
  <2> QED
    BY <1>0, <1>3, <2>1, <2>2, ReturnType, ThiefMoves DEF ThiefPlaces
<1>4. CASE StealRead(x)
  <2> DEFINE r == [t |-> loc[x].t, item |-> buffer[Slot(loc[x].t)]]
  <2>0. /\ loc[x] \in [t : Nat, item : Items \cup {Torn, None}]
        /\ loc' = [loc EXCEPT ![x] = [loc[x] EXCEPT !.item = buffer[Slot(loc[x].t)]]]
        /\ buffer[Slot(loc[x].t)] \in Items \cup {Torn, None}
    BY <1>0, <1>4, SlotType DEF StealRead
  <2>1. r \in [t : Nat, item : Items \cup {Torn, None}] /\ loc' = [loc EXCEPT ![x] = r]
    <3>1. [loc[x] EXCEPT !.item = buffer[Slot(loc[x].t)]] = r
      BY <2>0
    <3> QED
      BY <1>0, <2>0, <3>1
  <2>2. /\ loc'[x].t = loc[x].t /\ loc'[x].item = buffer[Slot(loc[x].t)] /\ pc'[x] = "cas"
        /\ pc[x] = "read" /\ pc'[Owner] = pc[Owner] /\ Goto(x, "cas")
        /\ UNCHANGED <<top, bottom, buffer, stores, own, pushes, answer>>
    BY <1>0, <1>4, Basics DEF StealRead, Goto, At
  <2>3. Ahead(x)'
    BY <1>0, <2>2 DEF Ahead, At, Last
  <2> HIDE DEF r
  <2> QED
    BY <1>0, <2>1, <2>2, <2>3, ThiefMoves DEF ThiefPlaces
<1>5. CASE StealCas(x)
  <2>1. /\ loc' = [loc EXCEPT ![x] = NoLoc] /\ loc'[x] = NoLoc /\ pc[x] = "cas"
        /\ UNCHANGED <<bottom, buffer, stores, own, pushes>>
    BY <1>0, <1>5 DEF StealCas, Forget, At
  <2>2. top' \in Nat
    BY <1>0, <1>5 DEF StealCas
  <2>3. ASSUME NEW a, Return(x, a) PROVE Ahead(x)'
    <3>1. pc'[x] = "idle"
      BY <1>0, <2>3 DEF Return, Goto
    <3> QED
      BY <2>1, <2>2, <3>1 DEF Ahead, At, NoLoc
  <2>4. CASE top = loc[x].t /\ top' = top + 1 /\ Return(x, loc[x].item)
    <3>1. /\ top < Last /\ \A j \in DOMAIN stores : stores[j].slot # Slot(top)
          /\ loc[x].item = buffer[Slot(top)]
      BY <1>0, <2>1, <2>4 DEF Ahead, At
    <3>2. \E v \in Items : Holds(top, v)
      BY <3>1, Basics DEF RingInv, Whole
    <3>3. loc[x].item \in Items
      BY <3>1, <3>2 DEF Holds, ToSlot
    <3> QED
      BY <1>0, <2>1, <2>3, <2>4, <3>1, <3>3, ReturnType, ThiefMoves DEF ThiefPlaces
  <2>5. CASE top # loc[x].t /\ UNCHANGED top /\ Return(x, None)
    BY <1>0, <2>1, <2>3, <2>5, ReturnType, ThiefMoves DEF ThiefPlaces
  <2> QED
    BY <1>5, <2>4, <2>5 DEF StealCas
<1> QED
  BY <1>1, <1>2, <1>3, <1>4, <1>5 DEF StealBottom

-----------------------------------------------------------------------------
(* push_back, the store buffer and clear keep it.                          *)

LEMMA PushKnown ==
  ASSUME RingInv, NEW i \in Items, stores' = stores \o PushStores(i)
  PROVE  /\ stores' \in Seq(Stores) /\ Len(stores) \in Nat /\ Len(stores') = Len(stores) + 3
         /\ DOMAIN stores = 1 .. Len(stores) /\ DOMAIN stores' = 1 .. (Len(stores) + 3)
         /\ \A j \in 1 .. Len(stores) : stores'[j] = stores[j]
         /\ stores'[Len(stores) + 1] = ToSlot(own, Torn)
         /\ stores'[Len(stores) + 2] = ToSlot(own, i)
         /\ stores'[Len(stores) + 3] = ToBottom(own + 1)
<1>1. /\ ToSlot(own, Torn) \in Stores /\ ToSlot(own, i) \in Stores
      /\ ToBottom(own + 1) \in Stores
  BY Basics, SlotType DEF ToSlot, ToBottom, Stores
<1>2. /\ PushStores(i) \in Seq(Stores) /\ Len(PushStores(i)) = 3
      /\ PushStores(i)[1] = ToSlot(own, Torn) /\ PushStores(i)[2] = ToSlot(own, i)
      /\ PushStores(i)[3] = ToBottom(own + 1)
  BY <1>1 DEF PushStores
<1>3. stores \in Seq(Stores) /\ Len(stores) \in Nat /\ DOMAIN stores = 1 .. Len(stores)
  BY StoresType DEF RingInv
<1>4. /\ stores' \in Seq(Stores) /\ Len(stores') = Len(stores) + 3
      /\ \A j \in 1 .. (Len(stores) + 3) :
           stores'[j] = IF j <= Len(stores) THEN stores[j] ELSE PushStores(i)[j - Len(stores)]
  <2>1. stores \o PushStores(i) \in Seq(Stores)
    BY <1>2, <1>3, ConcatProperties
  <2>2. Len(stores \o PushStores(i)) = Len(stores) + Len(PushStores(i))
    BY <1>2, <1>3, ConcatProperties
  <2>3. \A j \in 1 .. (Len(stores) + Len(PushStores(i))) :
          (stores \o PushStores(i))[j] =
             IF j <= Len(stores) THEN stores[j] ELSE PushStores(i)[j - Len(stores)]
    BY <1>2, <1>3, ConcatProperties
  <2> QED
    BY <1>2, <2>1, <2>2, <2>3
<1>5. DOMAIN stores' = 1 .. (Len(stores) + 3)
  BY <1>3, <1>4
<1> QED
  BY <1>2, <1>3, <1>4, <1>5

LEMMA PushBackStays == RingInv /\ PushBack => RingInv'
<1> SUFFICES ASSUME RingInv, PushBack PROVE RingInv'
  OBVIOUS
<1>0. /\ UNCHANGED <<top, bottom, buffer, loc>> /\ At(Owner, "idle")
      /\ RingAssumption /\ TypeOK /\ Last = own
      /\ top \in Nat /\ bottom \in Nat /\ own \in Nat /\ Capacity \in Nat \ {0}
      /\ top <= own /\ own <= top + Capacity
      /\ pushes' \in Items /\ pushes' \in 0 .. PushBound
  BY Basics DEF PushBack, At, TypeOK, RingAssumption, Items
<1>1. ASSUME NEW a \in Items \cup {None}, Return(Owner, a)
      PROVE  pc' = pc /\ answer' \in [{Owner} \cup Thieves -> Items \cup {None}] /\ Last' = own'
  <2>1. pc' = pc
    BY <1>0, <1>1 DEF Return, Goto, At, TypeOK
  <2> QED
    BY <1>0, <1>1, <2>1, ReturnType DEF Last, At
<1>2. CASE Return(Owner, None) /\ UNCHANGED <<stores, own>>
  <2>1. pc' = pc /\ answer' \in [{Owner} \cup Thieves -> Items \cup {None}] /\ Last' = own'
    BY <1>1, <1>2
  <2>2. TypeOK'
    BY <1>0, <1>2, <2>1 DEF TypeOK
  <2>3. StoresKnown' /\ Ends'
    BY <1>0, <1>2, <2>1 DEF RingInv, StoresKnown, Ends, At
  <2>4. ThievesAhead'
    BY <1>0, <1>2, <2>1, ThievesStay
  <2>5. Whole'
    BY <1>0, <1>2, <2>1, HoldsSame, WholeStays
  <2> QED
    BY <1>0, <2>2, <2>3, <2>4, <2>5 DEF RingInv, RingAssumption
<1>3. CASE /\ own - top < Capacity /\ own' = own + 1
           /\ stores' = stores \o PushStores(pushes') /\ Return(Owner, pushes')
  <2>0. PICK p \in Items : pushes' = p
    BY <1>0
  <2> DEFINE n == Len(stores)
  <2>1. /\ stores' \in Seq(Stores) /\ n \in Nat /\ Len(stores') = n + 3
        /\ DOMAIN stores = 1 .. n /\ DOMAIN stores' = 1 .. (n + 3)
        /\ \A j \in 1 .. n : stores'[j] = stores[j]
        /\ stores'[n + 1] = ToSlot(own, Torn) /\ stores'[n + 2] = ToSlot(own, p)
        /\ stores'[n + 3] = ToBottom(own + 1)
    BY <1>3, <2>0, PushKnown
  <2>2. /\ pc' = pc /\ answer' \in [{Owner} \cup Thieves -> Items \cup {None}]
        /\ Last' = own + 1 /\ own' = own + 1
    BY <1>0, <1>1, <1>3
  <2>3. TypeOK'
    BY <1>0, <2>1, <2>2 DEF TypeOK, Stores
  <2>4. StoresKnown'
    <3>1. Pending(stores, n, bottom, own)
      BY <1>0 DEF RingInv, StoresKnown
    <3>2. Pending(stores', n + 3, bottom, own + 1)
      BY <1>0, <2>1, <3>1, PendingPush
    <3> QED
      BY <1>0, <2>1, <2>2, <3>2 DEF StoresKnown, At
  <2>5. Ends'
    <3>1. own + 1 - top \in 0 .. Capacity
      BY <1>0, <1>3
    <3> QED
      BY <1>0, <2>2, <3>1 DEF Ends, At
  <2> HIDE DEF n
  \* The new stores go to none of the slots in use.
  <2>6. ASSUME NEW i \in top .. (own - 1), NEW j \in (n + 1) .. (n + 3)
        PROVE  stores'[j].slot # Slot(i)
    <3>1. Slot(i) # Slot(own) /\ Slot(i) # None
      BY <1>0, <1>3, SlotApart, SlotType
    <3>2. j = n + 1 \/ j = n + 2 \/ j = n + 3
      BY <2>1
    <3> QED
      BY <2>1, <3>1, <3>2 DEF ToSlot, ToBottom
  <2>7. ThievesAhead'
    <3>1. ASSUME top < own, \A j \in DOMAIN stores : stores[j].slot # Slot(top)
          PROVE  \A j \in DOMAIN stores' : stores'[j].slot # Slot(top)
      <4>1. \A j \in 1 .. (n + 3) : j \in 1 .. n \/ j \in (n + 1) .. (n + 3)
        BY <2>1
      <4>2. top \in top .. (own - 1)
        BY <1>0, <3>1
      <4> QED
        BY <2>1, <2>6, <3>1, <4>1, <4>2
    <3> QED
      BY <1>0, <2>2, <3>1, ThievesStay
  <2>8. Whole'
    <3>1. ASSUME NEW i \in top .. own PROVE \E v \in Items : Holds(i, v)'
      <4>1. CASE i = own
        <5>1. n + 2 \in DOMAIN stores' /\ stores'[n + 2] = ToSlot(i, p)
          BY <2>1, <4>1
        <5>2. \A k \in DOMAIN stores' : k > n + 2 => stores'[k].slot # Slot(i)
          <6> SUFFICES ASSUME NEW k \in 1 .. (n + 3), k > n + 2 PROVE stores'[k].slot # Slot(i)
            BY <2>1
          <6>1. k = n + 3
            BY <2>1
          <6> QED
            BY <1>0, <2>1, <4>1, <6>1, SlotType DEF ToBottom
        <5>3. Holds(i, p)'
          BY <5>1, <5>2 DEF Holds, ToSlot
        <5> QED
          BY <1>0, <5>3
      <4>2. CASE i # own
        <5>1. i \in top .. (own - 1) /\ i \in Int
          BY <1>0, <4>2
        <5>2. PICK v \in Items : Holds(i, v)
          BY <1>0, <5>1 DEF RingInv, Whole
        <5>3. n + 3 \in Nat /\ n <= n + 3
          BY <2>1
        <5>4. Holds(i, v)'
          BY <1>0, <2>1, <2>6, <5>1, <5>2, <5>3, HoldsLonger
        <5> QED
          BY <5>4
      <4> QED
        BY <4>1, <4>2
    <3>2. own + 1 - 1 = own
      BY <1>0
    <3> QED
      BY <1>0, <2>2, <3>1, <3>2 DEF Whole, Items
  <2> QED
    BY <1>0, <2>3, <2>4, <2>5, <2>7, <2>8 DEF RingInv, RingAssumption
<1> QED
  BY <1>2, <1>3 DEF PushBack

LEMMA ClearStays == RingInv /\ Clear => RingInv'
<1> SUFFICES ASSUME RingInv, Clear PROVE RingInv'
  OBVIOUS
<1>0. /\ RingAssumption /\ TypeOK /\ ThievesAhead /\ stores = <<>>
      /\ top' = 0 /\ bottom' = 0 /\ own' = 0
      /\ UNCHANGED <<buffer, stores, pc, loc, pushes, answer>>
      /\ \A x \in {Owner} \cup Thieves : pc[x] = "idle"
  BY DEF RingInv, Clear, At
<1>1. Last' = 0
  BY <1>0 DEF Last, At
<1>2. TypeOK'
  BY <1>0 DEF TypeOK
<1>3. StoresKnown'
  BY <1>0, PendingNone DEF StoresKnown, At
<1>4. Ends'
  BY <1>0, <1>1 DEF Ends, At, RingAssumption
<1>5. ThievesAhead'
  BY <1>0 DEF ThievesAhead, Ahead, At, NoLoc
<1>6. Whole'
  BY <1>0, <1>1 DEF Whole
<1> QED
  BY <1>0, <1>2, <1>3, <1>4, <1>5, <1>6 DEF RingInv, RingAssumption

LEMMA InitInv == RingAssumption /\ Init => RingInv
<1> SUFFICES ASSUME RingAssumption, Init PROVE RingInv
  OBVIOUS
<1>1. Last = 0 /\ top = 0
  BY DEF Init, Last, At
<1>2. StoresKnown
  BY PendingNone DEF Init, StoresKnown, At
<1>3. Ends
  BY <1>1 DEF Init, Ends, At, RingAssumption
<1>4. ThievesAhead
  <2> SUFFICES ASSUME NEW x \in Thieves PROVE Ahead(x)
    BY DEF ThievesAhead
  <2>1. pc[x] = "idle" /\ loc[x] = NoLoc /\ loc[x].t = 0 /\ 0 <= top
    BY DEF Init, NoLoc
  <2> QED
    BY <2>1 DEF Ahead, At
<1>5. Whole
  BY <1>1 DEF Whole
<1> QED
  BY <1>2, <1>3, <1>4, <1>5, InitType DEF RingInv

\* The oldest store, and what is left behind it.
LEMMA DrainKnown ==
  ASSUME RingInv, Drain
  PROVE  /\ Len(stores) \in Nat \ {0} /\ DOMAIN stores = 1 .. Len(stores)
         /\ stores' \in Seq(Stores) /\ Len(stores') = Len(stores) - 1
         /\ DOMAIN stores' = 1 .. (Len(stores) - 1)
         /\ \A j \in 1 .. (Len(stores) - 1) : stores'[j] = stores[j + 1]
         /\ stores[1] \in Stores
         /\ \/ stores[1].slot = None /\ bottom' = stores[1].val /\ UNCHANGED buffer
            \/ /\ stores[1].slot # None /\ UNCHANGED bottom
               /\ buffer' = [buffer EXCEPT ![stores[1].slot] = stores[1].val]
<1>1. stores \in Seq(Stores) /\ stores # <<>> /\ stores' = Tail(stores)
  BY StoresType DEF Drain, RingInv
<1>2. /\ Len(stores) \in Nat \ {0} /\ Head(stores) = stores[1] /\ stores[1] \in Stores
      /\ DOMAIN stores = 1 .. Len(stores)
  BY <1>1
<1>3. /\ stores' \in Seq(Stores) /\ Len(stores') = Len(stores) - 1
      /\ \A j \in 1 .. (Len(stores) - 1) : stores'[j] = stores[j + 1]
  BY <1>1, <1>2, HeadTailProperties
<1>4. DOMAIN stores' = 1 .. (Len(stores) - 1)
  BY <1>3
<1> QED
  BY <1>2, <1>3, <1>4 DEF Drain

LEMMA DrainPending ==
  ASSUME RingInv, Drain, NEW n \in Nat \ {0}, n <= Len(stores), NEW e \in Nat,
         Pending(stores, n, bottom, e)
  PROVE  /\ Pending(stores', n - 1, bottom', e)
         /\ bottom' = bottom \/ bottom' = bottom + 1
<1> DEFINE s == stores[1]
<1>1. /\ Len(stores) \in Nat \ {0}
      /\ \A j \in 1 .. (Len(stores) - 1) : stores'[j] = stores[j + 1]
      /\ s \in Stores
      /\ \/ s.slot = None /\ bottom' = s.val
         \/ s.slot # None /\ UNCHANGED bottom
  BY DrainKnown
<1>2. bottom \in Nat /\ RingAssumption /\ None \notin Nat
  BY Basics DEF RingAssumption
<1>3. s.slot = None => s.val \in Nat
  BY <1>1, <1>2 DEF Stores, Slots
<1> HIDE DEF s
<1>4. bottom' \in Nat /\ bottom' = IF s.slot = None THEN s.val ELSE bottom
  BY <1>1, <1>2, <1>3
<1>7. PICK b \in Nat : bottom' = b
  BY <1>4
<1>5. \A j \in 1 .. (n - 1) : stores'[j] = stores[j + 1]
  BY <1>1
<1>6. Pending(stores', n - 1, b, e)
  BY <1>1, <1>2, <1>4, <1>5, <1>7, PendingDrain DEF s
<1>8. b = bottom \/ b = bottom + 1
  BY <1>1, <1>2, <1>4, <1>5, <1>6, <1>7, PendingDrain DEF s
<1> QED
  BY <1>6, <1>7, <1>8

LEMMA DrainStays == RingInv /\ Drain => RingInv'
<1> SUFFICES ASSUME RingInv, Drain PROVE RingInv'
  OBVIOUS
<1> DEFINE n == Len(stores)
           s == stores[1]
<1>0. /\ RingAssumption /\ TypeOK /\ StoresKnown
      /\ UNCHANGED <<top, pc, own, loc, pushes, answer>> /\ Last' = Last
      /\ top \in Nat /\ bottom \in Nat /\ own \in Nat /\ Last \in Nat /\ None \notin Nat
      /\ buffer \in [Slots -> Items \cup {Torn, None}]
  BY Basics DEF Drain, RingInv, Last, At, TypeOK, RingAssumption
<1>1. /\ n \in Nat \ {0} /\ DOMAIN stores = 1 .. n
      /\ stores' \in Seq(Stores) /\ Len(stores') = n - 1 /\ DOMAIN stores' = 1 .. (n - 1)
      /\ \A j \in 1 .. (n - 1) : stores'[j] = stores[j + 1]
      /\ s \in Stores
      /\ \/ s.slot = None /\ bottom' = s.val /\ UNCHANGED buffer
         \/ /\ s.slot # None /\ UNCHANGED bottom
            /\ buffer' = [buffer EXCEPT ![s.slot] = s.val]
  BY DrainKnown
<1>2. /\ s.slot = None => s.val \in Nat
      /\ s.slot # None => s.slot \in Slots /\ s.val \in Items \cup {Torn}
  BY <1>0, <1>1 DEF Stores, Slots
<1> HIDE DEF n, s
<1>3. /\ bottom' \in Nat /\ buffer' \in [Slots -> Items \cup {Torn, None}]
      /\ bottom' = IF s.slot = None THEN s.val ELSE bottom
  BY <1>0, <1>1, <1>2
<1>4. TypeOK'
  BY <1>0, <1>1, <1>3 DEF TypeOK, Stores
<1>5. StoresKnown'
  <2>0. PICK b \in Nat : bottom' = b
    BY <1>3
  <2>1. CASE At(Owner, "idle")
    <3>1. Pending(stores, n, bottom, own)
      BY <1>0, <2>1 DEF StoresKnown, n
    <3>2. Pending(stores', n - 1, b, own)
      BY <1>0, <1>1, <2>0, <3>1, DrainPending DEF n
    <3> QED
      BY <1>0, <1>1, <2>0, <2>1, <3>2 DEF StoresKnown, At
  <2>2. CASE /\ At(Owner, "reload") /\ stores[n] = ToBottom(own)
             /\ Pending(stores, n - 1, bottom, own + 1)
    <3>1. CASE n = 1
      <4>1. s.slot = None /\ s.val = own
        BY <2>2, <3>1 DEF s, ToBottom
      <4>2. stores' = <<>>
        BY <1>1, <3>1
      <4> QED
        BY <1>0, <1>3, <2>2, <4>1, <4>2 DEF StoresKnown, At
    <3>2. CASE n # 1
      <4>1. n - 1 \in Nat \ {0} /\ n - 2 \in Nat /\ n - 1 - 1 = n - 2
            /\ own + 1 \in Nat /\ (n - 1) + 1 = n /\ n - 1 \in 1 .. (n - 1)
        BY <1>0, <1>1, <3>2
      <4>2. \A j \in 1 .. (n - 1 - 1) : stores'[j] = stores[j + 1]
        BY <1>1
      <4>3. Pending(stores', n - 1 - 1, b, own + 1)
        <5>1. n - 1 <= Len(stores)
          BY <1>1 DEF n
        <5> QED
          BY <2>0, <2>2, <4>1, <5>1, DrainPending
      <4>4. stores'[n - 1] = ToBottom(own) /\ stores' # <<>>
        BY <1>1, <2>2, <4>1
      <4> QED
        BY <1>0, <1>1, <2>0, <2>2, <4>3, <4>4 DEF StoresKnown, At
    <3> QED
      BY <3>1, <3>2
  <2>3. stores # <<>>
    BY <1>1
  <2> QED
    BY <1>0, <2>1, <2>2, <2>3 DEF StoresKnown, At, RingInv, TypeOK, n
<1>6. Ends'
  BY <1>0 DEF RingInv, Ends, At
<1>7. ThievesAhead'
  <2>1. ASSUME \A j \in DOMAIN stores : stores[j].slot # Slot(top)
        PROVE  /\ \A j \in DOMAIN stores' : stores'[j].slot # Slot(top)
               /\ buffer'[Slot(top)] = buffer[Slot(top)]
    <3>1. s.slot # Slot(top)
      BY <1>1, <2>1 DEF s
    <3>2. Slot(top) \in Slots
      BY <1>0, SlotType
    <3>3. buffer'[Slot(top)] = buffer[Slot(top)]
      BY <1>0, <1>1, <3>1, <3>2
    <3>4. \A j \in DOMAIN stores' : stores'[j].slot # Slot(top)
      BY <1>1, <2>1
    <3> QED
      BY <3>3, <3>4
  <2> QED
    BY <1>0, <2>1, ThievesStay
<1>8. Whole'
  <2>1. \A i \in top .. (Last - 1) : \A v \in Items : Holds(i, v) => Holds(i, v)'
    BY <1>0, HoldsDrained
  <2> QED
    BY <1>0, <2>1, WholeStays
<1> QED
  BY <1>0, <1>4, <1>5, <1>6, <1>7, <1>8 DEF RingInv, RingAssumption

-----------------------------------------------------------------------------
(* The theorems.                                                           *)

LEMMA NextInv == RingInv /\ [Next]_vars => RingInv'
<1> SUFFICES ASSUME RingInv, [Next]_vars PROVE RingInv'
  OBVIOUS
<1>1. ASSUME UNCHANGED vars PROVE RingInv'
  <2>0. /\ UNCHANGED <<top, bottom, buffer, stores, pc, own, loc, pushes, answer>>
        /\ RingAssumption /\ TypeOK /\ StoresKnown /\ Ends /\ ThievesAhead /\ Whole
        /\ Last' = Last
    BY <1>1 DEF vars, RingInv, Last, At
  <2>1. TypeOK' /\ StoresKnown' /\ Ends'
    BY <2>0 DEF TypeOK, StoresKnown, Ends, At
  <2>2. ThievesAhead'
    BY <2>0, ThievesStay
  <2>3. Whole'
    BY <2>0, HoldsSame, WholeStays, Basics
  <2> QED
    BY <2>0, <2>1, <2>2, <2>3 DEF RingInv, RingAssumption
<1> QED
  BY <1>1, PushBackStays, PopReserveStays, PopReloadStays, PopCompeteStays, DrainStays,
     ClearStays, StealsStay DEF Next

\* The invariant that carries the proofs: from the stores of push_back and pop_back that other
\* threads cannot see yet it follows what a thief finds at an index (spmc_ring.hpp:81-190).
THEOREM RingCorrect == RingAssumption /\ Spec => []RingInv
<1>1. RingAssumption /\ Init => RingInv
  BY InitInv
<1>2. RingInv /\ [Next]_vars => RingInv'
  BY NextInv
<1> QED
  BY <1>1, <1>2, PTL DEF Spec

\* Between two calls of the owner, top_ and bottom_ are at most Capacity apart and the unsigned
\* difference that push_back computes does not wrap (spmc_ring.hpp:81-102).
THEOREM DistanceTheorem == RingAssumption /\ Spec => []IndexDistance
<1>1. RingInv => IndexDistance
  BY DEF RingInv, Ends, IndexDistance, Last
<1> QED
  BY <1>1, RingCorrect, PTL

\* Whatever pop_back and steal return is an item that was pushed, never a slot half written
\* (the range of answer in TypeOK; spmc_ring.hpp:104-190).
THEOREM TypeTheorem == RingAssumption /\ Spec => []TypeOK
<1>1. RingInv => TypeOK
  BY DEF RingInv
<1> QED
  BY <1>1, RingCorrect, PTL

-----------------------------------------------------------------------------
(* The deque that the ring implements.                                     *)

\* The item held at the n-th index from top is the n-th of the abstract deque.
ContentKnown ==
  /\ Content \in Seq(Items)
  /\ Len(Content) = Last - top
  /\ \A i \in top .. (Last - 1) : \A v \in Items : Holds(i, v) => Content[i - top + 1] = v

LEMMA ContentIsKnown == RingInv => ContentKnown
<1> SUFFICES ASSUME RingInv PROVE ContentKnown
  OBVIOUS
<1>1. /\ top \in Nat /\ Last \in Nat /\ top <= Last /\ RingAssumption /\ TypeOK
      /\ MaxOf(Last - top, 0) = Last - top /\ Last - top \in Nat
  BY Basics DEF MaxOf
<1>2. \A i \in top .. (Last - 1) : ItemAt(i) \in Items
  BY <1>1, HoldsAt DEF RingInv, Whole
<1>3. \A n \in 1 .. (Last - top) : top + n - 1 \in top .. (Last - 1)
  BY <1>1
<1>4. Content = [n \in 1 .. (Last - top) |-> ItemAt(top + n - 1)]
  BY <1>1 DEF Content
<1>5. Content \in [1 .. (Last - top) -> Items]
  BY <1>2, <1>3, <1>4
<1>6. Content \in Seq(Items) /\ Len(Content) = Last - top
  BY <1>1, <1>5
<1>7. ASSUME NEW i \in top .. (Last - 1), NEW v \in Items, Holds(i, v)
      PROVE  Content[i - top + 1] = v
  <2>1. i - top + 1 \in 1 .. (Last - top) /\ top + (i - top + 1) - 1 = i /\ i \in Int
    BY <1>1
  <2> QED
    BY <1>1, <1>4, <1>7, <2>1, HoldsAt
<1> QED
  BY <1>6, <1>7 DEF ContentKnown

\* What stays in the deque when indices go out of it.
LEMMA ContentLeft ==
  ASSUME RingInv, RingInv', NEW a \in Nat, NEW b \in Nat, top' = a, Last' = b, top <= a, b <= Last,
         \A i \in top .. (Last - 1) : \A v \in Items : Holds(i, v) => Holds(i, v)'
  PROVE  /\ Content' \in Seq(Items) /\ Len(Content') = b - a /\ a <= b
         /\ \A n \in 1 .. (b - a) : Content'[n] = Content[n + (a - top)]
<1>1. ContentKnown /\ ContentKnown'
  BY ContentIsKnown, PTL
<1>2. top \in Nat /\ Last \in Nat /\ a <= b
  <2>1. top \in Nat /\ Last \in Nat
    BY Basics
  <2>2. Last' - top' \in 0 .. Capacity /\ Capacity \in Nat
    BY Basics DEF RingInv, Ends
  <2>3. b - a \in 0 .. Capacity
    BY <2>2
  <2> QED
    BY <2>1, <2>2, <2>3
<1>3. Content' \in Seq(Items) /\ Len(Content') = b - a
  BY <1>1 DEF ContentKnown, Items
<1>4. ASSUME NEW n \in 1 .. (b - a) PROVE Content'[n] = Content[n + (a - top)]
  <2>1. PICK i \in Nat : i = n + a - 1
    BY <1>2
  <2>2. /\ i \in top .. (Last - 1) /\ i - top + 1 = n + (a - top)
        /\ i \in a .. (b - 1) /\ i - a + 1 = n
    BY <1>2, <2>1
  <2>3. PICK v \in Items : Holds(i, v)
    BY <2>2 DEF RingInv, Whole
  <2>4. Content[i - top + 1] = v
    BY <1>1, <2>2, <2>3 DEF ContentKnown
  <2>5. Content'[i - a + 1] = v
    BY <1>1, <2>2, <2>3 DEF ContentKnown, Items
  <2> QED
    BY <2>2, <2>4, <2>5
<1> QED
  BY <1>2, <1>3, <1>4

LEMMA ContentSame ==
  ASSUME RingInv, RingInv', UNCHANGED top, Last' = Last,
         \A i \in top .. (Last - 1) : \A v \in Items : Holds(i, v) => Holds(i, v)'
  PROVE  Content' = Content
<1>1. PICK a \in Nat, b \in Nat : a = top /\ b = Last
  BY Basics
<1>2. /\ Content' \in Seq(Items) /\ Len(Content') = b - a
      /\ \A n \in 1 .. (b - a) : Content'[n] = Content[n + (a - top)]
  BY <1>1, ContentLeft
<1>3. Content \in Seq(Items) /\ Len(Content) = b - a
  BY <1>1, ContentIsKnown DEF ContentKnown
<1>4. \A n \in 1 .. (b - a) : Content'[n] = Content[n]
  BY <1>1, <1>2
<1> QED
  BY <1>2, <1>3, <1>4, SeqEqual

LEMMA ContentTail ==
  ASSUME RingInv, RingInv', top' = top + 1, Last' = Last,
         \A i \in top .. (Last - 1) : \A v \in Items : Holds(i, v) => Holds(i, v)'
  PROVE  Content # <<>> /\ Content' = Tail(Content)
<1>0. top \in Nat /\ Last \in Nat
  BY Basics
<1>1. PICK a \in Nat, b \in Nat : a = top + 1 /\ b = Last
  BY <1>0
<1>2. /\ Content' \in Seq(Items) /\ Len(Content') = b - a /\ a <= b
      /\ \A n \in 1 .. (b - a) : Content'[n] = Content[n + (a - top)]
  BY <1>0, <1>1, ContentLeft
<1>3. Content \in Seq(Items) /\ Len(Content) = b - a + 1 /\ top \in Nat
  BY <1>1, ContentIsKnown, Basics DEF ContentKnown
<1>4. Content # <<>>
  BY <1>1, <1>2, <1>3
<1>5. /\ Tail(Content) \in Seq(Items) /\ Len(Tail(Content)) = b - a
      /\ \A n \in 1 .. (b - a) : Tail(Content)[n] = Content[n + 1]
  BY <1>1, <1>3, <1>4, HeadTailProperties
<1>6. \A n \in 1 .. (b - a) : Content'[n] = Tail(Content)[n]
  BY <1>1, <1>2, <1>3, <1>5
<1> QED
  BY <1>2, <1>4, <1>5, <1>6, SeqEqual

LEMMA ContentFront ==
  ASSUME RingInv, RingInv', UNCHANGED top, Last' = Last - 1,
         \A i \in top .. (Last - 1) : \A v \in Items : Holds(i, v) => Holds(i, v)'
  PROVE  Content # <<>> /\ Content' = SubSeq(Content, 1, Len(Content) - 1)
<1>0. top \in Nat /\ Last \in Nat /\ top <= Last
  BY Basics
<1>1. Last - 1 \in Nat
  <2>1. Last' - top' \in 0 .. Capacity /\ Capacity \in Nat
    BY Basics DEF RingInv, Ends
  <2>2. Last - 1 - top \in 0 .. Capacity
    BY <2>1
  <2> QED
    BY <1>0, <2>1, <2>2
<1>2. PICK a \in Nat, b \in Nat : a = top /\ b = Last - 1
  BY <1>0, <1>1
<1>3. /\ Content' \in Seq(Items) /\ Len(Content') = b - a /\ a <= b
      /\ \A n \in 1 .. (b - a) : Content'[n] = Content[n + (a - top)]
  BY <1>0, <1>2, ContentLeft
<1>4. Content \in Seq(Items) /\ Len(Content) = b - a + 1
  BY <1>0, <1>2, ContentIsKnown DEF ContentKnown
<1>5. Content # <<>>
  BY <1>3, <1>4
<1>6. /\ SubSeq(Content, 1, b - a) \in Seq(Items) /\ Len(SubSeq(Content, 1, b - a)) = b - a
      /\ \A n \in 1 .. (b - a) : SubSeq(Content, 1, b - a)[n] = Content[n]
  BY <1>3, <1>4, SubSeqProperties
<1>7. \A n \in 1 .. (b - a) : Content'[n] = SubSeq(Content, 1, b - a)[n]
  BY <1>2, <1>3, <1>6
<1>8. Len(Content) - 1 = b - a
  BY <1>4, <1>2
<1> QED
  BY <1>3, <1>5, <1>6, <1>7, <1>8, SeqEqual

\* What thieves cannot see, whatever the order in which the stores reach memory.
HiddenKnown ==
  /\ bottom <= Last
  /\ bottom <= top => Hidden = Last - top
  /\ bottom > top  => Hidden = Last - bottom

LEMMA HiddenIsKnown == RingInv => HiddenKnown
<1> SUFFICES ASSUME RingInv PROVE HiddenKnown
  OBVIOUS
<1>0. /\ top \in Nat /\ bottom \in Nat /\ own \in Nat /\ Last \in Nat /\ top <= Last
      /\ Len(stores) \in Nat /\ stores # <<>> => Len(stores) - 1 \in Nat
      /\ pc[Owner] \in OwnerPlaces
  <2>1. stores \in Seq(Stores)
    BY StoresType DEF RingInv
  <2>2. Len(stores) \in Nat /\ stores # <<>> => Len(stores) - 1 \in Nat
    BY <2>1
  <2> QED
    BY <2>2, Basics
<1>1. bottom <= Last
  <2>1. CASE At(Owner, "idle")
    <3>1. Pending(stores, Len(stores), bottom, own) /\ Last = own
      BY <2>1 DEF RingInv, StoresKnown, Last
    <3> QED
      BY <1>0, <3>1, PendingBottom
  <2>2. CASE ~At(Owner, "idle")
    <3>1. Last = own + 1
      BY <2>2 DEF Last
    <3>2. CASE bottom = own
      BY <1>0, <3>1, <3>2
    <3>3. CASE stores # <<>> /\ Pending(stores, Len(stores) - 1, bottom, own + 1)
      BY <1>0, <3>1, <3>3, PendingBottom
    <3> QED
      BY <1>0, <2>2, <3>2, <3>3 DEF RingInv, StoresKnown, At, OwnerPlaces
  <2> QED
    BY <2>1, <2>2
<1> QED
  BY <1>0, <1>1 DEF HiddenKnown, Hidden, MaxOf

LEMMA ThievesSame ==
  ASSUME UNCHANGED <<top, loc>>, \A x \in Thieves : pc'[x] = pc[x]
  PROVE  Calls' = Calls /\ Raced' = Raced
BY DEF Calls, Raced, At

\* Everybody is outrun when the oldest item goes.
LEMMA AllRaced ==
  ASSUME RingInv, top' = top + 1, NEW x,
         \A y \in Thieves \ {x} : pc'[y] = pc[y] /\ loc'[y] = loc[y],
         x \in Thieves => pc'[x] = "idle"
  PROVE  Calls' = Calls \ {x} /\ Raced' = Calls \ {x}
<1>1. ASSUME NEW y \in Thieves \ {x} PROVE top + 1 # loc[y].t
  <2>1. Ahead(y) /\ loc[y].t \in Nat /\ top \in Nat
    BY DEF RingInv, ThievesAhead, TypeOK
  <2> QED
    BY <2>1 DEF Ahead
<1>2. Calls' = Calls \ {x}
  BY DEF Calls, At
<1>3. \A y \in Calls' : y \in Thieves \ {x}
  BY <1>2 DEF Calls
<1> QED
  BY <1>1, <1>2, <1>3 DEF Raced

\* What a step of the owner to place l does to the variables of the deque.
LEMMA OwnerKnown ==
  ASSUME RingInv, NEW l \in OwnerPlaces, Goto(Owner, l)
  PROVE  /\ \A x \in Thieves : pc'[x] = pc[x]
         /\ Popping' = (l # "idle")
         /\ Last' = IF l = "idle" THEN own' ELSE own' + 1
<1>1. /\ pc'[Owner] = l /\ \A x \in Thieves : pc'[x] = pc[x]
      /\ Last' = IF l = "idle" THEN own' ELSE own' + 1
  BY OwnerGoes
<1>2. Popping' = (l # "idle")
  BY <1>1 DEF Popping, At
<1> QED
  BY <1>1, <1>2

-----------------------------------------------------------------------------
(* The steps of the owner.                                                 *)

LEMMA PushBackMaps ==
  ASSUME RingInv, RingInv', PushBack
  PROVE  Abstract!Next
<1>0. /\ UNCHANGED <<top, bottom, buffer, loc>> /\ At(Owner, "idle") /\ ~Popping
      /\ RingAssumption /\ TypeOK /\ Last = own
      /\ top \in Nat /\ bottom \in Nat /\ own \in Nat /\ Capacity \in Nat \ {0}
      /\ top <= own /\ own <= top + Capacity
      /\ pushes' \in Items
  BY Basics DEF PushBack, At, TypeOK, RingAssumption, Items, Popping
<1>1. /\ ContentKnown /\ ContentKnown' /\ HiddenKnown /\ HiddenKnown'
  BY ContentIsKnown, HiddenIsKnown, PTL
<1>2. ASSUME NEW a, Return(Owner, a)
      PROVE  /\ Popping' = FALSE /\ Popping = FALSE /\ Last' = own'
             /\ Calls' = Calls /\ Raced' = Raced
             /\ answer' = [answer EXCEPT ![Owner] = a]
  <2>1. Goto(Owner, "idle") /\ answer' = [answer EXCEPT ![Owner] = a]
    BY <1>2 DEF Return
  <2>2. Popping = FALSE
    BY <1>0
  <2> QED
    BY <1>0, <2>1, <2>2, OwnerKnown, ThievesSame DEF OwnerPlaces
<1>3. CASE own - top >= Capacity /\ Return(Owner, None) /\ UNCHANGED <<stores, own>>
  <2>1. Content' = Content
    BY <1>0, <1>2, <1>3, ContentSame, HoldsSame
  <2>2. Hidden' = Hidden
    BY <1>0, <1>2, <1>3 DEF Hidden, MaxOf
  <2>3. Len(Content) = Capacity
    BY <1>0, <1>1, <1>3 DEF ContentKnown
  <2>4. Abstract!Push(pushes')
    BY <1>0, <1>2, <1>3, <2>1, <2>2, <2>3 DEF Abstract!Push, Abstract!Returns, Abstract!Owner, Owner
  <2> QED
    BY <1>0, <2>4 DEF Abstract!Next
<1>4. CASE /\ own - top < Capacity /\ own' = own + 1
           /\ stores' = stores \o PushStores(pushes') /\ Return(Owner, pushes')
  <2>0. PICK p \in Items : pushes' = p
    BY <1>0
  <2> DEFINE n == Len(stores)
  <2>1. /\ n \in Nat /\ DOMAIN stores = 1 .. n /\ DOMAIN stores' = 1 .. (n + 3)
        /\ \A j \in 1 .. n : stores'[j] = stores[j]
        /\ stores'[n + 1] = ToSlot(own, Torn) /\ stores'[n + 2] = ToSlot(own, p)
        /\ stores'[n + 3] = ToBottom(own + 1)
    BY <1>4, <2>0, PushKnown
  <2> HIDE DEF n
  <2>2. ASSUME NEW i \in top .. (own - 1), NEW v \in Items, Holds(i, v) PROVE Holds(i, v)'
    <3>1. Slot(i) # Slot(own) /\ Slot(i) # None /\ i \in Int
      BY <1>0, <1>4, SlotApart, SlotType
    <3>2. \A j \in (n + 1) .. (n + 3) : j = n + 1 \/ j = n + 2 \/ j = n + 3
      BY <2>1
    <3>3. \A j \in (n + 1) .. (n + 3) : stores'[j].slot # Slot(i)
      BY <2>1, <3>1, <3>2 DEF ToSlot, ToBottom
    <3>4. n + 3 \in Nat /\ n <= n + 3
      BY <2>1
    <3> QED
      BY <1>0, <2>1, <2>2, <3>1, <3>3, <3>4, HoldsLonger
  <2>8. PICK o \in Nat : o = own
    BY <1>0
  <2>9. Last' = own + 1 /\ own' = own + 1
    BY <1>2, <1>4
  <2>3. Holds(o, p)'
    <3>1. n + 2 \in DOMAIN stores'
      BY <2>1
    <3>2. \A k \in DOMAIN stores' : k > n + 2 => k = n + 3
      BY <2>1
    <3>3. stores'[n + 2] = ToSlot(o, p) /\ o \in Int
      BY <2>1, <2>8
    <3>4. stores'[n + 3].slot # Slot(o)
      BY <1>0, <2>1, <3>3, SlotType DEF ToBottom
    <3> QED
      BY <3>1, <3>2, <3>3, <3>4 DEF Holds, ToSlot
  <2>4. Content' = Append(Content, p)
    <3>1. PICK m \in Nat : m = own - top
      BY <1>0
    <3>2. Content \in Seq(Items) /\ Len(Content) = m
      BY <1>0, <1>1, <3>1 DEF ContentKnown
    <3>3. Content' \in Seq(Items) /\ Len(Content') = m + 1
      <4>1. Content' \in Seq(Items) /\ Len(Content') = Last' - top'
        BY <1>1 DEF ContentKnown, Items
      <4>2. Last' = own + 1 /\ top' = top
        BY <1>0, <1>2, <1>4
      <4> QED
        BY <1>0, <3>1, <4>1, <4>2
    <3>4. \A i \in top .. own : \A v \in Items : Holds(i, v)' => Content'[i - top + 1] = v
      <4>1. Last' - 1 = own /\ top' = top
        BY <1>0, <2>9
      <4> QED
        BY <1>1, <4>1 DEF ContentKnown, Items
    <3>5. ASSUME NEW k \in 1 .. m PROVE Content'[k] = Content[k]
      <4>1. PICK i \in top .. (own - 1) : k = i - top + 1
        <5>1. k + top - 1 \in top .. (own - 1) /\ k = (k + top - 1) - top + 1
          BY <1>0, <3>1
        <5> QED
          BY <5>1
      <4>2. PICK v \in Items : Holds(i, v)
        BY <1>0 DEF RingInv, Whole
      <4>3. Content[k] = v
        BY <1>0, <1>1, <4>1, <4>2 DEF ContentKnown
      <4>4. i \in top .. own /\ Holds(i, v)'
        BY <1>0, <2>2, <4>2
      <4>5. Content'[k] = v
        BY <3>4, <4>1, <4>4
      <4> QED
        BY <4>3, <4>5
    <3>6. Content'[m + 1] = p
      <4>1. o \in top .. own /\ o - top + 1 = m + 1
        BY <1>0, <2>8, <3>1
      <4> QED
        BY <2>3, <3>4, <4>1
    <3>7. /\ Append(Content, p) \in Seq(Items) /\ Len(Append(Content, p)) = m + 1
          /\ Append(Content, p)[m + 1] = p
          /\ \A k \in 1 .. m : Append(Content, p)[k] = Content[k]
      BY <3>2, AppendProperties
    <3>8. \A k \in 1 .. (m + 1) : Content'[k] = Append(Content, p)[k]
      <4>1. \A k \in 1 .. (m + 1) : k \in 1 .. m \/ k = m + 1
        OBVIOUS
      <4> QED
        BY <3>5, <3>6, <3>7, <4>1
    <3> QED
      BY <3>3, <3>7, <3>8, SeqEqual
  <2>5. Hidden' = Hidden + 1
    BY <1>0, <1>1, <2>9 DEF HiddenKnown
  <2>6. Len(Content) < Capacity
    BY <1>0, <1>1, <1>4 DEF ContentKnown
  <2>7. Abstract!Push(p)
    BY <1>0, <1>2, <1>4, <2>0, <2>4, <2>5, <2>6
    DEF Abstract!Push, Abstract!Returns, Abstract!Owner, Owner
  <2> QED
    BY <2>7 DEF Abstract!Next
<1> QED
  BY <1>3, <1>4 DEF PushBack

\* An item whose slot has no pending store is the one in the slot.
LEMMA SlotContent ==
  ASSUME RingInv, NEW i \in top .. (Last - 1), \A j \in DOMAIN stores : stores[j].slot # Slot(i)
  PROVE  Content[i - top + 1] = buffer[Slot(i)]
<1>1. PICK v \in Items : Holds(i, v)
  BY DEF RingInv, Whole
<1>2. buffer[Slot(i)] = v
  BY <1>1 DEF Holds, ToSlot
<1> QED
  BY <1>1, <1>2, ContentIsKnown DEF ContentKnown

LEMMA PopReserveMaps ==
  ASSUME RingInv, RingInv', PopReserve
  PROVE  Abstract!Next
<1>0. /\ UNCHANGED <<top, bottom, buffer, loc, pushes>> /\ At(Owner, "idle")
      /\ Popping = FALSE /\ Last = own /\ top \in Nat /\ own \in Nat /\ top <= own
  BY Basics DEF PopReserve, At, Popping
<1>1. ContentKnown
  BY ContentIsKnown
<1>2. CASE top >= own /\ Return(Owner, None) /\ UNCHANGED <<own, stores>>
  <2>1. Goto(Owner, "idle") /\ answer' = [answer EXCEPT ![Owner] = None]
    BY <1>2 DEF Return
  <2>2. Popping' = FALSE /\ Last' = own' /\ Calls' = Calls /\ Raced' = Raced
    BY <1>0, <2>1, OwnerKnown, ThievesSame DEF OwnerPlaces
  <2>3. Last' = Last
    BY <1>0, <1>2, <2>2
  <2>4. Content' = Content /\ Hidden' = Hidden
    BY <1>0, <1>2, <2>3, ContentSame, HoldsSame DEF Hidden, MaxOf
  <2>5. Content = <<>>
    BY <1>0, <1>1, <1>2 DEF ContentKnown
  <2>6. Abstract!PopCall
    BY <1>0, <2>1, <2>2, <2>4, <2>5 DEF Abstract!PopCall, Abstract!Returns, Abstract!Owner, Owner
  <2> QED
    BY <2>6 DEF Abstract!Next
<1>3. CASE top < own /\ StoreBottom(own - 1) /\ Goto(Owner, "reload") /\ UNCHANGED answer
  <2>1. Popping' = TRUE /\ Last' = own' + 1 /\ Calls' = Calls /\ Raced' = Raced
    BY <1>0, <1>3, OwnerKnown, ThievesSame DEF OwnerPlaces
  <2>2. own - 1 \in Nat /\ own' = own - 1 /\ stores' = Append(stores, ToBottom(own - 1))
    BY <1>0, <1>3 DEF StoreBottom
  <2>3. Last' = Last
    BY <1>0, <2>1, <2>2
  <2>4. Content' = Content
    BY <1>0, <2>2, <2>3, ContentSame, HoldsBottom
  <2>5. Hidden' = Hidden
    BY <1>0, <2>3 DEF Hidden, MaxOf
  <2>6. Content # <<>>
    BY <1>0, <1>1, <1>3 DEF ContentKnown
  <2>7. Abstract!PopCall
    BY <1>0, <1>3, <2>1, <2>4, <2>5, <2>6 DEF Abstract!PopCall
  <2> QED
    BY <2>7 DEF Abstract!Next
<1> QED
  BY <1>2, <1>3 DEF PopReserve

LEMMA PopReloadMaps ==
  ASSUME RingInv, RingInv', PopReload
  PROVE  Abstract!Next \/ UNCHANGED Abstract!vars
<1>0. /\ UNCHANGED <<top, bottom, buffer, loc, pushes>> /\ At(Owner, "reload") /\ stores = <<>>
      /\ Popping = TRUE /\ Last = own + 1 /\ bottom = own
      /\ top \in Nat /\ bottom \in Nat /\ own \in Nat /\ top <= own + 1
  BY Basics DEF PopReload, PopLoad, At, RingInv, StoresKnown, Popping
<1>1. ContentKnown /\ HiddenKnown /\ HiddenKnown'
  BY ContentIsKnown, HiddenIsKnown, PTL
<1>2. ASSUME NEW a, Return(Owner, a)
      PROVE  /\ Popping' = FALSE /\ Last' = own'
             /\ Calls' = Calls /\ Raced' = Raced
             /\ answer' = [answer EXCEPT ![Owner] = a]
  <2>1. Goto(Owner, "idle") /\ answer' = [answer EXCEPT ![Owner] = a]
    BY <1>2 DEF Return
  <2> QED
    BY <1>0, <2>1, OwnerKnown, ThievesSame DEF OwnerPlaces
<1>3. CASE top < own /\ Return(Owner, buffer[Slot(own)]) /\ UNCHANGED <<own, stores>>
  <2>0. Last' = own'
    BY <1>2, <1>3
  <2>1. Last' = Last - 1
    BY <1>0, <1>3, <2>0
  <2>2. Content # <<>> /\ Content' = SubSeq(Content, 1, Len(Content) - 1)
    BY <1>0, <1>3, <2>1, ContentFront, HoldsSame
  <2>3. Len(Content) = own + 1 - top
    BY <1>0, <1>1 DEF ContentKnown
  <2>4. Content[Len(Content)] = buffer[Slot(own)]
    <3>1. own \in top .. (Last - 1) /\ own - top + 1 = own + 1 - top
      BY <1>0, <1>3
    <3>2. Content[own - top + 1] = buffer[Slot(own)]
      BY <1>0, <3>1, SlotContent
    <3> QED
      BY <2>3, <3>1, <3>2
  <2>5. Len(Content) # 1
    BY <1>0, <1>3, <2>3
  <2>6. Hidden' = 0
    BY <1>0, <1>1, <1>3, <2>1 DEF HiddenKnown
  <2>7. Abstract!PopReturn
    BY <1>0, <1>2, <1>3, <2>2, <2>4, <2>5, <2>6
    DEF Abstract!PopReturn, Abstract!Returns, Abstract!Owner, Owner
  <2> QED
    BY <2>7 DEF Abstract!Next
<1>4. CASE top = own /\ Goto(Owner, "compete") /\ UNCHANGED <<own, stores, answer>>
  <2>1. Popping' = TRUE /\ Last' = own' + 1 /\ Calls' = Calls /\ Raced' = Raced
    BY <1>0, <1>4, OwnerKnown, ThievesSame DEF OwnerPlaces
  <2>2. Last' = Last
    BY <1>0, <1>4, <2>1
  <2>3. Content' = Content /\ Hidden' = Hidden
    BY <1>0, <1>4, <2>2, ContentSame, HoldsSame DEF Hidden, MaxOf
  <2> QED
    BY <1>0, <1>4, <2>1, <2>3 DEF Abstract!vars
<1>5. CASE top > own /\ StoreBottom(top) /\ Return(Owner, None)
  <2>0. Last' = own'
    BY <1>2, <1>5
  <2>1. top = own + 1 /\ own' = top /\ stores' = Append(stores, ToBottom(top)) /\ Last' = Last
    BY <1>0, <1>5, <2>0 DEF StoreBottom
  <2>2. Content' = Content
    BY <1>0, <2>1, ContentSame, HoldsBottom
  <2>3. Content = <<>>
    BY <1>0, <1>1, <2>1 DEF ContentKnown
  <2>4. Hidden' = 0
    BY <1>0, <1>1, <2>1 DEF HiddenKnown
  <2>5. Abstract!PopReturn
    BY <1>0, <1>2, <1>5, <2>2, <2>3, <2>4
    DEF Abstract!PopReturn, Abstract!Returns, Abstract!Owner, Owner
  <2> QED
    BY <2>5 DEF Abstract!Next
<1> QED
  BY <1>3, <1>4, <1>5 DEF PopReload, PopLoad

LEMMA PopCompeteMaps ==
  ASSUME RingInv, RingInv', PopCompete
  PROVE  Abstract!Next
<1>0. /\ UNCHANGED <<bottom, buffer, loc, pushes>> /\ At(Owner, "compete") /\ stores = <<>>
      /\ Popping = TRUE /\ Last = own + 1 /\ bottom = own
      /\ own' = own + 1 /\ own + 1 \in Nat /\ stores' = Append(stores, ToBottom(own + 1))
      /\ top \in Nat /\ bottom \in Nat /\ own \in Nat /\ own <= top /\ top <= own + 1
      /\ Owner \notin Thieves
  BY Basics DEF PopCompete, At, RingInv, StoresKnown, Popping, Ends, StoreBottom, RingAssumption
<1>1. ContentKnown /\ HiddenKnown /\ HiddenKnown'
  BY ContentIsKnown, HiddenIsKnown, PTL
<1>2. ASSUME NEW a, Return(Owner, a)
      PROVE  /\ Popping' = FALSE /\ Last' = Last /\ \A x \in Thieves : pc'[x] = pc[x]
             /\ answer' = [answer EXCEPT ![Owner] = a]
  <2>1. Goto(Owner, "idle") /\ answer' = [answer EXCEPT ![Owner] = a]
    BY <1>2 DEF Return
  <2>2. Popping' = FALSE /\ Last' = own' /\ \A x \in Thieves : pc'[x] = pc[x]
    BY <2>1, OwnerKnown DEF OwnerPlaces
  <2> QED
    BY <1>0, <2>1, <2>2
<1>3. \A i \in top .. (Last - 1) : \A v \in Items : Holds(i, v) => Holds(i, v)'
  BY <1>0, HoldsBottom
<1>4. CASE top = own /\ top' = top + 1 /\ Return(Owner, buffer[Slot(own)])
  <2>0. Last' = Last
    BY <1>2, <1>4
  <2>1. Content # <<>> /\ Content' = Tail(Content)
    BY <1>3, <1>4, <2>0, ContentTail
  <2>2. Len(Content) = 1
    BY <1>0, <1>1, <1>4 DEF ContentKnown
  <2>3. Tail(Content) = SubSeq(Content, 1, Len(Content) - 1)
    <3>1. Content \in Seq(Items)
      BY <1>1 DEF ContentKnown
    <3>4. Tail(Content) \in Seq(Items) /\ Len(Tail(Content)) = 0
      BY <2>1, <2>2, <3>1, HeadTailProperties
    <3>2. Tail(Content) = <<>>
      BY <3>4, EmptySeq
    <3>3. SubSeq(Content, 1, 0) = <<>>
      BY SubSeqEmpty
    <3> QED
      BY <2>2, <3>2, <3>3
  <2>4. Content[Len(Content)] = buffer[Slot(own)]
    <3>1. own \in top .. (Last - 1) /\ own - top + 1 = 1
      BY <1>0, <1>4
    <3>2. Content[own - top + 1] = buffer[Slot(own)]
      BY <1>0, <3>1, SlotContent
    <3> QED
      BY <2>2, <3>1, <3>2
  <2>5. Calls' = Calls /\ Raced' = Calls
    <3>1. Calls' = Calls \ {Owner} /\ Raced' = Calls \ {Owner}
      BY <1>0, <1>2, <1>4, AllRaced
    <3>2. Owner \notin Calls
      BY <1>0 DEF Calls
    <3> QED
      BY <3>1, <3>2
  <2>6. Hidden' = 0
    BY <1>0, <1>1, <1>4, <2>0 DEF HiddenKnown
  <2>7. Abstract!PopReturn
    BY <1>0, <1>2, <1>4, <2>1, <2>2, <2>3, <2>4, <2>5, <2>6
    DEF Abstract!PopReturn, Abstract!Returns, Abstract!Owner, Owner
  <2> QED
    BY <2>7 DEF Abstract!Next
<1>5. CASE top # own /\ UNCHANGED top /\ Return(Owner, None)
  <2>0. Last' = Last
    BY <1>2, <1>5
  <2>1. top = Last /\ Last' = Last
    BY <1>0, <1>5, <2>0
  <2>2. Content' = Content
    BY <1>3, <1>5, <2>1, ContentSame
  <2>3. Content = <<>>
    BY <1>0, <1>1, <2>1 DEF ContentKnown
  <2>4. Hidden' = 0
    BY <1>0, <1>1, <1>5, <2>1 DEF HiddenKnown
  <2>5. Calls' = Calls /\ Raced' = Raced
    BY <1>0, <1>2, <1>5, ThievesSame
  <2>6. Abstract!PopReturn
    BY <1>0, <1>2, <1>5, <2>2, <2>3, <2>4, <2>5
    DEF Abstract!PopReturn, Abstract!Returns, Abstract!Owner, Owner
  <2> QED
    BY <2>6 DEF Abstract!Next
<1> QED
  BY <1>4, <1>5 DEF PopCompete

\* What one store that drains makes of bottom.
LEMMA DrainBottom ==
  ASSUME RingInv, Drain
  PROVE  \/ bottom' = bottom \/ bottom' = bottom + 1
         \/ At(Owner, "reload") /\ bottom = own + 1 /\ bottom' = own
<1>1. /\ Len(stores) \in Nat \ {0}
      /\ \A j \in 1 .. (Len(stores) - 1) : stores'[j] = stores[j + 1]
      /\ stores[1] \in Stores
      /\ \/ stores[1].slot = None /\ bottom' = stores[1].val
         \/ stores[1].slot # None /\ UNCHANGED bottom
  BY DrainKnown
<1>2. /\ bottom \in Nat /\ own \in Nat /\ RingAssumption /\ pc[Owner] \in OwnerPlaces
      /\ None \notin Nat
  BY Basics DEF RingAssumption
<1>3. CASE At(Owner, "idle")
  <2>1. Pending(stores, Len(stores), bottom, own)
    BY <1>3 DEF RingInv, StoresKnown
  <2>2. Len(stores) <= Len(stores)
    BY <1>1
  <2> QED
    BY <1>1, <1>2, <2>1, <2>2, DrainPending
<1>4. CASE ~At(Owner, "idle")
  <2>1. /\ At(Owner, "reload") /\ stores[Len(stores)] = ToBottom(own)
        /\ Pending(stores, Len(stores) - 1, bottom, own + 1)
    BY <1>1, <1>2, <1>4 DEF RingInv, StoresKnown, At, OwnerPlaces
  <2>2. CASE Len(stores) = 1
    <3>1. bottom' = own
      <4>1. stores[1].slot = None /\ stores[1].val = own
        BY <2>1, <2>2 DEF ToBottom
      <4> QED
        BY <1>1, <4>1
    <3>2. bottom = own + 1
      <4>1. Pending(stores, 0, bottom, own + 1)
        BY <2>1, <2>2
      <4> QED
        BY <1>2, <4>1, PendingZero
    <3> QED
      BY <2>1, <3>1, <3>2
  <2>3. CASE Len(stores) # 1
    <3>1. /\ Len(stores) - 1 \in Nat \ {0} /\ Len(stores) - 1 <= Len(stores)
          /\ own + 1 \in Nat
      BY <1>1, <1>2, <2>3
    <3> QED
      BY <2>1, <3>1, DrainPending
  <2> QED
    BY <2>2, <2>3
<1> QED
  BY <1>3, <1>4

\* A store that reaches memory shows one more item, hides the reserved one or shows nothing.
LEMMA DrainMaps ==
  ASSUME RingInv, RingInv', Drain
  PROVE  Abstract!Next \/ UNCHANGED Abstract!vars
<1>0. /\ RingAssumption /\ TypeOK /\ UNCHANGED <<top, pc, own, loc, pushes, answer>>
      /\ top \in Nat /\ bottom \in Nat /\ own \in Nat /\ Last \in Nat /\ top <= Last
      /\ Last' = Last
  BY Basics DEF Drain, Last, At
<1>1. ContentKnown /\ HiddenKnown /\ HiddenKnown'
  BY ContentIsKnown, HiddenIsKnown, PTL
<1>2. /\ UNCHANGED <<Content, Calls, Raced>> /\ Popping' = Popping
  <2>1. Content' = Content
    <3>1. \A i \in top .. (Last - 1) : \A v \in Items : Holds(i, v) => Holds(i, v)'
      BY <1>0, HoldsDrained
    <3> QED
      BY <1>0, <3>1, ContentSame
  <2> QED
    BY <1>0, <2>1, ThievesSame DEF Popping, At
<1>3. CASE bottom' = bottom
  BY <1>0, <1>2, <1>3 DEF Hidden, MaxOf, Abstract!vars
<1>4. CASE bottom' = bottom + 1 /\ bottom < top
  <2>1. Hidden' = Hidden
    BY <1>0, <1>1, <1>4 DEF HiddenKnown
  <2> QED
    BY <1>0, <1>2, <2>1 DEF Abstract!vars
<1>5. CASE bottom' = bottom + 1 /\ bottom >= top
  <2>1. Hidden > 0 /\ Hidden' = Hidden - 1
    BY <1>0, <1>1, <1>5 DEF HiddenKnown
  <2>2. Abstract!Publish
    BY <1>0, <1>2, <2>1 DEF Abstract!Publish
  <2> QED
    BY <2>2 DEF Abstract!Next
<1>6. CASE At(Owner, "reload") /\ bottom = own + 1 /\ bottom' = own
  <2>1. Last = own + 1 /\ Popping
    BY <1>6 DEF Last, At, Popping
  <2>2. Hidden = 0
    BY <1>0, <1>1, <1>6, <2>1 DEF HiddenKnown
  <2>3. CASE top = Last
    <3>1. Hidden' = 0
      BY <1>0, <1>1, <1>6, <2>1, <2>3 DEF HiddenKnown
    <3> QED
      BY <1>0, <1>2, <2>2, <3>1 DEF Abstract!vars
  <2>4. CASE top < Last
    <3>1. Hidden' = 1
      BY <1>0, <1>1, <1>6, <2>1, <2>4 DEF HiddenKnown
    <3>2. Content # <<>>
      BY <1>0, <1>1, <2>4 DEF ContentKnown
    <3>3. Abstract!Hide
      BY <1>0, <1>2, <2>1, <2>2, <3>1, <3>2 DEF Abstract!Hide
    <3> QED
      BY <3>3 DEF Abstract!Next
  <2> QED
    BY <1>0, <2>3, <2>4
<1> QED
  BY <1>0, <1>3, <1>4, <1>5, <1>6, DrainBottom

LEMMA ClearMaps ==
  ASSUME RingInv, RingInv', Clear
  PROVE  Abstract!Next
<1>1. /\ \A x \in Thieves : pc[x] = "idle" /\ pc[Owner] = "idle"
      /\ top' = 0 /\ bottom' = 0 /\ own' = 0 /\ UNCHANGED <<pc, loc, answer>>
  BY DEF Clear, At
<1>2. pc[Owner] = "idle"
  BY DEF Clear, At
<1>3. Last' = 0 /\ Popping = FALSE /\ Popping' = FALSE
  BY <1>1, <1>2 DEF Last, Popping, At
<1>4. ContentKnown' /\ HiddenKnown'
  BY ContentIsKnown, HiddenIsKnown, PTL
<1>5. Content' = <<>> /\ Hidden' = 0
  BY <1>1, <1>3, <1>4, EmptySeq DEF ContentKnown, HiddenKnown
<1>6. Calls = {} /\ Calls' = {} /\ Raced = {} /\ Raced' = {}
  BY <1>1 DEF Calls, Raced, At
<1>7. Abstract!Clear
  BY <1>1, <1>3, <1>5, <1>6 DEF Abstract!Clear
<1> QED
  BY <1>7 DEF Abstract!Next

-----------------------------------------------------------------------------
(* The steps of the thieves, and the theorem.                              *)

\* Thief x moves to place l with r; nothing else does.
LEMMA ThiefSteps ==
  ASSUME RingInv, RingInv', NEW x \in Thieves, NEW l \in ThiefPlaces, NEW r,
         UNCHANGED <<bottom, buffer, stores, own>>, Goto(x, l), loc' = [loc EXCEPT ![x] = r]
  PROVE  /\ Popping' = Popping /\ Last' = Last
         /\ pc'[x] = l /\ loc'[x] = r
         /\ \A y \in Thieves \ {x} : pc'[y] = pc[y] /\ loc'[y] = loc[y]
         /\ Calls' = IF l = "idle" THEN Calls \ {x} ELSE Calls \cup {x}
         /\ top' = top => /\ Content' = Content /\ Hidden' = Hidden
                          /\ Raced' = IF l # "idle" /\ top # r.t THEN Raced \cup {x}
                                                                 ELSE Raced \ {x}
<1>1. /\ pc'[Owner] = pc[Owner] /\ pc'[x] = l /\ loc'[x] = r
      /\ \A y \in Thieves \ {x} : pc'[y] = pc[y] /\ loc'[y] = loc[y]
  BY Basics DEF Goto, TypeOK
<1>2. Popping' = Popping /\ Last' = Last
  BY <1>1 DEF Popping, Last, At
<1>3. Calls' = IF l = "idle" THEN Calls \ {x} ELSE Calls \cup {x}
  BY <1>1 DEF Calls, At
<1>4. ASSUME top' = top
      PROVE  Raced' = IF l # "idle" /\ top # r.t THEN Raced \cup {x} ELSE Raced \ {x}
  <2>1. ASSUME NEW y PROVE y \in Raced' <=> y \in Calls' /\ top # loc'[y].t
    BY <1>4 DEF Raced
  <2>2. ASSUME NEW y PROVE y \in Raced <=> y \in Calls /\ top # loc[y].t
    BY DEF Raced
  <2>3. \A y \in Calls : y \in Thieves
    BY DEF Calls
  <2> QED
    BY <1>1, <1>3, <2>1, <2>2, <2>3
<1>5. ASSUME top' = top PROVE Content' = Content /\ Hidden' = Hidden
  BY <1>2, <1>5, ContentSame, HoldsSame DEF Hidden
<1> QED
  BY <1>1, <1>2, <1>3, <1>4, <1>5

LEMMA StealTopMaps ==
  ASSUME RingInv, RingInv', NEW x \in Thieves, StealTop(x)
  PROVE  Abstract!Next
<1>0. /\ pc[x] = "idle" /\ Goto(x, "bottom") /\ TypeOK
      /\ UNCHANGED <<top, bottom, buffer, stores, own, pushes, answer>>
      /\ loc' = [loc EXCEPT ![x] = [loc[x] EXCEPT !.t = top]]
  BY DEF StealTop, At, RingInv
<1>1. x \notin Calls /\ x \notin Raced
  BY <1>0 DEF Calls, Raced, At
<1>2. PICK r : r = [loc[x] EXCEPT !.t = top]
  OBVIOUS
<1>3. r.t = top
  BY <1>0, <1>2 DEF TypeOK
<1>4. /\ Popping' = Popping /\ Calls' = Calls \cup {x} /\ Content' = Content /\ Hidden' = Hidden
      /\ Raced' = Raced \ {x}
  BY <1>0, <1>2, <1>3, ThiefSteps DEF ThiefPlaces
<1>5. Raced' = Raced
  BY <1>1, <1>4
<1>6. Abstract!StealCall(x)
  BY <1>0, <1>1, <1>4, <1>5 DEF Abstract!StealCall
<1> QED
  BY <1>6 DEF Abstract!Next

LEMMA StealBottomMaps ==
  ASSUME RingInv, RingInv', NEW x \in Thieves, StealBottom(x)
  PROVE  Abstract!Next \/ UNCHANGED Abstract!vars
<1>0. /\ pc[x] = "bottom" /\ TypeOK /\ top \in Nat /\ bottom \in Nat /\ Last \in Nat
      /\ loc[x].t \in Nat /\ x \in Calls
      /\ UNCHANGED <<top, bottom, buffer, stores, own, pushes>>
      /\ loc = [loc EXCEPT ![x] = loc[x]]
  BY Basics DEF StealBottom, At, TypeOK, Calls
<1>1. x \in Raced <=> top # loc[x].t
  BY <1>0 DEF Raced
<1>2. CASE loc[x].t < bottom /\ Goto(x, "read") /\ UNCHANGED <<loc, answer>>
  <2>1. PICK r : r = loc[x]
    OBVIOUS
  <2>2. /\ Popping' = Popping /\ Calls' = Calls \cup {x} /\ Content' = Content
        /\ Hidden' = Hidden
        /\ Raced' = IF top # r.t THEN Raced \cup {x} ELSE Raced \ {x}
    BY <1>0, <1>2, <2>1, ThiefSteps DEF ThiefPlaces
  <2>3. Calls' = Calls /\ Raced' = Raced
    BY <1>0, <1>1, <2>1, <2>2
  <2> QED
    BY <1>2, <2>2, <2>3 DEF Abstract!vars
<1>3. CASE loc[x].t >= bottom /\ Return(x, None) /\ Forget(x)
  <2>1. /\ Goto(x, "idle") /\ loc' = [loc EXCEPT ![x] = NoLoc]
        /\ answer' = [answer EXCEPT ![x] = None]
    BY <1>3 DEF Return, Forget
  <2>2. /\ Popping' = Popping /\ Calls' = Calls \ {x} /\ Content' = Content
        /\ Hidden' = Hidden /\ Raced' = Raced \ {x}
    BY <1>0, <2>1, ThiefSteps DEF ThiefPlaces
  <2>3. x \in Raced \/ Hidden = Len(Content)
    <3>1. ContentKnown /\ HiddenKnown
      BY ContentIsKnown, HiddenIsKnown
    <3> QED
      BY <1>0, <1>1, <1>3, <3>1 DEF ContentKnown, HiddenKnown
  <2>4. Abstract!StealReturn(x)
    BY <1>0, <2>1, <2>2, <2>3 DEF Abstract!StealReturn, Abstract!Returns
  <2> QED
    BY <2>4 DEF Abstract!Next
<1> QED
  BY <1>2, <1>3 DEF StealBottom

LEMMA StealReadMaps ==
  ASSUME RingInv, RingInv', NEW x \in Thieves, StealRead(x)
  PROVE  UNCHANGED Abstract!vars
<1>0. /\ pc[x] = "read" /\ Goto(x, "cas") /\ TypeOK /\ x \in Calls
      /\ UNCHANGED <<top, bottom, buffer, stores, own, pushes, answer>>
      /\ loc' = [loc EXCEPT ![x] = [loc[x] EXCEPT !.item = buffer[Slot(loc[x].t)]]]
  BY DEF StealRead, At, RingInv, Calls
<1>1. x \in Raced <=> top # loc[x].t
  BY <1>0 DEF Raced
<1>2. PICK r : r = [loc[x] EXCEPT !.item = buffer[Slot(loc[x].t)]]
  OBVIOUS
<1>3. r.t = loc[x].t
  BY <1>0, <1>2 DEF TypeOK
<1>4. /\ Popping' = Popping /\ Calls' = Calls \cup {x} /\ Content' = Content
      /\ Hidden' = Hidden
      /\ Raced' = IF top # r.t THEN Raced \cup {x} ELSE Raced \ {x}
  BY <1>0, <1>2, ThiefSteps DEF ThiefPlaces
<1>5. Calls' = Calls /\ Raced' = Raced
  BY <1>0, <1>1, <1>3, <1>4
<1> QED
  BY <1>0, <1>4, <1>5 DEF Abstract!vars

\* The thief that nobody got ahead of takes the oldest item.
LEMMA StealCasMaps ==
  ASSUME RingInv, RingInv', NEW x \in Thieves, StealCas(x)
  PROVE  Abstract!Next
<1>0. /\ pc[x] = "cas" /\ TypeOK /\ x \in Calls /\ Ahead(x)
      /\ UNCHANGED <<bottom, buffer, stores, own, pushes>>
      /\ loc' = [loc EXCEPT ![x] = NoLoc]
      /\ top \in Nat /\ bottom \in Nat /\ Last \in Nat
  BY Basics DEF StealCas, At, RingInv, Calls, Forget, ThievesAhead
<1>1. x \in Raced <=> top # loc[x].t
  BY <1>0 DEF Raced
<1>2. CASE top = loc[x].t /\ top' = top + 1 /\ Return(x, loc[x].item)
  <2>1. Goto(x, "idle") /\ answer' = [answer EXCEPT ![x] = loc[x].item]
    BY <1>2 DEF Return
  <2>2. /\ Popping' = Popping /\ Last' = Last /\ Calls' = Calls \ {x} /\ pc'[x] = "idle"
        /\ \A y \in Thieves \ {x} : pc'[y] = pc[y] /\ loc'[y] = loc[y]
    BY <1>0, <2>1, ThiefSteps DEF ThiefPlaces
  <2>3. Content # <<>> /\ Content' = Tail(Content)
    BY <1>0, <1>2, <2>2, ContentTail, HoldsSame
  <2>4. Raced' = Calls \ {x}
    BY <1>2, <2>2, AllRaced
  <2>5. loc[x].item = Content[1]
    <3>1. /\ top < Last /\ \A j \in DOMAIN stores : stores[j].slot # Slot(top)
          /\ loc[x].item = buffer[Slot(top)]
      BY <1>0, <1>2 DEF Ahead, At
    <3>2. top \in top .. (Last - 1) /\ top - top + 1 = 1
      BY <1>0, <3>1
    <3>3. Content[top - top + 1] = buffer[Slot(top)]
      BY <3>1, <3>2, SlotContent
    <3> QED
      BY <3>1, <3>2, <3>3
  <2>6. Hidden' = IF Hidden = Len(Content) THEN Hidden - 1 ELSE Hidden
    <3>1. /\ ContentKnown /\ HiddenKnown /\ HiddenKnown'
      BY ContentIsKnown, HiddenIsKnown, PTL
    <3>2. top < Last
      BY <1>0, <1>2 DEF Ahead
    <3>3. Len(Content) = Last - top
      BY <3>1 DEF ContentKnown
    <3>4. CASE bottom <= top
      BY <1>0, <1>2, <2>2, <3>1, <3>2, <3>3, <3>4 DEF HiddenKnown
    <3>5. CASE bottom > top
      <4>1. Hidden = Last - bottom /\ Hidden # Len(Content)
        BY <1>0, <3>1, <3>3, <3>5 DEF HiddenKnown
      <4>2. Hidden' = Last - bottom
        BY <1>0, <1>2, <2>2, <3>1, <3>5 DEF HiddenKnown
      <4> QED
        BY <4>1, <4>2
    <3> QED
      BY <1>0, <3>4, <3>5
  <2>7. Abstract!StealReturn(x)
    BY <1>0, <1>1, <1>2, <2>1, <2>2, <2>3, <2>4, <2>5, <2>6
    DEF Abstract!StealReturn, Abstract!Returns
  <2> QED
    BY <2>7 DEF Abstract!Next
<1>3. CASE top # loc[x].t /\ UNCHANGED top /\ Return(x, None)
  <2>1. Goto(x, "idle") /\ answer' = [answer EXCEPT ![x] = None]
    BY <1>3 DEF Return
  <2>2. /\ Popping' = Popping /\ Calls' = Calls \ {x} /\ Content' = Content
        /\ Hidden' = Hidden /\ Raced' = Raced \ {x}
    BY <1>0, <1>3, <2>1, ThiefSteps DEF ThiefPlaces
  <2>3. Abstract!StealReturn(x)
    BY <1>0, <1>1, <1>3, <2>1, <2>2 DEF Abstract!StealReturn, Abstract!Returns
  <2> QED
    BY <2>3 DEF Abstract!Next
<1> QED
  BY <1>2, <1>3 DEF StealCas

LEMMA InitMaps == RingAssumption /\ Init => Abstract!Init
<1> SUFFICES ASSUME RingAssumption, Init PROVE Abstract!Init
  OBVIOUS
<1>1. RingInv
  BY InitInv
<1>2. /\ top = 0 /\ bottom = 0 /\ own = 0 /\ pc[Owner] = "idle"
      /\ \A x \in Thieves : pc[x] = "idle"
  BY DEF Init
<1>3. Last = 0 /\ Popping = FALSE
  BY <1>2 DEF Last, Popping, At
<1>4. ContentKnown /\ HiddenKnown
  BY <1>1, ContentIsKnown, HiddenIsKnown
<1>5. Content = <<>> /\ Hidden = 0
  BY <1>2, <1>3, <1>4, EmptySeq DEF ContentKnown, HiddenKnown
<1>6. Calls = {} /\ Raced = {}
  BY <1>2 DEF Calls, Raced, At
<1>7. answer = [x \in {Owner} \cup Thieves |-> None]
  BY DEF Init
<1> QED
  BY <1>3, <1>5, <1>6, <1>7 DEF Abstract!Init, Abstract!Owner, Owner

LEMMA NextMaps ==
  RingInv /\ RingInv' /\ [Next]_vars => [Abstract!Next]_(Abstract!vars)
<1> SUFFICES ASSUME RingInv, RingInv', [Next]_vars
             PROVE  Abstract!Next \/ UNCHANGED Abstract!vars
  OBVIOUS
<1>1. ASSUME UNCHANGED vars PROVE UNCHANGED Abstract!vars
  <2>1. UNCHANGED <<top, bottom, buffer, stores, pc, own, loc, pushes, answer>>
    BY <1>1 DEF vars
  <2>2. Last' = Last /\ Popping' = Popping
    BY <2>1 DEF Last, Popping, At
  <2>3. Content' = Content /\ Hidden' = Hidden
    BY <2>1, <2>2, ContentSame, HoldsSame DEF Hidden
  <2>4. Calls' = Calls /\ Raced' = Raced
    BY <2>1, ThievesSame
  <2> QED
    BY <2>1, <2>2, <2>3, <2>4 DEF Abstract!vars
<1>2. ASSUME NEW x \in Thieves, StealTop(x) \/ StealBottom(x) \/ StealRead(x) \/ StealCas(x)
      PROVE  Abstract!Next \/ UNCHANGED Abstract!vars
  BY <1>2, StealTopMaps, StealBottomMaps, StealReadMaps, StealCasMaps
<1> QED
  BY <1>1, <1>2, PushBackMaps, PopReserveMaps, PopReloadMaps, PopCompeteMaps, DrainMaps, ClearMaps
  DEF Next

\* spmc_ring implements WorkDeque, for any thieves and any capacity: in whatever order the owner's
\* stores reach memory and the thieves look, no item is lost, taken twice or returned half
\* written, and a call fails only if the deque is empty, full or hidden, or if another thread took
\* the item during the call (spmc_ring.hpp:81-190).
THEOREM ImplementsTheorem == RingAssumption /\ Spec => Implements
<1> QED
  BY InitMaps, NextMaps, RingCorrect, PTL DEF Spec, Implements, Abstract!Spec

=============================================================================
