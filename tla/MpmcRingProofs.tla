--------------------------- MODULE MpmcRingProofs ---------------------------
(***************************************************************************)
(* Theorems about MpmcRing, for every number of threads, every capacity of *)
(* at least two and any number of pushes: a slot has one user at a time,   *)
(* and the ring implements WorkQueue.                                      *)
(*                                                                         *)
(* The argument.  The last Capacity places, head - Capacity to head - 1,   *)
(* have a slot each.  The sequence of the slot says what became of the     *)
(* place: claimed (its own number), published (one more), taken (the same) *)
(* or freed (Capacity more), and exactly one thread can be in the call     *)
(* that takes a place from claimed to published or from taken to freed.    *)
(***************************************************************************)
EXTENDS MpmcRing, SequenceTheorems, TLAPS

\* The places whose slot nobody has claimed again.
Window == (head - Capacity) .. (head - 1)

Claimed(j) == \E x \in Threads : Claiming(x) /\ pos[x] = j
Taken(j)   == \E x \in Threads : Freeing(x) /\ pos[x] = j

\* A thread between its claim and its answer has a place of its own, and it has not yet
\* stored the sequence that gives it away.
ClaimsOwn ==
  \A x \in Threads : Claiming(x) => /\ pos[x] \in tail .. (head - 1)
                                    /\ SeqAt(x) = pos[x]
FreesOwn ==
  \A x \in Threads : Freeing(x) => /\ pos[x] \in (head - Capacity) .. (tail - 1)
                                   /\ SeqAt(x) = pos[x] + 1
Apart ==
  \A x, y \in Threads :
    x # y => /\ Claiming(x) /\ Claiming(y) => pos[x] # pos[y]
             /\ Freeing(x) /\ Freeing(y) => pos[x] # pos[y]

\* The sequence of every slot is explained by its place in the window.
PlacesKnown ==
  \A j \in Window :
    IF j >= tail THEN sequence[Slot(j)] = j + 1 \/ Claimed(j)
                 ELSE sequence[Slot(j)] = j + Capacity \/ Taken(j)

\* A position that was read is not ahead.  One that is behind was claimed in the meantime,
\* so its slot has at least the sequence of that claim; one that is about to be claimed was
\* seen free or full and still is, unless it is behind.
LookedAt(x) ==
  /\ pc[x] \in {"push_look", "push_cas"} =>
       pos[x] = head \/ (pos[x] < head /\ SeqAt(x) >= pos[x])
  /\ pc[x] \in {"pop_look", "pop_cas"} =>
       pos[x] = tail \/ (pos[x] < tail /\ SeqAt(x) > pos[x])
  /\ At(x, "push_cas") /\ pos[x] = head => SeqAt(x) = pos[x]
  /\ At(x, "pop_cas") /\ pos[x] = tail => SeqAt(x) = pos[x] + 1
Looked == \A x \in Threads : LookedAt(x)

\* A push has an item, and stores it before it publishes.
ItemHeld(x) ==
  /\ pc[x] \in PushPlaces => item[x] \in Items
  /\ At(x, "push_publish") => storage[Slot(pos[x])] = item[x]
ItemsHeld == \A x \in Threads : ItemHeld(x)

RingInv == /\ TypeOK /\ HeadTail
           /\ ClaimsOwn /\ FreesOwn /\ Apart /\ PlacesKnown /\ Looked /\ ItemsHeld
-----------------------------------------------------------------------------
(* The slots: Capacity places in a row have different ones.                *)

LEMMA SlotType == ASSUME NEW i \in Int PROVE Slot(i) \in Slots
  BY RingAssumption DEF Slot, Slots

LEMMA Times == ASSUME NEW c \in Nat \ {0}, NEW m \in Int, NEW n \in Int, m < n
               PROVE  c * m \in Int /\ c * n \in Int /\ c * m + c <= c * n
<1> DEFINE d == n - m
<1>1. d \in Int /\ d >= 1
  OBVIOUS
<1>2. n = m + d
  OBVIOUS
<1>3. c * n = c * m + c * d
  BY <1>1, <1>2
<1>4. c * d >= c
  BY <1>1
<1>5. c * m \in Int /\ c * n \in Int /\ c * d \in Int
  BY <1>1
<1> QED
  BY <1>3, <1>4, <1>5

LEMMA SlotApart ==
  ASSUME NEW i \in Int, NEW j \in Int, i < j, j < i + Capacity
  PROVE  Slot(i) # Slot(j)
<1> DEFINE a == i \div Capacity
           b == j \div Capacity
<1>1. /\ a \in Int /\ i = Capacity * a + Slot(i)
      /\ b \in Int /\ j = Capacity * b + Slot(j)
  BY RingAssumption DEF Slot
<1>2. SUFFICES ASSUME Slot(i) = Slot(j) PROVE FALSE
  OBVIOUS
<1>3. Slot(i) \in Int
  BY SlotType, RingAssumption DEF Slots
<1>4. Capacity \in Nat \ {0}
  BY RingAssumption
<1> HIDE DEF a, b
<1>5. Capacity * a \in Int /\ Capacity * b \in Int
  BY <1>1, <1>4
<1>6. CASE a < b
  BY <1>1, <1>2, <1>3, <1>4, <1>5, <1>6, Times
<1>7. CASE b < a
  BY <1>1, <1>2, <1>3, <1>4, <1>5, <1>7, Times
<1>8. CASE a = b
  BY <1>1, <1>2, <1>3, <1>5, <1>8
<1> QED
  BY <1>1, <1>6, <1>7, <1>8

LEMMA SlotAgain == ASSUME NEW i \in Int PROVE Slot(i - Capacity) = Slot(i)
<1> DEFINE k == i - Capacity
           a == k \div Capacity
           b == i \div Capacity
<1>1. /\ a \in Int /\ k = Capacity * a + Slot(k)
      /\ b \in Int /\ i = Capacity * b + Slot(i)
      /\ k \in Int
  BY RingAssumption DEF Slot
<1>2. Slot(k) \in 0 .. (Capacity - 1) /\ Slot(i) \in 0 .. (Capacity - 1)
  BY <1>1, SlotType DEF Slots
<1>4. Capacity \in Nat \ {0}
  BY RingAssumption
<1>3. k = i - Capacity
  OBVIOUS
<1> HIDE DEF a, b, k
<1>5. Capacity * a \in Int /\ Capacity * b \in Int /\ Capacity * (a + 1) = Capacity * a + Capacity
  BY <1>1, <1>4
<1>6. CASE a + 1 < b
  <2>1. Capacity * (a + 1) + Capacity <= Capacity * b
    BY <1>1, <1>4, <1>6, Times
  <2> QED
    BY <1>1, <1>2, <1>3, <1>4, <1>5, <2>1
<1>7. CASE b < a + 1
  <2>1. Capacity * b + Capacity <= Capacity * (a + 1)
    BY <1>1, <1>4, <1>7, Times
  <2> QED
    BY <1>1, <1>2, <1>3, <1>4, <1>5, <2>1
<1>8. CASE a + 1 = b
  <2>1. Capacity * b = Capacity * a + Capacity
    BY <1>5, <1>8
  <2>2. Slot(k) = Slot(i)
    BY <1>1, <1>2, <1>3, <1>4, <1>5, <2>1
  <2> QED
    BY <1>3, <2>2
<1>9. a + 1 < b \/ b < a + 1 \/ a + 1 = b
  BY <1>1
<1> QED
  BY <1>6, <1>7, <1>8, <1>9

LEMMA SlotStart == ASSUME NEW j \in (0 - Capacity) .. (0 - 1) PROVE Slot(j) = j + Capacity
  BY RingAssumption DEF Slot

-----------------------------------------------------------------------------
(* Types.                                                                  *)

Places == {"idle"} \cup PushPlaces \cup PopPlaces

LEMMA InitType == Init => TypeOK
  BY RingAssumption, SlotType DEF Init, TypeOK, Slots, Items, PushPlaces, PopPlaces

\* What most actions share: the locals of one thread change.
LEMMA NextType == TypeOK /\ [Next]_vars => TypeOK'
<1> SUFFICES ASSUME TypeOK, [Next]_vars PROVE TypeOK'
  OBVIOUS
<1> USE DEF TypeOK, Goto, Load, Return, At, ring
<1>0. /\ \A i \in Nat : Slot(i) \in Slots
      /\ Capacity \in Nat
  BY SlotType, RingAssumption
<1>1. ASSUME NEW x \in Threads, PushCall(x) PROVE TypeOK'
  BY <1>1, RingAssumption DEF PushCall, Items, PushPlaces
<1>2. ASSUME NEW x \in Threads, PushLook(x) PROVE TypeOK'
  BY <1>2 DEF PushLook, PushPlaces
<1>3. ASSUME NEW x \in Threads, PushLoad(x) PROVE TypeOK'
  BY <1>3 DEF PushLoad, PushPlaces
<1>4. ASSUME NEW x \in Threads, PushCas(x) PROVE TypeOK'
  BY <1>4 DEF PushCas, PushPlaces
<1>5. ASSUME NEW x \in Threads, PushStore(x) PROVE TypeOK'
  BY <1>5, <1>0 DEF PushStore, Store, PushPlaces
<1>6. ASSUME NEW x \in Threads, PushPublish(x) PROVE TypeOK'
  BY <1>6, <1>0 DEF PushPublish, SetSeq
<1>7. ASSUME NEW x \in Threads, PopCall(x) PROVE TypeOK'
  BY <1>7 DEF PopCall, PopPlaces
<1>8. ASSUME NEW x \in Threads, PopLook(x) PROVE TypeOK'
  BY <1>8 DEF PopLook, PopPlaces
<1>9. ASSUME NEW x \in Threads, PopLoad(x) PROVE TypeOK'
  BY <1>9 DEF PopLoad, PopPlaces
<1>10. ASSUME NEW x \in Threads, PopCas(x) PROVE TypeOK'
  BY <1>10 DEF PopCas, PopPlaces
<1>11. ASSUME NEW x \in Threads, PopRead(x) PROVE TypeOK'
  BY <1>11, <1>0 DEF PopRead, PopPlaces
<1>12. ASSUME NEW x \in Threads, PopFree(x) PROVE TypeOK'
  BY <1>12, <1>0 DEF PopFree, SetSeq
<1>13. ASSUME Clear PROVE TypeOK'
  BY <1>13, RingAssumption DEF Clear, Slots
<1>14. ASSUME UNCHANGED vars PROVE TypeOK'
  BY <1>14 DEF vars
<1> QED
  BY <1>1, <1>2, <1>3, <1>4, <1>5, <1>6, <1>7, <1>8, <1>9, <1>10, <1>11, <1>12, <1>13, <1>14
     DEF Next

-----------------------------------------------------------------------------
(* The places and their threads.                                           *)

LEMMA InitInv == Init => RingInv
<1> SUFFICES ASSUME Init PROVE RingInv
  OBVIOUS
<1>1. TypeOK
  BY InitType
<1>2. HeadTail
  BY RingAssumption DEF Init, HeadTail
<1>3. \A x \in Threads : pc[x] = "idle"
  BY DEF Init
<1>4. PlacesKnown
  <2> SUFFICES ASSUME NEW j \in Window PROVE ~(j >= tail) /\ sequence[Slot(j)] = j + Capacity
    BY DEF PlacesKnown
  <2>1. j \in (0 - Capacity) .. (0 - 1)
    BY DEF Init, Window
  <2> QED
    BY <2>1, SlotStart, SlotType, RingAssumption DEF Init
<1>5. ClaimsOwn /\ FreesOwn /\ Apart /\ Looked /\ ItemsHeld
  BY <1>3 DEF ClaimsOwn, FreesOwn, Apart, Looked, LookedAt, ItemsHeld, ItemHeld, Claiming,
              Freeing, At, PushPlaces
<1> QED
  BY <1>1, <1>2, <1>4, <1>5 DEF RingInv

LEMMA WindowApart ==
  ASSUME TypeOK, NEW i \in Window, NEW j \in Window, i # j
  PROVE  Slot(i) # Slot(j)
<1>1. i \in Int /\ j \in Int /\ i < j + Capacity /\ j < i + Capacity
  BY RingAssumption DEF Window, TypeOK
<1> QED
  BY <1>1, SlotApart

LEMMA OwnPlace ==
  ASSUME RingInv, NEW x \in Threads, Claiming(x) \/ Freeing(x)
  PROVE  pos[x] \in Window
  BY RingAssumption DEF RingInv, ClaimsOwn, FreesOwn, Window, HeadTail, TypeOK

\* Threads in their slots have different places.
LEMMA OwnApart ==
  ASSUME RingInv, NEW x \in Threads, NEW y \in Threads, x # y,
         Claiming(x) \/ Freeing(x), Claiming(y) \/ Freeing(y)
  PROVE  pos[x] # pos[y] /\ Slot(pos[x]) # Slot(pos[y])
<1>1. pos[x] \in Window /\ pos[y] \in Window
  BY OwnPlace
<1>2. pos[x] # pos[y]
  BY RingAssumption DEF RingInv, ClaimsOwn, FreesOwn, Apart, TypeOK
<1> QED
  BY <1>1, <1>2, WindowApart DEF RingInv

\* No slot is written while another thread writes or reads it.
THEOREM ExclusiveHolds == RingInv => Exclusive
  BY OwnApart DEF Exclusive

LEMMA Phases ==
  ASSUME NEW x \in Threads
  PROVE  ~(Claiming(x) /\ Freeing(x))
  BY DEF Claiming, Freeing

-----------------------------------------------------------------------------
(* Steps of a thread that is not in a slot.                                *)

Others(x) == \A y \in Threads \ {x} : pc'[y] = pc[y] /\ pos'[y] = pos[y] /\ item'[y] = item[y]
Outside(x) == ~Claiming(x) /\ ~Freeing(x)

LEMMA LocalKeeps ==
  ASSUME RingInv, TypeOK', NEW x \in Threads, UNCHANGED ring, Others(x),
         Outside(x), Outside(x)', LookedAt(x)', ItemHeld(x)'
  PROVE  RingInv'
<1> USE DEF Others, ring
<1>1. /\ \A y \in Threads : Claiming(y)' <=> Claiming(y)
      /\ \A y \in Threads : Freeing(y)' <=> Freeing(y)
      /\ \A y \in Threads : Claiming(y) \/ Freeing(y) => y # x /\ pos'[y] = pos[y]
  BY DEF Outside, Claiming, Freeing
<1>2. HeadTail'
  BY DEF RingInv, HeadTail
<1>3. ClaimsOwn' /\ FreesOwn' /\ Apart'
  BY <1>1 DEF RingInv, ClaimsOwn, FreesOwn, Apart, SeqAt
<1>4. PlacesKnown'
  BY <1>1 DEF RingInv, PlacesKnown, Window, Claimed, Taken
<1>5. Looked' /\ ItemsHeld'
  BY DEF RingInv, Looked, LookedAt, SeqAt, ItemsHeld, ItemHeld, At
<1> QED
  BY <1>2, <1>3, <1>4, <1>5 DEF RingInv

LEMMA LocalInv ==
  ASSUME RingInv, TypeOK', NEW x \in Threads,
         PushCall(x) \/ PushLook(x) \/ PushLoad(x) \/ PopCall(x) \/ PopLook(x) \/ PopLoad(x)
  PROVE  RingInv'
<1> USE DEF Outside, Claiming, Freeing, LookedAt, ItemHeld, At, SeqAt, Goto, Load, Return,
            PushPlaces, ring, Others
<1>0. TypeOK /\ LookedAt(x) /\ ItemHeld(x)
  BY DEF RingInv, Looked, ItemsHeld
<1>1. CASE PushCall(x)
  <2>1. item'[x] \in Items
    BY <1>0, <1>1 DEF PushCall, TypeOK, Items
  <2>2. UNCHANGED ring /\ Others(x) /\ Outside(x) /\ Outside(x)'
    BY <1>0, <1>1 DEF PushCall, TypeOK
  <2>3. LookedAt(x)' /\ ItemHeld(x)'
    BY <1>0, <1>1, <2>1 DEF PushCall, TypeOK
  <2> QED
    BY <2>2, <2>3, LocalKeeps
<1>2. CASE PushLook(x)
  <2>1. UNCHANGED ring /\ Others(x) /\ Outside(x) /\ Outside(x)'
    BY <1>0, <1>2 DEF PushLook, TypeOK
  <2>2. LookedAt(x)' /\ ItemHeld(x)'
    BY <1>0, <1>2 DEF PushLook, TypeOK
  <2> QED
    BY <2>1, <2>2, LocalKeeps
<1>3. CASE PushLoad(x)
  <2>1. UNCHANGED ring /\ Others(x) /\ Outside(x) /\ Outside(x)'
    BY <1>0, <1>3 DEF PushLoad, TypeOK
  <2>2. LookedAt(x)' /\ ItemHeld(x)'
    BY <1>0, <1>3 DEF PushLoad, TypeOK
  <2> QED
    BY <2>1, <2>2, LocalKeeps
<1>4. CASE PopCall(x)
  <2>1. UNCHANGED ring /\ Others(x) /\ Outside(x) /\ Outside(x)'
    BY <1>0, <1>4 DEF PopCall, TypeOK
  <2>2. LookedAt(x)' /\ ItemHeld(x)'
    BY <1>0, <1>4 DEF PopCall, TypeOK
  <2> QED
    BY <2>1, <2>2, LocalKeeps
<1>5. CASE PopLook(x)
  <2>1. UNCHANGED ring /\ Others(x) /\ Outside(x) /\ Outside(x)'
    BY <1>0, <1>5 DEF PopLook, TypeOK
  <2>2. LookedAt(x)' /\ ItemHeld(x)'
    BY <1>0, <1>5 DEF PopLook, TypeOK
  <2> QED
    BY <2>1, <2>2, LocalKeeps
<1>6. CASE PopLoad(x)
  <2>1. UNCHANGED ring /\ Others(x) /\ Outside(x) /\ Outside(x)'
    BY <1>0, <1>6 DEF PopLoad, TypeOK
  <2>2. LookedAt(x)' /\ ItemHeld(x)'
    BY <1>0, <1>6 DEF PopLoad, TypeOK
  <2> QED
    BY <2>1, <2>2, LocalKeeps
<1> QED
  BY <1>1, <1>2, <1>3, <1>4, <1>5, <1>6

\* The compare-exchange that fails.
CasFails(x) == \/ At(x, "push_cas") /\ Load(x, head) /\ Goto(x, "push_look")
               \/ At(x, "pop_cas") /\ Load(x, tail) /\ Goto(x, "pop_look")

LEMMA CasFailsInv ==
  ASSUME RingInv, TypeOK', NEW x \in Threads, CasFails(x),
         UNCHANGED <<ring, item>>
  PROVE  RingInv'
<1> USE DEF CasFails, Outside, Claiming, Freeing, LookedAt, ItemHeld, At, SeqAt, Goto, Load,
            PushPlaces, ring, Others
<1>0. TypeOK /\ ItemHeld(x)
  BY DEF RingInv, ItemsHeld
<1>1. UNCHANGED ring /\ Others(x) /\ Outside(x) /\ Outside(x)'
  BY <1>0 DEF TypeOK
<1>2. LookedAt(x)' /\ ItemHeld(x)'
  BY <1>0 DEF TypeOK
<1> QED
  BY <1>1, <1>2, LocalKeeps

-----------------------------------------------------------------------------
(* The claims.                                                             *)

\* The place that is claimed: the slot has been freed, and the window moves by one.
LEMMA PushClaimInv ==
  ASSUME RingInv, TypeOK', NEW x \in Threads, At(x, "push_cas"), head = pos[x],
         head' = head + 1, Goto(x, "push_store"),
         UNCHANGED <<tail, sequence, storage, pos, item>>
  PROVE  RingInv'
<1>0. /\ TypeOK /\ LookedAt(x) /\ ItemHeld(x) /\ HeadTail
      /\ head \in Nat /\ tail \in Nat /\ Capacity \in Nat /\ Capacity > 1
  BY RingAssumption DEF RingInv, Looked, ItemsHeld, TypeOK
<1>1. /\ pc' = [pc EXCEPT ![x] = "push_store"] /\ pc[x] = "push_cas"
      /\ \A y \in Threads : Freeing(y)' <=> Freeing(y)
      /\ \A y \in Threads : Claiming(y)' <=> Claiming(y) \/ y = x
  BY <1>0 DEF Goto, At, Claiming, Freeing, TypeOK
<1>2. sequence[Slot(head)] = head
  BY <1>0 DEF LookedAt, At, SeqAt
<1>3. Slot(head - Capacity) = Slot(head)
  BY <1>0, SlotAgain
\* The place one round before is free, so it was not in use any more.
<1>4. head - Capacity < tail
  <2> SUFFICES ASSUME head - Capacity >= tail PROVE FALSE
    BY <1>0
  <2>1. head - Capacity \in Window
    BY <1>0 DEF Window
  <2>2. CASE sequence[Slot(head - Capacity)] = head - Capacity + 1
    BY <1>0, <1>2, <1>3, <2>2
  <2>3. ASSUME NEW y \in Threads, Claiming(y), pos[y] = head - Capacity
        PROVE FALSE
    BY <1>0, <1>2, <1>3, <2>3 DEF RingInv, ClaimsOwn, SeqAt
  <2> QED
    BY <2>1, <2>2, <2>3 DEF RingInv, PlacesKnown, Claimed
<1>5. \A y \in Threads : Freeing(y) => pos[y] # head - Capacity
  BY <1>0, <1>2, <1>3 DEF RingInv, FreesOwn, SeqAt
<1>6. HeadTail'
  BY <1>0, <1>4 DEF HeadTail
<1>7. ClaimsOwn'
  BY <1>0, <1>1, <1>2, <1>4 DEF RingInv, ClaimsOwn, SeqAt, HeadTail
<1>8. FreesOwn'
  <2> SUFFICES ASSUME NEW y \in Threads, Freeing(y)'
               PROVE (pos[y] \in (head - Capacity) .. (tail - 1) /\ SeqAt(y) = pos[y] + 1)'
    BY DEF FreesOwn
  <2>1. pos[y] \in (head - Capacity) .. (tail - 1) /\ SeqAt(y) = pos[y] + 1
    BY <1>1 DEF RingInv, FreesOwn
  <2> QED
    BY <1>0, <1>5, <1>1, <2>1 DEF SeqAt
<1>9. Apart'
  <2>1. \A y \in Threads : Claiming(y) => pos[y] < head
    BY <1>0 DEF RingInv, ClaimsOwn
  <2> QED
    BY <1>0, <1>1, <2>1 DEF RingInv, Apart
<1>10. PlacesKnown'
  <2> SUFFICES ASSUME NEW j \in Window'
               PROVE (IF j >= tail THEN sequence[Slot(j)] = j + 1 \/ Claimed(j)
                                   ELSE sequence[Slot(j)] = j + Capacity \/ Taken(j))'
    BY DEF PlacesKnown
  <2>1. CASE j = head
    BY <1>0, <1>1, <2>1 DEF Claimed, HeadTail
  <2>2. CASE j # head
    <3>1. j \in Window
      BY <1>0, <2>2 DEF Window
    <3> QED
      BY <1>1, <3>1 DEF RingInv, PlacesKnown, Claimed, Taken
  <2> QED
    BY <2>1, <2>2
<1>11. Looked'
  <2> SUFFICES ASSUME NEW y \in Threads PROVE LookedAt(y)'
    BY DEF Looked
  <2>1. CASE y = x
    BY <1>0, <1>1, <2>1 DEF LookedAt, At, TypeOK
  <2>2. CASE y # x
    <3>1. pc'[y] = pc[y] /\ LookedAt(y) /\ pos[y] \in Nat /\ SeqAt(y)' = SeqAt(y)
      BY <1>0, <1>1, <2>2 DEF RingInv, Looked, SeqAt, TypeOK
    <3>2. pos[y] = head => SeqAt(y) = pos[y]
      BY <1>2 DEF SeqAt
    <3> QED
      BY <1>0, <3>1, <3>2 DEF LookedAt, At
  <2> QED
    BY <2>1, <2>2
<1>12. ItemsHeld'
  <2> SUFFICES ASSUME NEW y \in Threads PROVE ItemHeld(y)'
    BY DEF ItemsHeld
  <2> QED
    BY <1>0, <1>1 DEF RingInv, ItemsHeld, ItemHeld, At, TypeOK, PushPlaces
<1> QED
  BY <1>6, <1>7, <1>8, <1>9, <1>10, <1>11, <1>12 DEF RingInv

\* The place that is taken: it is the oldest and was published.
LEMMA PopClaimInv ==
  ASSUME RingInv, TypeOK', NEW x \in Threads, At(x, "pop_cas"), tail = pos[x],
         tail' = tail + 1, Goto(x, "pop_read"),
         UNCHANGED <<head, sequence, storage, pos, item>>
  PROVE  RingInv' /\ tail < head
<1>0. /\ TypeOK /\ LookedAt(x) /\ HeadTail
      /\ head \in Nat /\ tail \in Nat /\ Capacity \in Nat /\ Capacity > 1
  BY RingAssumption DEF RingInv, Looked, TypeOK
<1>1. /\ pc' = [pc EXCEPT ![x] = "pop_read"] /\ pc[x] = "pop_cas"
      /\ \A y \in Threads : Freeing(y)' <=> Freeing(y) \/ y = x
      /\ \A y \in Threads : Claiming(y)' <=> Claiming(y)
  BY <1>0 DEF Goto, At, Claiming, Freeing, TypeOK
<1>2. sequence[Slot(tail)] = tail + 1
  BY <1>0 DEF LookedAt, At, SeqAt
\* The slot of a free place has another sequence.
<1>3. tail < head
  <2> SUFFICES ASSUME tail = head PROVE FALSE
    BY <1>0 DEF HeadTail
  <2>1. head - Capacity \in Window /\ Slot(head - Capacity) = Slot(head)
    BY <1>0, SlotAgain DEF Window
  <2>2. sequence[Slot(head - Capacity)] # head
    BY <1>0, <1>2, <2>1
  <2>3. \A y \in Threads : Freeing(y) => pos[y] # head - Capacity
    BY <1>0, <1>2, <2>1 DEF RingInv, FreesOwn, SeqAt
  <2> QED
    BY <1>0, <2>1, <2>2, <2>3 DEF RingInv, PlacesKnown, Taken
\* Nobody is claiming a place that was published.
<1>4. \A y \in Threads : Claiming(y) => pos[y] # tail
  BY <1>0, <1>2 DEF RingInv, ClaimsOwn, SeqAt
<1>5. HeadTail'
  BY <1>0, <1>3 DEF HeadTail
<1>6. ClaimsOwn'
  <2> SUFFICES ASSUME NEW y \in Threads, Claiming(y)'
               PROVE (pos[y] \in tail .. (head - 1) /\ SeqAt(y) = pos[y])'
    BY DEF ClaimsOwn
  <2>1. pos[y] \in tail .. (head - 1) /\ SeqAt(y) = pos[y] /\ pos[y] # tail
    BY <1>1, <1>4 DEF RingInv, ClaimsOwn
  <2> QED
    BY <1>0, <2>1 DEF SeqAt
<1>7. FreesOwn'
  <2> SUFFICES ASSUME NEW y \in Threads, Freeing(y)'
               PROVE (pos[y] \in (head - Capacity) .. (tail - 1) /\ SeqAt(y) = pos[y] + 1)'
    BY DEF FreesOwn
  <2>1. CASE y = x
    BY <1>0, <1>2, <1>3, <2>1 DEF SeqAt, HeadTail
  <2>2. CASE y # x
    <3>1. pos[y] \in (head - Capacity) .. (tail - 1) /\ SeqAt(y) = pos[y] + 1
      BY <1>1, <2>2 DEF RingInv, FreesOwn
    <3> QED
      BY <1>0, <3>1 DEF SeqAt
  <2> QED
    BY <2>1, <2>2
<1>8. Apart'
  <2>1. \A y \in Threads : Freeing(y) => pos[y] < tail
    BY <1>0 DEF RingInv, FreesOwn
  <2> QED
    BY <1>0, <1>1, <2>1 DEF RingInv, Apart
<1>9. PlacesKnown'
  <2> SUFFICES ASSUME NEW j \in Window'
               PROVE (IF j >= tail THEN sequence[Slot(j)] = j + 1 \/ Claimed(j)
                                   ELSE sequence[Slot(j)] = j + Capacity \/ Taken(j))'
    BY DEF PlacesKnown
  <2>1. CASE j = tail
    BY <1>0, <1>1, <2>1 DEF Taken
  <2>2. CASE j # tail
    <3>1. j \in Window
      BY <1>0 DEF Window
    <3> QED
      BY <1>0, <1>1, <2>2, <3>1 DEF RingInv, PlacesKnown, Claimed, Taken, Window
  <2> QED
    BY <2>1, <2>2
<1>10. Looked'
  <2> SUFFICES ASSUME NEW y \in Threads PROVE LookedAt(y)'
    BY DEF Looked
  <2>1. CASE y = x
    BY <1>0, <1>1, <2>1 DEF LookedAt, At, TypeOK
  <2>2. CASE y # x
    <3>1. pc'[y] = pc[y] /\ LookedAt(y) /\ pos[y] \in Nat /\ SeqAt(y)' = SeqAt(y)
      BY <1>0, <1>1, <2>2 DEF RingInv, Looked, SeqAt, TypeOK
    <3>2. pos[y] = tail => SeqAt(y) = pos[y] + 1
      BY <1>2 DEF SeqAt
    <3> QED
      BY <1>0, <3>1, <3>2 DEF LookedAt, At
  <2> QED
    BY <2>1, <2>2
<1>11. ItemsHeld'
  <2> SUFFICES ASSUME NEW y \in Threads PROVE ItemHeld(y)'
    BY DEF ItemsHeld
  <2> QED
    BY <1>0, <1>1 DEF RingInv, ItemsHeld, ItemHeld, At, TypeOK, PushPlaces
<1> QED
  BY <1>3, <1>5, <1>6, <1>7, <1>8, <1>9, <1>10, <1>11 DEF RingInv

-----------------------------------------------------------------------------
(* In the slot.                                                            *)

\* The item is written, or read.
LEMMA PushStoreInv ==
  ASSUME RingInv, TypeOK', NEW x \in Threads, PushStore(x)
  PROVE  RingInv'
<1>0. /\ TypeOK /\ ItemHeld(x) /\ pc' = [pc EXCEPT ![x] = "push_publish"] /\ pc[x] = "push_store"
      /\ storage' = [storage EXCEPT ![Slot(pos[x])] = item[x]]
      /\ UNCHANGED <<head, tail, sequence, pos, item>>
  BY DEF RingInv, ItemsHeld, PushStore, Goto, Store, At
<1>1. /\ \A y \in Threads : Freeing(y)' <=> Freeing(y)
      /\ \A y \in Threads : Claiming(y)' <=> Claiming(y)
  BY <1>0 DEF Claiming, Freeing, TypeOK
<1>2. HeadTail' /\ ClaimsOwn' /\ FreesOwn' /\ Apart' /\ PlacesKnown'
  BY <1>0, <1>1 DEF RingInv, HeadTail, ClaimsOwn, FreesOwn, Apart, PlacesKnown, SeqAt, Window,
                    Claimed, Taken
<1>3. Looked'
  <2> SUFFICES ASSUME NEW y \in Threads PROVE LookedAt(y)'
    BY DEF Looked
  <2> QED
    BY <1>0 DEF RingInv, Looked, LookedAt, At, SeqAt, TypeOK
<1>4. ItemsHeld'
  <2> SUFFICES ASSUME NEW y \in Threads PROVE ItemHeld(y)'
    BY DEF ItemsHeld
  <2>1. CASE y = x
    <3>1. Slot(pos[x]) \in Slots
      BY <1>0, SlotType DEF TypeOK
    <3> QED
      BY <1>0, <2>1, <3>1 DEF ItemHeld, At, TypeOK, PushPlaces
  <2>2. CASE y # x
    <3>1. At(y, "push_publish") => Slot(pos[y]) # Slot(pos[x])
      BY <1>0, <2>2, OwnApart DEF At, Claiming
    <3> QED
      BY <1>0, <2>2, <3>1, SlotType DEF RingInv, ItemsHeld, ItemHeld, At, TypeOK
  <2> QED
    BY <2>1, <2>2
<1> QED
  BY <1>2, <1>3, <1>4 DEF RingInv

LEMMA PopReadInv ==
  ASSUME RingInv, TypeOK', NEW x \in Threads, PopRead(x)
  PROVE  RingInv'
<1>0. /\ TypeOK /\ pc' = [pc EXCEPT ![x] = "pop_free"] /\ pc[x] = "pop_read"
      /\ \A y \in Threads \ {x} : item'[y] = item[y]
      /\ UNCHANGED <<ring, pos>>
  BY DEF RingInv, PopRead, Goto, At, TypeOK
<1>1. /\ \A y \in Threads : Freeing(y)' <=> Freeing(y)
      /\ \A y \in Threads : Claiming(y)' <=> Claiming(y)
  BY <1>0 DEF Claiming, Freeing, TypeOK
<1>2. HeadTail' /\ ClaimsOwn' /\ FreesOwn' /\ Apart' /\ PlacesKnown'
  BY <1>0, <1>1 DEF RingInv, HeadTail, ClaimsOwn, FreesOwn, Apart, PlacesKnown, SeqAt, Window,
                    Claimed, Taken, ring
<1>3. Looked'
  <2> SUFFICES ASSUME NEW y \in Threads PROVE LookedAt(y)'
    BY DEF Looked
  <2> QED
    BY <1>0 DEF RingInv, Looked, LookedAt, At, SeqAt, TypeOK, ring
<1>4. ItemsHeld'
  <2> SUFFICES ASSUME NEW y \in Threads PROVE ItemHeld(y)'
    BY DEF ItemsHeld
  <2> QED
    BY <1>0 DEF RingInv, ItemsHeld, ItemHeld, At, TypeOK, PushPlaces, ring
<1> QED
  BY <1>2, <1>3, <1>4 DEF RingInv

\* The sequence is stored and the thread leaves: publication of a claimed place (the next
\* sequence), and return of a taken one for the next round.
Stored(x) == IF Claiming(x) THEN pos[x] + 1 ELSE pos[x] + Capacity

LEMMA LeaveInv ==
  ASSUME RingInv, TypeOK', NEW x \in Threads, PushPublish(x) \/ PopFree(x)
  PROVE  RingInv'
<1>0. /\ TypeOK /\ HeadTail /\ head \in Nat /\ tail \in Nat /\ Capacity \in Nat /\ Capacity > 1
      /\ pos[x] \in Nat
  BY RingAssumption DEF RingInv, TypeOK
<1>1. /\ pc' = [pc EXCEPT ![x] = "idle"]
      /\ Claiming(x) \/ Freeing(x)
      /\ sequence' = [sequence EXCEPT ![Slot(pos[x])] = Stored(x)]
      /\ Others(x)
      /\ UNCHANGED <<head, tail, storage>>
  BY <1>0 DEF PushPublish, PopFree, Goto, At, SetSeq, Return, Load, Stored, Claiming, Freeing,
              Others, TypeOK
<1>2. /\ \A y \in Threads : Freeing(y)' <=> Freeing(y) /\ y # x
      /\ \A y \in Threads : Claiming(y)' <=> Claiming(y) /\ y # x
  BY <1>0, <1>1 DEF Claiming, Freeing, TypeOK
<1>3. pos[x] \in Window /\ Slot(pos[x]) \in Slots
  BY <1>0, <1>1, OwnPlace, SlotType
<1>4. SeqAt(x) < Stored(x)
  BY <1>0, <1>1 DEF RingInv, ClaimsOwn, FreesOwn, Stored
<1>5. \A s \in Slots : /\ sequence[s] \in Nat
                       /\ s # Slot(pos[x]) => sequence'[s] = sequence[s]
                       /\ s = Slot(pos[x]) => sequence'[s] = Stored(x)
                       /\ sequence'[s] >= sequence[s]
  BY <1>0, <1>1, <1>3, <1>4 DEF TypeOK, SeqAt, Stored
<1>6. \A j \in Window : j # pos[x] => sequence'[Slot(j)] = sequence[Slot(j)]
  <2> TAKE j \in Window
  <2>1. Slot(j) \in Slots
    BY <1>0, SlotType DEF Window
  <2> QED
    BY <1>0, <1>3, <1>5, <2>1, WindowApart
<1>7. \A y \in Threads \ {x} : Claiming(y) \/ Freeing(y) => SeqAt(y)' = SeqAt(y)
  <2> SUFFICES ASSUME NEW y \in Threads \ {x}, Claiming(y) \/ Freeing(y)
               PROVE SeqAt(y)' = SeqAt(y)
    OBVIOUS
  <2>1. pos[y] \in Window /\ pos[y] # pos[x] /\ pos'[y] = pos[y]
    BY <1>1, OwnPlace, OwnApart DEF Others
  <2> QED
    BY <1>6, <2>1 DEF SeqAt
<1>8. HeadTail'
  BY <1>0, <1>1 DEF HeadTail
<1>9. ClaimsOwn' /\ FreesOwn'
  BY <1>1, <1>2, <1>7 DEF RingInv, ClaimsOwn, FreesOwn, Others
<1>10. Apart'
  BY <1>1, <1>2 DEF RingInv, Apart, Others
<1>11. PlacesKnown'
  <2> SUFFICES ASSUME NEW j \in Window
               PROVE (IF j >= tail THEN sequence[Slot(j)] = j + 1 \/ Claimed(j)
                                   ELSE sequence[Slot(j)] = j + Capacity \/ Taken(j))'
    BY <1>1 DEF PlacesKnown, Window
  <2>1. CASE j = pos[x]
    <3>1. sequence'[Slot(j)] = Stored(x)
      BY <1>3, <1>5, <2>1
    <3>2. CASE Claiming(x)
      BY <1>0, <1>1, <2>1, <3>1, <3>2 DEF RingInv, ClaimsOwn, Stored
    <3>3. CASE Freeing(x)
      BY <1>0, <1>1, <2>1, <3>1, <3>3, Phases DEF RingInv, FreesOwn, Stored
    <3> QED
      BY <1>1, <3>2, <3>3
  <2>2. CASE j # pos[x]
    <3>1. Claimed(j) => Claimed(j)'
      BY <1>1, <1>2, <2>2 DEF Claimed, Others
    <3>2. Taken(j) => Taken(j)'
      BY <1>1, <1>2, <2>2 DEF Taken, Others
    <3> QED
      BY <1>1, <1>6, <2>2, <3>1, <3>2 DEF RingInv, PlacesKnown
  <2> QED
    BY <2>1, <2>2
<1>12. Looked'
  <2> SUFFICES ASSUME NEW y \in Threads PROVE LookedAt(y)'
    BY DEF Looked
  <2>1. CASE y = x
    BY <1>0, <1>1, <2>1 DEF LookedAt, At, TypeOK
  <2>2. CASE y # x
    <3>1. pc'[y] = pc[y] /\ pos'[y] = pos[y] /\ pos[y] \in Nat /\ LookedAt(y)
      BY <1>0, <1>1, <2>2 DEF RingInv, Looked, Others, TypeOK
    <3>2. SeqAt(y)' >= SeqAt(y) /\ SeqAt(y) \in Nat /\ SeqAt(y)' \in Nat
      BY <1>0, <1>5, <3>1, SlotType DEF SeqAt, Stored
    \* The slot a thread is about to claim is nobody's.
    <3>3. At(y, "push_cas") /\ pos[y] = head => SeqAt(y)' = SeqAt(y)
      <4> SUFFICES ASSUME At(y, "push_cas"), pos[y] = head, Slot(pos[y]) = Slot(pos[x])
                   PROVE FALSE
        BY <1>0, <1>5, <3>1, SlotType DEF SeqAt
      <4>1. head - Capacity \in Window /\ Slot(head - Capacity) = Slot(head)
        BY <1>0, SlotAgain DEF Window
      <4>2. pos[x] = head - Capacity
        BY <1>0, <1>3, <4>1, WindowApart
      <4>3. SeqAt(x) # head
        BY <1>0, <1>1, <4>2 DEF RingInv, ClaimsOwn, FreesOwn
      <4> QED
        BY <3>1, <4>3 DEF LookedAt, SeqAt
    <3>4. At(y, "pop_cas") /\ pos[y] = tail => SeqAt(y)' = SeqAt(y)
      <4> SUFFICES ASSUME At(y, "pop_cas"), pos[y] = tail, Slot(pos[y]) = Slot(pos[x])
                   PROVE FALSE
        BY <1>0, <1>5, <3>1, SlotType DEF SeqAt
      <4>1. SeqAt(x) = tail + 1
        BY <3>1 DEF LookedAt, SeqAt
      <4>2. CASE tail < head
        <5>1. tail \in Window
          BY <1>0, <4>2 DEF Window, HeadTail
        <5>2. pos[x] = tail
          BY <1>0, <1>3, <5>1, WindowApart
        <5> QED
          BY <1>0, <1>1, <4>1, <5>2 DEF RingInv, ClaimsOwn, FreesOwn
      <4>3. CASE tail = head
        <5>1. head - Capacity \in Window /\ Slot(head - Capacity) = Slot(head)
          BY <1>0, SlotAgain DEF Window
        <5>2. pos[x] = head - Capacity
          BY <1>0, <1>3, <4>3, <5>1, WindowApart
        <5> QED
          BY <1>0, <1>1, <4>1, <4>3, <5>2 DEF RingInv, ClaimsOwn, FreesOwn
      <4> QED
        BY <1>0, <4>2, <4>3 DEF HeadTail
    <3> HIDE DEF SeqAt
    <3>5. head' = head /\ tail' = tail
      BY <1>1
    <3> QED
      BY <1>0, <3>1, <3>2, <3>3, <3>4, <3>5 DEF LookedAt, At
  <2> QED
    BY <2>1, <2>2
<1>13. ItemsHeld'
  <2> SUFFICES ASSUME NEW y \in Threads PROVE ItemHeld(y)'
    BY DEF ItemsHeld
  <2> QED
    BY <1>0, <1>1 DEF RingInv, ItemsHeld, ItemHeld, At, TypeOK, PushPlaces, Others
<1> QED
  BY <1>8, <1>9, <1>10, <1>11, <1>12, <1>13 DEF RingInv

LEMMA ClearInv ==
  ASSUME RingInv, TypeOK', Clear
  PROVE  RingInv'
<1>1. HeadTail'
  BY RingAssumption DEF Clear, HeadTail
<1>2. \A x \in Threads : pc'[x] = "idle"
  BY DEF Clear, At
<1>3. PlacesKnown'
  <2> SUFFICES ASSUME NEW j \in Window'
               PROVE ~(j >= tail') /\ sequence'[Slot(j)] = j + Capacity
    BY DEF PlacesKnown
  <2>1. j \in (0 - Capacity) .. (0 - 1)
    BY DEF Clear, Window
  <2> QED
    BY <2>1, SlotStart, SlotType, RingAssumption DEF Clear
<1>4. ClaimsOwn' /\ FreesOwn' /\ Apart' /\ Looked' /\ ItemsHeld'
  BY <1>2 DEF ClaimsOwn, FreesOwn, Apart, Looked, LookedAt, ItemsHeld, ItemHeld, Claiming,
              Freeing, At, PushPlaces
<1> QED
  BY <1>1, <1>3, <1>4 DEF RingInv

LEMMA NextInv == RingInv /\ [Next]_vars => RingInv'
<1> SUFFICES ASSUME RingInv, [Next]_vars PROVE RingInv'
  OBVIOUS
<1>0. TypeOK'
  BY NextType DEF RingInv
<1>1. ASSUME NEW x \in Threads,
             PushCall(x) \/ PushLook(x) \/ PushLoad(x) \/ PopCall(x) \/ PopLook(x) \/ PopLoad(x)
      PROVE  RingInv'
  BY <1>0, <1>1, LocalInv
<1>2. ASSUME NEW x \in Threads, PushCas(x) PROVE RingInv'
  BY <1>0, <1>2, PushClaimInv, CasFailsInv DEF PushCas, CasFails, ring
<1>3. ASSUME NEW x \in Threads, PopCas(x) PROVE RingInv'
  BY <1>0, <1>3, PopClaimInv, CasFailsInv DEF PopCas, CasFails, ring
<1>4. ASSUME NEW x \in Threads, PushStore(x) \/ PopRead(x) PROVE RingInv'
  BY <1>0, <1>4, PushStoreInv, PopReadInv
<1>5. ASSUME NEW x \in Threads, PushPublish(x) \/ PopFree(x) PROVE RingInv'
  BY <1>0, <1>5, LeaveInv
<1>6. ASSUME Clear PROVE RingInv'
  BY <1>0, <1>6, ClearInv
<1>7. ASSUME UNCHANGED vars PROVE RingInv'
  BY <1>0, <1>7 DEF vars, ring, RingInv, HeadTail, ClaimsOwn, FreesOwn, Apart, PlacesKnown, Window,
                    Claimed, Taken, Looked, LookedAt, ItemsHeld, ItemHeld, Claiming, Freeing, At,
                    SeqAt
<1> QED
  BY <1>1, <1>2, <1>3, <1>4, <1>5, <1>6, <1>7 DEF Next

\* The ring keeps its invariant.
THEOREM RingCorrect == Spec => []RingInv
<1> QED
  BY InitInv, NextInv, PTL DEF Spec

\* A slot has one user at a time between the claim of its place and the store of its sequence.
THEOREM ExclusiveTheorem == Spec => []Exclusive
<1> QED
  BY RingCorrect, ExclusiveHolds, PTL

\* At most Capacity places are claimed and not taken.
THEOREM HeadTailTheorem == Spec => []HeadTail
<1>1. RingInv => HeadTail
  BY DEF RingInv
<1> QED
  BY <1>1, RingCorrect, PTL

-----------------------------------------------------------------------------
(* The queue that the ring implements.                                     *)

Elements == [item : Items \cup {None}, by : Threads \cup {None}]
Claim(x)     == [item |-> item[x], by |-> x]
Published(j) == [item |-> storage[Slot(j)], by |-> None]

\* The abstract queue holds a record for each place, from the oldest to the newest.
QueueKnown ==
  /\ Queue \in Seq(Elements)
  /\ Len(Queue) = head - tail
  /\ \A j \in tail .. (head - 1) :
       /\ \A x \in Threads : Claiming(x) /\ pos[x] = j => Queue[j - tail + 1] = Claim(x)
       /\ ~Claimed(j) => Queue[j - tail + 1] = Published(j)

LEMMA EntryKnown ==
  ASSUME RingInv, NEW j \in Int
  PROVE  /\ \A x \in Threads : Claiming(x) /\ pos[x] = j => Entry(j) = Claim(x)
         /\ ~Claimed(j) => Entry(j) = Published(j)
         /\ Entry(j) \in Elements
<1> DEFINE xs == {x \in Threads : Claiming(x) /\ pos[x] = j}
<1>1. TypeOK /\ storage[Slot(j)] \in Items \cup {None}
  BY SlotType DEF RingInv, TypeOK
<1>2. ASSUME NEW x \in Threads, Claiming(x), pos[x] = j PROVE Entry(j) = Claim(x)
  <2>1. xs = {x}
    BY <1>2, OwnApart
  <2>2. (CHOOSE y \in xs : TRUE) = x
    BY <2>1
  <2> QED
    BY <2>1, <2>2 DEF Entry, Claim
<1>3. ASSUME ~Claimed(j) PROVE Entry(j) = Published(j)
  BY <1>3 DEF Claimed, Entry, Published
<1>4. Entry(j) \in Elements
  BY <1>1, <1>2, <1>3 DEF Claimed, Claim, Published, Elements, TypeOK
<1> QED
  BY <1>2, <1>3, <1>4

LEMMA QueueIsKnown == RingInv => QueueKnown
<1> SUFFICES ASSUME RingInv PROVE QueueKnown
  OBVIOUS
<1>1. head \in Nat /\ tail \in Nat /\ head - tail \in Nat
  BY RingAssumption DEF RingInv, TypeOK, HeadTail
<1>2. \A n \in 1 .. (head - tail) : Entry(tail + n - 1) \in Elements
  BY <1>1, EntryKnown
<1>3. Queue \in [1 .. (head - tail) -> Elements]
  BY <1>2 DEF Queue
<1>4. Queue \in Seq(Elements) /\ Len(Queue) = head - tail
  BY <1>1, <1>3
<1>5. ASSUME NEW j \in tail .. (head - 1) PROVE Queue[j - tail + 1] = Entry(j)
  <2>1. j - tail + 1 \in 1 .. (head - tail) /\ tail + (j - tail + 1) - 1 = j
    BY <1>1
  <2> QED
    BY <2>1 DEF Queue
<1> QED
  BY <1>1, <1>4, <1>5, EntryKnown DEF QueueKnown

LEMMA PushingKnown ==
  ASSUME RingInv, NEW x \in Threads
  PROVE  Abstract!Pushing(x) <=> Claiming(x)
<1>1. /\ QueueKnown /\ DOMAIN Queue = 1 .. Len(Queue)
      /\ head \in Nat /\ tail \in Nat /\ x # None
  BY QueueIsKnown, RingAssumption DEF QueueKnown, RingInv, TypeOK
<1>2. ASSUME Claiming(x) PROVE Abstract!Pushing(x)
  <2>1. pos[x] \in tail .. (head - 1)
    BY <1>2 DEF RingInv, ClaimsOwn
  <2>2. Queue[pos[x] - tail + 1] = Claim(x)
    BY <1>1, <1>2, <2>1 DEF QueueKnown
  <2>3. pos[x] - tail + 1 \in DOMAIN Queue
    BY <1>1, <2>1 DEF QueueKnown
  <2> QED
    BY <2>2, <2>3 DEF Abstract!Pushing, Claim
<1>3. ASSUME Abstract!Pushing(x) PROVE Claiming(x)
  <2>1. PICK n \in DOMAIN Queue : Queue[n].by = x
    BY <1>3 DEF Abstract!Pushing
  <2>2. PICK j \in tail .. (head - 1) : n = j - tail + 1
    <3>1. n + tail - 1 \in tail .. (head - 1) /\ n = (n + tail - 1) - tail + 1
      BY <1>1, <2>1 DEF QueueKnown
    <3> QED
      BY <3>1
  <2>3. ~Claimed(j) => Queue[n] = Published(j)
    BY <1>1, <2>2 DEF QueueKnown
  <2>4. Claimed(j)
    BY <1>1, <2>1, <2>3 DEF Published
  <2>5. PICK y \in Threads : Claiming(y) /\ pos[y] = j
    BY <2>4 DEF Claimed
  <2>6. Queue[n] = Claim(y)
    BY <1>1, <2>2, <2>5 DEF QueueKnown
  <2> QED
    BY <2>1, <2>5, <2>6 DEF Claim
<1> QED
  BY <1>2, <1>3

LEMMA PoppingKnown ==
  ASSUME NEW x \in Threads
  PROVE  Abstract!Popping(x) <=> Freeing(x)
<1>1. ASSUME Freeing(x) PROVE Abstract!Popping(x)
  <2>1. <<x, pos[x]>> \in Leaving /\ <<x, pos[x]>>[1] = x
    BY <1>1 DEF Leaving
  <2> QED
    BY <2>1 DEF Abstract!Popping
<1>2. ASSUME Abstract!Popping(x) PROVE Freeing(x)
  <2>1. PICK y \in Threads : Freeing(y) /\ <<y, pos[y]>>[1] = x
    BY <1>2 DEF Abstract!Popping, Leaving
  <2> QED
    BY <2>1
<1> QED
  BY <1>1, <1>2

LEMMA InUseKnown ==
  ASSUME RingInv
  PROVE  Abstract!InUse <=> head - tail = Capacity \/ Taken(head - Capacity)
<1>1. Len(Queue) = head - tail
  BY QueueIsKnown DEF QueueKnown
<1>2. ASSUME Taken(head - Capacity) PROVE \E p \in Leaving : p[2] = head - Capacity
  <2>1. PICK x \in Threads : Freeing(x) /\ pos[x] = head - Capacity
    BY <1>2 DEF Taken
  <2>2. <<x, pos[x]>> \in Leaving /\ <<x, pos[x]>>[2] = head - Capacity
    BY <2>1 DEF Leaving
  <2> QED
    BY <2>2
<1>3. ASSUME NEW p \in Leaving, p[2] = head - Capacity PROVE Taken(head - Capacity)
  <2>1. PICK y \in Threads : Freeing(y) /\ p = <<y, pos[y]>>
    BY DEF Leaving
  <2> QED
    BY <1>3, <2>1 DEF Taken
<1> QED
  BY <1>1, <1>2, <1>3 DEF Abstract!InUse

LEMMA CallKnown ==
  ASSUME NEW x \in Threads
  PROVE  /\ pc[x] = "idle" => Call(x) = Abstract!Idle
         /\ pc[x] \in PushPlaces => Call(x) = Abstract!Push(item[x])
         /\ pc[x] \in PopPlaces => Call(x) = Abstract!Pop
         /\ Calls[x] = Call(x)
  BY DEF Call, At, Abstract!Idle, Abstract!Push, Abstract!Pop, PushPlaces, PopPlaces, Calls

CallsAre ==
  \A x \in Threads : /\ pc[x] = "idle" => Call(x) = Abstract!Idle
                     /\ pc[x] \in PushPlaces => Call(x) = Abstract!Push(item[x])
                     /\ pc[x] \in PopPlaces => Call(x) = Abstract!Pop

LEMMA CallsAreKnown == CallsAre
  BY CallKnown DEF CallsAre

-----------------------------------------------------------------------------
(* What a step does to the abstract variables.                             *)

\* The queue stays if the places, their threads and their items do.
LEMMA QueueStays ==
  ASSUME RingInv, RingInv', UNCHANGED <<head, tail>>,
         \A y \in Threads : Claiming(y)' <=> Claiming(y),
         \A y \in Threads : Claiming(y) => pos'[y] = pos[y] /\ item'[y] = item[y],
         \A j \in tail .. (head - 1) : ~Claimed(j) => storage'[Slot(j)] = storage[Slot(j)]
  PROVE  Queue' = Queue
<1>1. QueueKnown /\ QueueKnown'
  BY QueueIsKnown, PTL
<1>2. head \in Nat /\ tail \in Nat
  BY DEF RingInv, TypeOK
<1>3. ASSUME NEW n \in 1 .. Len(Queue) PROVE Queue'[n] = Queue[n]
  <2>1. PICK j \in tail .. (head - 1) : n = j - tail + 1
    <3>1. n + tail - 1 \in tail .. (head - 1) /\ n = (n + tail - 1) - tail + 1
      BY <1>1, <1>2 DEF QueueKnown
    <3> QED
      BY <3>1
  <2>2. CASE Claimed(j)
    <3>1. PICK y \in Threads : Claiming(y) /\ pos[y] = j
      BY <2>2 DEF Claimed
    <3>2. Queue[n] = Claim(y)
      BY <1>1, <2>1, <3>1 DEF QueueKnown
    <3>3. Queue'[n] = Claim(y)'
      BY <1>1, <2>1, <3>1 DEF QueueKnown
    <3> QED
      BY <3>1, <3>2, <3>3 DEF Claim
  <2>3. CASE ~Claimed(j)
    <3>1. ~Claimed(j)'
      BY <2>3 DEF Claimed
    <3>2. Queue[n] = Published(j) /\ Queue'[n] = Published(j)'
      BY <1>1, <2>1, <2>3, <3>1 DEF QueueKnown
    <3> QED
      BY <2>3, <3>2 DEF Published
  <2> QED
    BY <2>2, <2>3
<1>4. Queue \in Seq(Elements) /\ Queue' \in Seq(Elements) /\ Len(Queue') = Len(Queue)
  BY <1>1, <1>2 DEF QueueKnown, Elements
<1> QED
  BY <1>3, <1>4, SeqEqual

\* Only thread x moves, and no slot that another thread is reading changes.
LEMMA AloneSteps ==
  ASSUME NEW x \in Threads, pc' = [pc EXCEPT ![x] = pc'[x]], Others(x), TypeOK,
         \A y \in Threads \ {x} : answer'[y] = answer[y],
         \A y \in Threads \ {x} : Freeing(y) => storage'[Slot(pos[y])] = storage[Slot(pos[y])]
  PROVE  /\ Calls' = [Calls EXCEPT ![x] = Call(x)']
         /\ Answers' = [Answers EXCEPT ![x] = Answer(x)']
         /\ Answers[x] = Answer(x) /\ Calls[x] = Call(x)
<1>1. \A y \in Threads \ {x} : Call(y)' = Call(y)
  BY DEF Call, At, Others
<1>2. ASSUME NEW y \in Threads \ {x} PROVE Answer(y)' = Answer(y)
  <2>1. pc'[y] = pc[y] /\ pos'[y] = pos[y] /\ item'[y] = item[y] /\ answer'[y] = answer[y]
    BY DEF Others
  <2>2. CASE pc[y] = "pop_read"
    BY <2>1, <2>2 DEF Answer, At, Freeing
  <2>3. CASE pc[y] # "pop_read"
    BY <2>1, <2>3 DEF Answer, At
  <2> QED
    BY <2>2, <2>3
<1> QED
  BY <1>1, <1>2 DEF Calls, Answers

LEMMA LeavingStays ==
  ASSUME \A y \in Threads : Freeing(y)' <=> Freeing(y),
         \A y \in Threads : Freeing(y) => pos'[y] = pos[y]
  PROVE  Leaving' = Leaving
<1>1. ASSUME NEW p PROVE p \in Leaving' <=> p \in Leaving
  <2>1. p \in Leaving <=> \E y \in Threads : Freeing(y) /\ p = <<y, pos[y]>>
    BY DEF Leaving
  <2>2. p \in Leaving' <=> \E y \in Threads : Freeing(y)' /\ p = <<y, pos'[y]>>
    BY DEF Leaving
  <2> QED
    BY <2>1, <2>2
<1> QED
  BY <1>1

LEMMA LocalMaps ==
  ASSUME RingInv, RingInv', NEW x \in Threads, UNCHANGED ring, Others(x),
         pc' = [pc EXCEPT ![x] = pc'[x]], \A y \in Threads \ {x} : answer'[y] = answer[y],
         Outside(x), Outside(x)'
  PROVE  /\ UNCHANGED <<Queue, head, Leaving>>
         /\ Calls' = [Calls EXCEPT ![x] = Call(x)']
         /\ Answers' = [Answers EXCEPT ![x] = Answer(x)']
         /\ Calls[x] = Call(x) /\ Answers[x] = answer[x] /\ Answer(x)' = answer'[x]
         /\ Call(x)' = Call(x) => Calls' = Calls
         /\ answer'[x] = answer[x] => Answers' = Answers
<1>1. /\ \A y \in Threads : Claiming(y)' <=> Claiming(y)
      /\ \A y \in Threads : Freeing(y)' <=> Freeing(y)
      /\ \A y \in Threads : Claiming(y) \/ Freeing(y) => y # x /\ pos'[y] = pos[y]
                                                            /\ item'[y] = item[y]
  BY DEF Outside, Claiming, Freeing, Others
<1>2. Queue' = Queue
  BY <1>1, QueueStays DEF ring
<1>3. Leaving' = Leaving
  BY <1>1, LeavingStays
<1>4. /\ Calls' = [Calls EXCEPT ![x] = Call(x)']
      /\ Answers' = [Answers EXCEPT ![x] = Answer(x)']
      /\ Answers[x] = Answer(x) /\ Calls[x] = Call(x)
  BY AloneSteps DEF ring, RingInv
<1>5. Answer(x) = answer[x] /\ Answer(x)' = answer'[x]
  BY DEF Outside, Freeing, Answer, At
<1>6. [Calls EXCEPT ![x] = Calls[x]] = Calls /\ [Answers EXCEPT ![x] = Answers[x]] = Answers
  BY DEF Calls, Answers
<1> QED
  BY <1>2, <1>3, <1>4, <1>5, <1>6 DEF ring

LEMMA PushCallMaps ==
  ASSUME RingInv, RingInv', NEW x \in Threads, PushCall(x)
  PROVE  Abstract!Next
<1>0. TypeOK
  BY DEF RingInv
<1>1. /\ pc' = [pc EXCEPT ![x] = "push_look"] /\ pc[x] = "idle" /\ pc'[x] = "push_look"
      /\ Others(x) /\ UNCHANGED <<ring, answer>>
  BY <1>0 DEF PushCall, Goto, At, Load, Others, TypeOK
<1>6. item'[x] \in Items
  BY <1>0, RingAssumption DEF PushCall, TypeOK, Items
<1>2. Outside(x) /\ Outside(x)'
  BY <1>1 DEF Outside, Claiming, Freeing
<1>3. /\ UNCHANGED <<Queue, head, Leaving>>
      /\ Calls' = [Calls EXCEPT ![x] = Call(x)'] /\ Calls[x] = Call(x)
      /\ Answers' = Answers
  BY <1>1, <1>2, LocalMaps
<1>4. Call(x) = Abstract!Idle /\ Call(x)' = Abstract!Push(item'[x])
  <2>1. CallsAre /\ CallsAre'
    BY CallsAreKnown, PTL
  <2> QED
    BY <1>1, <2>1 DEF CallsAre, PushPlaces
<1>5. Abstract!Begin(x, Abstract!Push(item'[x]))
  BY <1>3, <1>4 DEF Abstract!Begin, Abstract!Calls
<1> QED
  BY <1>5, <1>6 DEF Abstract!Next

\* A look that goes on and a compare-exchange that fails are no steps of the queue.
LEMMA LookMaps ==
  ASSUME RingInv, RingInv', NEW x \in Threads, UNCHANGED ring, Others(x),
         pc' = [pc EXCEPT ![x] = pc'[x]], UNCHANGED <<item, answer>>,
         \/ /\ pc[x] \in {"push_look", "push_load", "push_cas"}
            /\ pc'[x] \in {"push_look", "push_load", "push_cas"}
         \/ /\ pc[x] \in {"pop_look", "pop_load", "pop_cas"}
            /\ pc'[x] \in {"pop_look", "pop_load", "pop_cas"}
  PROVE  UNCHANGED Abstract!vars
<1>1. Outside(x) /\ Outside(x)'
  BY DEF Outside, Claiming, Freeing
<1>2. CallsAre /\ CallsAre'
  BY CallsAreKnown, PTL
<1>3. Call(x)' = Call(x)
  BY <1>2 DEF CallsAre, PushPlaces, PopPlaces, Abstract!Push, Abstract!Pop
<1> QED
  BY <1>1, <1>3, LocalMaps DEF Abstract!vars

LEMMA PushLookMaps ==
  ASSUME RingInv, RingInv', NEW x \in Threads, PushLook(x)
  PROVE  Abstract!Next \/ UNCHANGED Abstract!vars
<1>0. TypeOK /\ LookedAt(x) /\ ItemHeld(x) /\ HeadTail
      /\ head \in Nat /\ tail \in Nat /\ Capacity \in Nat \ {0, 1}
  BY RingAssumption DEF RingInv, Looked, ItemsHeld, TypeOK
<1>1. pc[x] = "push_look" /\ UNCHANGED ring
  BY DEF PushLook, At
<1>2. CASE SeqAt(x) < pos[x] /\ Return(x, None)
  <2>1. /\ pc' = [pc EXCEPT ![x] = "idle"] /\ pc'[x] = "idle" /\ Others(x)
        /\ answer' = [answer EXCEPT ![x] = None]
    BY <1>0, <1>2 DEF Return, Goto, Load, Others, TypeOK
  <2>2. /\ UNCHANGED <<Queue, head, Leaving>>
        /\ Calls' = [Calls EXCEPT ![x] = Call(x)'] /\ Calls[x] = Call(x)
        /\ Answers' = [Answers EXCEPT ![x] = None]
    <3>1. Outside(x) /\ Outside(x)'
      BY <1>1, <2>1 DEF Outside, Claiming, Freeing
    <3>2. answer'[x] = None /\ \A y \in Threads \ {x} : answer'[y] = answer[y]
      BY <1>0, <2>1 DEF TypeOK
    <3>3. pc' = [pc EXCEPT ![x] = pc'[x]]
      BY <2>1
    <3>4. Answer(x)' = None
      BY <1>1, <2>1, <3>1, <3>2, <3>3, LocalMaps
    <3> QED
      BY <1>1, <2>1, <3>1, <3>2, <3>3, <3>4, LocalMaps
  <2>3. Call(x) = Abstract!Push(item[x]) /\ Call(x)' = Abstract!Idle /\ item[x] \in Items
    <3>1. CallsAre /\ CallsAre'
      BY CallsAreKnown, PTL
    <3> QED
      BY <1>0, <1>1, <2>1, <3>1 DEF CallsAre, PushPlaces, ItemHeld
  <2>4. ~Abstract!Pushing(x)
    BY <1>1, PushingKnown DEF Claiming
  \* The slot still belongs to the place one round before.
  <2>5. Abstract!InUse
    <3>1. pos[x] = head /\ sequence[Slot(head)] < head
      BY <1>0, <1>1, <1>2, SlotType DEF LookedAt, SeqAt, TypeOK
    <3>2. head - Capacity \in Window /\ Slot(head - Capacity) = Slot(head)
      BY <1>0, SlotAgain DEF Window
    <3>3. CASE head - Capacity >= tail
      BY <1>0, <3>3, InUseKnown DEF HeadTail
    <3>4. CASE head - Capacity < tail
      <4>1. Taken(head - Capacity)
        BY <1>0, <3>1, <3>2, <3>4 DEF RingInv, PlacesKnown
      <4> QED
        BY <4>1, InUseKnown
    <3> QED
      BY <1>0, <3>3, <3>4
  <2>6. Abstract!Refuse(x)
    BY <2>2, <2>3, <2>4, <2>5 DEF Abstract!Refuse, Abstract!Calls, Abstract!Answers
  <2> QED
    BY <2>6 DEF Abstract!Next
<1>3. CASE Goto(x, "push_cas") /\ UNCHANGED <<pos, item, answer>>
  <2>1. pc' = [pc EXCEPT ![x] = pc'[x]] /\ pc'[x] = "push_cas" /\ Others(x)
    BY <1>0, <1>3 DEF Goto, Others, TypeOK
  <2> QED
    BY <1>1, <1>3, <2>1, LookMaps
<1>4. CASE Goto(x, "push_load") /\ UNCHANGED <<pos, item, answer>>
  <2>1. pc' = [pc EXCEPT ![x] = pc'[x]] /\ pc'[x] = "push_load" /\ Others(x)
    BY <1>0, <1>4 DEF Goto, Others, TypeOK
  <2> QED
    BY <1>1, <1>4, <2>1, LookMaps
<1> QED
  BY <1>2, <1>3, <1>4 DEF PushLook

LEMMA ReloadMaps ==
  ASSUME RingInv, RingInv', NEW x \in Threads,
         \/ PushLoad(x) \/ PopLoad(x)
         \/ CasFails(x) /\ UNCHANGED <<ring, item, answer>>
  PROVE  UNCHANGED Abstract!vars
<1>0. TypeOK
  BY DEF RingInv
<1>1. UNCHANGED ring /\ UNCHANGED <<item, answer>>
  BY DEF PushLoad, PopLoad
<1>2. CASE PushLoad(x) \/ (CasFails(x) /\ At(x, "push_cas"))
  <2>1. /\ pc[x] \in {"push_load", "push_cas"} /\ pc'[x] = "push_look"
        /\ pc' = [pc EXCEPT ![x] = pc'[x]] /\ Others(x)
    BY <1>0, <1>1, <1>2 DEF PushLoad, CasFails, Goto, Load, At, Others, TypeOK
  <2> QED
    BY <1>1, <2>1, LookMaps
<1>3. CASE PopLoad(x) \/ (CasFails(x) /\ At(x, "pop_cas"))
  <2>1. /\ pc[x] \in {"pop_load", "pop_cas"} /\ pc'[x] = "pop_look"
        /\ pc' = [pc EXCEPT ![x] = pc'[x]] /\ Others(x)
    BY <1>0, <1>1, <1>3 DEF PopLoad, CasFails, Goto, Load, At, Others, TypeOK
  <2> QED
    BY <1>1, <2>1, LookMaps
<1>4. CasFails(x) => At(x, "push_cas") \/ At(x, "pop_cas")
  BY DEF CasFails
<1> QED
  BY <1>2, <1>3, <1>4

\* The claim is a claim of the queue: the newest place is the thread's.
LEMMA PushClaimMaps ==
  ASSUME RingInv, RingInv', NEW x \in Threads, At(x, "push_cas"), head = pos[x],
         head' = head + 1, Goto(x, "push_store"),
         UNCHANGED <<tail, sequence, storage, pos, item, answer>>
  PROVE  Abstract!Next
<1>0. /\ TypeOK /\ LookedAt(x) /\ ItemHeld(x) /\ HeadTail /\ HeadTail'
      /\ head \in Nat /\ tail \in Nat /\ Capacity \in Nat \ {0, 1}
      /\ head - tail \in Nat
  BY RingAssumption DEF RingInv, Looked, ItemsHeld, TypeOK, HeadTail
<1>1. /\ pc' = [pc EXCEPT ![x] = pc'[x]] /\ pc[x] = "push_cas" /\ pc'[x] = "push_store"
      /\ Others(x)
      /\ \A y \in Threads : Freeing(y)' <=> Freeing(y)
      /\ \A y \in Threads : Claiming(y)' <=> Claiming(y) \/ y = x
      /\ ~Claiming(x) /\ ~Freeing(x) /\ Claiming(x)'
  BY <1>0 DEF Goto, At, Claiming, Freeing, Others, TypeOK
<1>2. QueueKnown /\ QueueKnown' /\ CallsAre /\ CallsAre'
  BY QueueIsKnown, CallsAreKnown, PTL
<1>3. Queue' = Append(Queue, Claim(x))
  <2>1. Claim(x) \in Elements /\ Claim(x)' = Claim(x)
    BY <1>0 DEF Claim, Elements, TypeOK
  <2>2. Queue \in Seq(Elements) /\ Queue' \in Seq(Elements)
    BY <1>2 DEF QueueKnown, Elements
  <2>3. /\ Append(Queue, Claim(x)) \in Seq(Elements)
        /\ Len(Append(Queue, Claim(x))) = Len(Queue) + 1
        /\ \A n \in 1 .. Len(Queue) : Append(Queue, Claim(x))[n] = Queue[n]
        /\ Append(Queue, Claim(x))[Len(Queue) + 1] = Claim(x)
    BY <2>1, <2>2, AppendProperties
  <2>4. Len(Queue) = head - tail /\ Len(Queue') = head - tail + 1
    BY <1>0, <1>2 DEF QueueKnown
  <2>5. Queue'[head - tail + 1] = Claim(x)
    <3>1. head \in tail' .. (head' - 1) /\ pos'[x] = head /\ tail' = tail
      BY <1>0
    <3>2. Queue'[head - tail' + 1] = Claim(x)'
      BY <1>1, <1>2, <3>1 DEF QueueKnown
    <3> QED
      BY <2>1, <3>1, <3>2
  <2>6. ASSUME NEW n \in 1 .. Len(Queue) PROVE Queue'[n] = Queue[n]
    <3>1. PICK j \in tail .. (head - 1) : n = j - tail + 1
      <4>1. n + tail - 1 \in tail .. (head - 1) /\ n = (n + tail - 1) - tail + 1
        BY <1>0, <2>4
      <4> QED
        BY <4>1
    <3>2. j \in tail' .. (head' - 1) /\ tail' = tail /\ j # pos[x]
      BY <1>0, <3>1
    <3>3. CASE Claimed(j)
      <4>1. PICK y \in Threads : Claiming(y) /\ pos[y] = j
        BY <3>3 DEF Claimed
      <4>2. Queue[n] = Claim(y)
        BY <1>2, <3>1, <4>1 DEF QueueKnown
      <4>3. Queue'[n] = Claim(y)'
        BY <1>1, <1>2, <3>1, <3>2, <4>1 DEF QueueKnown
      <4> QED
        BY <4>2, <4>3 DEF Claim
    <3>4. CASE ~Claimed(j)
      <4>1. ~Claimed(j)'
        BY <1>1, <3>2, <3>4 DEF Claimed
      <4>2. Queue[n] = Published(j) /\ Queue'[n] = Published(j)'
        BY <1>2, <3>1, <3>2, <3>4, <4>1 DEF QueueKnown
      <4> QED
        BY <4>2 DEF Published
    <3> QED
      BY <3>3, <3>4
  <2> HIDE DEF Claim
  <2>7. \A n \in 1 .. Len(Queue') : Queue'[n] = Append(Queue, Claim(x))[n]
    <3> TAKE n \in 1 .. Len(Queue')
    <3>1. CASE n \in 1 .. Len(Queue)
      BY <2>3, <2>6, <3>1
    <3>2. CASE n = Len(Queue) + 1
      BY <2>3, <2>4, <2>5, <3>2
    <3> QED
      BY <1>0, <2>4, <3>1, <3>2
  <2>8. Len(Queue') = Len(Append(Queue, Claim(x)))
    BY <2>3, <2>4
  <2> QED
    BY <2>2, <2>3, <2>7, <2>8, SeqEqual
<1>4. Leaving' = Leaving
  BY <1>1, LeavingStays
<1>5. Calls[x] = Abstract!Push(item[x]) /\ Calls' = Calls /\ Answers' = Answers
  <2>1. /\ Calls' = [Calls EXCEPT ![x] = Call(x)'] /\ Calls[x] = Call(x)
        /\ Answers' = [Answers EXCEPT ![x] = Answer(x)'] /\ Answers[x] = Answer(x)
    BY <1>0, <1>1, AloneSteps
  <2>2. Answer(x)' = Answer(x)
    BY <1>1 DEF Answer, At
  <2>3. Call(x) = Abstract!Push(item[x]) /\ Call(x)' = Abstract!Push(item[x])
    BY <1>1, <1>2 DEF CallsAre, PushPlaces, Abstract!Push
  <2>4. [Calls EXCEPT ![x] = Calls[x]] = Calls /\ [Answers EXCEPT ![x] = Answers[x]] = Answers
    BY DEF Calls, Answers
  <2> QED
    BY <2>1, <2>2, <2>3, <2>4
<1>6. ~Abstract!Pushing(x)
  BY <1>1, PushingKnown
\* The slot was seen free.
<1>7. ~Abstract!InUse
  <2>1. head - tail # Capacity
    BY <1>0 DEF HeadTail
  <2>2. sequence[Slot(head)] = head /\ Slot(head - Capacity) = Slot(head)
    BY <1>0, SlotAgain DEF LookedAt, SeqAt
  <2>3. ~Taken(head - Capacity)
    BY <1>0, <2>2 DEF RingInv, FreesOwn, Taken, SeqAt
  <2> QED
    BY <2>1, <2>3, InUseKnown
<1>8. Abstract!Claim(x, item[x])
  BY <1>3, <1>4, <1>5, <1>6, <1>7 DEF Abstract!Claim, Claim
<1>9. item[x] \in Items
  BY <1>0, <1>1 DEF ItemHeld, PushPlaces
<1> QED
  BY <1>8, <1>9 DEF Abstract!Next

\* An index of the queue is a place.
LEMMA IndexPlace ==
  ASSUME RingInv, NEW n \in 1 .. Len(Queue)
  PROVE  \E j \in tail .. (head - 1) : n = j - tail + 1
<1>1. head \in Nat /\ tail \in Nat /\ Len(Queue) = head - tail
  BY QueueIsKnown DEF RingInv, TypeOK, QueueKnown
<1>2. n + tail - 1 \in tail .. (head - 1) /\ n = (n + tail - 1) - tail + 1
  BY <1>1
<1> QED
  BY <1>2

\* The slot is written: nobody sees it before it is published.
LEMMA PushStoreMaps ==
  ASSUME RingInv, RingInv', NEW x \in Threads, PushStore(x)
  PROVE  UNCHANGED Abstract!vars
<1>0. TypeOK
  BY DEF RingInv
<1>1. /\ pc' = [pc EXCEPT ![x] = pc'[x]] /\ pc[x] = "push_store" /\ pc'[x] = "push_publish"
      /\ storage' = [storage EXCEPT ![Slot(pos[x])] = item[x]]
      /\ Others(x)
      /\ UNCHANGED <<head, tail, sequence, pos, item, answer>>
  BY <1>0 DEF PushStore, Goto, Store, At, Others, TypeOK
<1>2. /\ \A y \in Threads : Claiming(y)' <=> Claiming(y)
      /\ \A y \in Threads : Freeing(y)' <=> Freeing(y)
      /\ Claiming(x) /\ ~Freeing(x)
  BY <1>0, <1>1 DEF Claiming, Freeing, TypeOK
<1>3. \A s \in Slots : s # Slot(pos[x]) => storage'[s] = storage[s]
  BY <1>0, <1>1 DEF TypeOK
<1>4. Queue' = Queue
  <2>1. ASSUME NEW j \in tail .. (head - 1), ~Claimed(j)
        PROVE  storage'[Slot(j)] = storage[Slot(j)]
    <3>1. j \in Window /\ pos[x] \in Window /\ j # pos[x] /\ Slot(j) \in Slots
      BY <1>0, <1>2, <2>1, OwnPlace, SlotType, RingAssumption
         DEF Claimed, Window, RingInv, HeadTail, TypeOK
    <3> QED
      BY <1>0, <1>3, <3>1, WindowApart
  <2> QED
    BY <1>1, <1>2, <2>1, QueueStays
<1>5. Leaving' = Leaving
  BY <1>1, <1>2, LeavingStays
<1>6. Calls' = Calls /\ Answers' = Answers
  <2>1. ASSUME NEW y \in Threads \ {x}, Freeing(y)
        PROVE  storage'[Slot(pos[y])] = storage[Slot(pos[y])]
    <3>1. Slot(pos[y]) # Slot(pos[x]) /\ Slot(pos[y]) \in Slots
      BY <1>0, <1>2, <2>1, OwnApart, SlotType DEF TypeOK
    <3> QED
      BY <1>3, <3>1
  <2>2. /\ Calls' = [Calls EXCEPT ![x] = Call(x)'] /\ Calls[x] = Call(x)
        /\ Answers' = [Answers EXCEPT ![x] = Answer(x)'] /\ Answers[x] = Answer(x)
    BY <1>0, <1>1, <2>1, AloneSteps
  <2>3. Answer(x)' = Answer(x) /\ Call(x)' = Call(x)
    BY <1>1 DEF Answer, Call, At, PushPlaces
  <2>4. [Calls EXCEPT ![x] = Calls[x]] = Calls /\ [Answers EXCEPT ![x] = Answers[x]] = Answers
    BY DEF Calls, Answers
  <2> QED
    BY <2>2, <2>3, <2>4
<1> QED
  BY <1>1, <1>4, <1>5, <1>6 DEF Abstract!vars

LEMMA PublishMaps ==
  ASSUME RingInv, RingInv', NEW x \in Threads, PushPublish(x)
  PROVE  Abstract!Next
<1>0. TypeOK /\ ItemHeld(x) /\ head \in Nat /\ tail \in Nat
  BY DEF RingInv, ItemsHeld, TypeOK
<1>1. /\ pc' = [pc EXCEPT ![x] = pc'[x]] /\ pc[x] = "push_publish" /\ pc'[x] = "idle"
      /\ Others(x)
      /\ answer' = [answer EXCEPT ![x] = item[x]]
      /\ UNCHANGED <<head, tail, storage>>
  BY <1>0 DEF PushPublish, Goto, Return, Load, At, Others, TypeOK
<1>2. /\ \A y \in Threads : Claiming(y)' <=> Claiming(y) /\ y # x
      /\ \A y \in Threads : Freeing(y)' <=> Freeing(y)
      /\ Claiming(x) /\ ~Freeing(x)
  BY <1>0, <1>1 DEF Claiming, Freeing, TypeOK
<1>3. QueueKnown /\ QueueKnown' /\ CallsAre /\ CallsAre'
  BY QueueIsKnown, CallsAreKnown, PTL
<1> DEFINE m == pos[x] - tail + 1
<1>4. /\ pos[x] \in tail .. (head - 1) /\ m \in 1 .. Len(Queue) /\ DOMAIN Queue = 1 .. Len(Queue)
      /\ Queue[m] = Claim(x)
  <2>1. pos[x] \in tail .. (head - 1)
    BY <1>2 DEF RingInv, ClaimsOwn
  <2>2. m \in 1 .. Len(Queue) /\ DOMAIN Queue = 1 .. Len(Queue)
    BY <1>0, <1>3, <2>1 DEF QueueKnown
  <2>3. Queue[m] = Claim(x)
    BY <1>2, <1>3, <2>1 DEF QueueKnown
  <2> QED
    BY <2>1, <2>2, <2>3
<1>5. Queue' = [Queue EXCEPT ![m].by = None]
  <2> DEFINE q == [Queue EXCEPT ![m].by = None]
  <2>1. Queue \in Seq(Elements) /\ Queue' \in Seq(Elements) /\ Len(Queue') = Len(Queue)
    BY <1>1, <1>3 DEF QueueKnown, Elements
  <2>2. /\ q = [Queue EXCEPT ![m] = [item |-> item[x], by |-> None]]
        /\ [item |-> item[x], by |-> None] \in Elements
    <3>1. [Queue[m] EXCEPT !.by = None] = [item |-> item[x], by |-> None]
      BY <1>4 DEF Claim
    <3>2. q = [Queue EXCEPT ![m] = [Queue[m] EXCEPT !.by = None]]
      OBVIOUS
    <3>3. [item |-> item[x], by |-> None] \in Elements
      BY <1>0 DEF Elements, TypeOK
    <3> QED
      BY <3>1, <3>2, <3>3
  <2>3. /\ q \in Seq(Elements) /\ Len(q) = Len(Queue)
        /\ q[m] = [item |-> item[x], by |-> None]
        /\ \A n \in 1 .. Len(Queue) : n # m => q[n] = Queue[n]
    BY <1>4, <2>1, <2>2
  <2>4. Queue'[m] = [item |-> item[x], by |-> None]
    <3>2. PICK j \in tail .. (head - 1) : j = pos[x]
      BY <1>4
    <3>3. ~Claimed(j)'
      BY <1>1, <1>2, <3>2, OwnApart DEF Claimed, Others
    <3>4. Queue'[m] = Published(j)'
      BY <1>1, <1>3, <3>2, <3>3 DEF QueueKnown
    <3>5. storage[Slot(pos[x])] = item[x]
      BY <1>0, <1>1 DEF ItemHeld, At
    <3> QED
      BY <1>1, <3>2, <3>4, <3>5 DEF Published
  <2>5. ASSUME NEW n \in 1 .. Len(Queue), n # m PROVE Queue'[n] = Queue[n]
    <3>1. PICK j \in tail .. (head - 1) : n = j - tail + 1
      BY IndexPlace
    <3>2. j \in tail' .. (head' - 1) /\ n = j - tail' + 1 /\ j # pos[x]
      BY <1>1, <2>5, <3>1
    <3>3. CASE Claimed(j)
      <4>1. PICK y \in Threads : Claiming(y) /\ pos[y] = j
        BY <3>3 DEF Claimed
      <4>2. Queue[n] = Claim(y)
        BY <1>3, <3>1, <4>1 DEF QueueKnown
      <4>3. Claiming(y)' /\ pos'[y] = j /\ item'[y] = item[y]
        BY <1>1, <1>2, <3>2, <4>1 DEF Others
      <4>4. Queue'[n] = Claim(y)'
        BY <1>3, <3>2, <4>3 DEF QueueKnown
      <4> QED
        BY <4>2, <4>3, <4>4 DEF Claim
    <3>4. CASE ~Claimed(j)
      <4>1. ~Claimed(j)'
        BY <1>1, <1>2, <3>4 DEF Claimed, Others
      <4>2. Queue[n] = Published(j) /\ Queue'[n] = Published(j)'
        BY <1>3, <3>1, <3>2, <3>4, <4>1 DEF QueueKnown
      <4> QED
        BY <1>1, <4>2 DEF Published
    <3> QED
      BY <3>3, <3>4
  <2> HIDE DEF q, m
  <2>6. \A n \in 1 .. Len(Queue') : Queue'[n] = q[n]
    BY <2>1, <2>3, <2>4, <2>5
  <2>7. Queue' = q
    BY <2>1, <2>3, <2>6, SeqEqual
  <2> QED
    BY <2>7 DEF q
<1>6. Leaving' = Leaving
  BY <1>1, <1>2, LeavingStays DEF Others
<1>7. Calls' = [Calls EXCEPT ![x] = Abstract!Idle] /\ Answers' = [Answers EXCEPT ![x] = item[x]]
  <2>1. /\ Calls' = [Calls EXCEPT ![x] = Call(x)']
        /\ Answers' = [Answers EXCEPT ![x] = Answer(x)']
    BY <1>0, <1>1, AloneSteps DEF TypeOK
  <2>2. Answer(x)' = item[x] /\ Call(x)' = Abstract!Idle
    BY <1>0, <1>1, <1>3 DEF Answer, At, CallsAre, TypeOK
  <2> QED
    BY <2>1, <2>2
<1> HIDE DEF m
<1>8. Abstract!Publish(x)
  <2>1. Queue[m].by = x /\ Queue[m].item = item[x]
    BY <1>4 DEF Claim
  <2> QED
    BY <1>1, <1>4, <1>5, <1>6, <1>7, <2>1 DEF Abstract!Publish, Abstract!Calls, Abstract!Answers
<1> QED
  BY <1>8 DEF Abstract!Next

LEMMA PopCallMaps ==
  ASSUME RingInv, RingInv', NEW x \in Threads, PopCall(x)
  PROVE  Abstract!Next
<1>0. TypeOK
  BY DEF RingInv
<1>1. /\ pc' = [pc EXCEPT ![x] = pc'[x]] /\ pc[x] = "idle" /\ pc'[x] = "pop_look"
      /\ Others(x) /\ UNCHANGED <<ring, item, answer>>
  BY <1>0 DEF PopCall, Goto, At, Load, Others, TypeOK
<1>2. Outside(x) /\ Outside(x)'
  BY <1>1 DEF Outside, Claiming, Freeing
<1>3. /\ UNCHANGED <<Queue, head, Leaving>>
      /\ Calls' = [Calls EXCEPT ![x] = Call(x)'] /\ Calls[x] = Call(x)
      /\ Answers' = Answers
  BY <1>1, <1>2, LocalMaps
<1>4. Call(x) = Abstract!Idle /\ Call(x)' = Abstract!Pop
  <2>1. CallsAre /\ CallsAre'
    BY CallsAreKnown, PTL
  <2> QED
    BY <1>1, <2>1 DEF CallsAre, PopPlaces
<1>5. Abstract!Begin(x, Abstract!Pop)
  BY <1>3, <1>4 DEF Abstract!Begin, Abstract!Calls
<1> QED
  BY <1>5 DEF Abstract!Next

LEMMA PopLookMaps ==
  ASSUME RingInv, RingInv', NEW x \in Threads, PopLook(x)
  PROVE  Abstract!Next \/ UNCHANGED Abstract!vars
<1>0. /\ TypeOK /\ LookedAt(x) /\ HeadTail
      /\ head \in Nat /\ tail \in Nat /\ Capacity \in Nat \ {0, 1}
  BY RingAssumption DEF RingInv, Looked, TypeOK
<1>1. pc[x] = "pop_look" /\ UNCHANGED ring
  BY DEF PopLook, At
<1>2. CASE SeqAt(x) < pos[x] + 1 /\ Return(x, None)
  <2>1. /\ pc' = [pc EXCEPT ![x] = pc'[x]] /\ pc'[x] = "idle" /\ Others(x)
        /\ answer'[x] = None /\ \A y \in Threads \ {x} : answer'[y] = answer[y]
    BY <1>0, <1>2 DEF Return, Goto, Load, Others, TypeOK
  <2>2. Outside(x) /\ Outside(x)'
    BY <1>1, <2>1 DEF Outside, Claiming, Freeing
  <2>3. /\ UNCHANGED <<Queue, head, Leaving>>
        /\ Calls' = [Calls EXCEPT ![x] = Call(x)'] /\ Calls[x] = Call(x)
        /\ Answers' = [Answers EXCEPT ![x] = Answer(x)'] /\ Answer(x)' = None
    BY <1>1, <2>1, <2>2, LocalMaps
  <2>4. Call(x) = Abstract!Pop /\ Call(x)' = Abstract!Idle
    <3>1. CallsAre /\ CallsAre'
      BY CallsAreKnown, PTL
    <3> QED
      BY <1>1, <2>1, <3>1 DEF CallsAre, PopPlaces
  <2>5. ~Abstract!Popping(x)
    BY <2>2, PoppingKnown DEF Outside
  \* The oldest place, if there is one, is not published.
  <2>6. Queue = <<>> \/ Queue[1].by # None
    <3>1. pos[x] = tail /\ sequence[Slot(tail)] < tail + 1
      BY <1>0, <1>1, <1>2, SlotType DEF LookedAt, SeqAt, TypeOK
    <3>2. QueueKnown
      BY QueueIsKnown
    <3>3. CASE tail = head
      BY <1>0, <3>2, <3>3 DEF QueueKnown
    <3>4. CASE tail < head
      <4>1. tail \in Window
        BY <1>0, <3>4 DEF Window, HeadTail
      <4>2. sequence[Slot(tail)] # tail + 1
        BY <1>0, <3>1, SlotType DEF TypeOK
      <4>3. PICK y \in Threads : Claiming(y) /\ pos[y] = tail
        BY <1>0, <4>1, <4>2 DEF RingInv, PlacesKnown, Claimed
      <4>4. PICK j \in tail .. (head - 1) : j = tail
        BY <1>0, <3>4
      <4>5. Queue[j - tail + 1] = Claim(y)
        BY <3>2, <4>3, <4>4 DEF QueueKnown
      <4>6. j - tail + 1 = 1 /\ y # None
        BY <1>0, <4>4, RingAssumption
      <4> QED
        BY <4>5, <4>6 DEF Claim
    <3> QED
      BY <1>0, <3>3, <3>4 DEF HeadTail
  <2>7. Abstract!Fail(x)
    BY <2>3, <2>4, <2>5, <2>6 DEF Abstract!Fail, Abstract!Calls, Abstract!Answers
  <2> QED
    BY <2>7 DEF Abstract!Next
<1>3. CASE Goto(x, "pop_cas") /\ UNCHANGED <<pos, item, answer>>
  <2>1. pc' = [pc EXCEPT ![x] = pc'[x]] /\ pc'[x] = "pop_cas" /\ Others(x)
    BY <1>0, <1>3 DEF Goto, Others, TypeOK
  <2> QED
    BY <1>1, <1>3, <2>1, LookMaps
<1>4. CASE Goto(x, "pop_load") /\ UNCHANGED <<pos, item, answer>>
  <2>1. pc' = [pc EXCEPT ![x] = pc'[x]] /\ pc'[x] = "pop_load" /\ Others(x)
    BY <1>0, <1>4 DEF Goto, Others, TypeOK
  <2> QED
    BY <1>1, <1>4, <2>1, LookMaps
<1> QED
  BY <1>2, <1>3, <1>4 DEF PopLook

\* The claim of the oldest place takes its item from the queue.
LEMMA PopClaimMaps ==
  ASSUME RingInv, RingInv', NEW x \in Threads, At(x, "pop_cas"), tail = pos[x], tail < head,
         tail' = tail + 1, Goto(x, "pop_read"),
         UNCHANGED <<head, sequence, storage, pos, item, answer>>
  PROVE  Abstract!Next
<1>0. /\ TypeOK /\ LookedAt(x) /\ HeadTail
      /\ head \in Nat /\ tail \in Nat /\ Capacity \in Nat \ {0, 1} /\ head - tail \in Nat
  BY RingAssumption DEF RingInv, Looked, TypeOK, HeadTail
<1>1. /\ pc' = [pc EXCEPT ![x] = pc'[x]] /\ pc[x] = "pop_cas" /\ pc'[x] = "pop_read"
      /\ Others(x)
      /\ \A y \in Threads : Freeing(y)' <=> Freeing(y) \/ y = x
      /\ \A y \in Threads : Claiming(y)' <=> Claiming(y)
      /\ ~Freeing(x)
  BY <1>0 DEF Goto, At, Claiming, Freeing, Others, TypeOK
<1>2. QueueKnown /\ QueueKnown' /\ CallsAre /\ CallsAre'
  BY QueueIsKnown, CallsAreKnown, PTL
<1>3. Len(Queue) = head - tail /\ Queue # <<>>
  BY <1>0, <1>2 DEF QueueKnown
\* It was seen full, so its push is over.
<1>4. Queue[1] = Published(tail)
  <2>1. sequence[Slot(tail)] = tail + 1
    BY <1>0 DEF LookedAt, At, SeqAt
  <2>2. PICK j \in tail .. (head - 1) : j = tail
    BY <1>0
  <2>3. ~Claimed(j)
    BY <1>0, <2>1, <2>2 DEF RingInv, ClaimsOwn, Claimed, SeqAt
  <2>4. Queue[j - tail + 1] = Published(j)
    BY <1>2, <2>3 DEF QueueKnown
  <2>5. j - tail + 1 = 1
    BY <1>0, <2>2
  <2> QED
    BY <2>2, <2>4, <2>5
<1>5. Queue' = Tail(Queue)
  <2>1. Queue \in Seq(Elements) /\ Queue' \in Seq(Elements) /\ Len(Queue') = head - tail - 1
    BY <1>0, <1>2 DEF QueueKnown, Elements
  <2>2. /\ Tail(Queue) \in Seq(Elements) /\ Len(Tail(Queue)) = Len(Queue) - 1
        /\ \A n \in 1 .. (Len(Queue) - 1) : Tail(Queue)[n] = Queue[n + 1]
    BY <1>3, <2>1, HeadTailProperties
  <2>3. ASSUME NEW n \in 1 .. (head - tail - 1) PROVE Queue'[n] = Queue[n + 1]
    <3>1. PICK j \in tail .. (head - 1) : n + 1 = j - tail + 1
      <4>1. n + tail \in tail .. (head - 1) /\ n + 1 = (n + tail) - tail + 1
        BY <1>0
      <4> QED
        BY <4>1
    <3>2. j \in tail' .. (head' - 1) /\ n = j - tail' + 1
      BY <1>0, <3>1
    <3>3. CASE Claimed(j)
      <4>1. PICK y \in Threads : Claiming(y) /\ pos[y] = j
        BY <3>3 DEF Claimed
      <4>2. Queue[n + 1] = Claim(y)
        BY <1>2, <3>1, <4>1 DEF QueueKnown
      <4>3. Queue'[n] = Claim(y)'
        BY <1>1, <1>2, <3>2, <4>1 DEF QueueKnown
      <4> QED
        BY <4>2, <4>3 DEF Claim
    <3>4. CASE ~Claimed(j)
      <4>1. ~Claimed(j)'
        BY <1>1, <3>4 DEF Claimed
      <4>2. Queue[n + 1] = Published(j)
        BY <1>2, <3>1, <3>4 DEF QueueKnown
      <4>3. Queue'[n] = Published(j)'
        BY <1>2, <3>2, <4>1 DEF QueueKnown
      <4> QED
        BY <4>2, <4>3 DEF Published
    <3> QED
      BY <3>3, <3>4
  <2>4. Len(Queue') = Len(Tail(Queue))
    BY <1>0, <1>3, <2>1, <2>2
  <2>5. \A n \in 1 .. Len(Queue') : Queue'[n] = Tail(Queue)[n]
    BY <1>0, <1>3, <2>1, <2>2, <2>3
  <2> QED
    BY <2>1, <2>2, <2>4, <2>5, SeqEqual
<1>6. Leaving' = Leaving \cup {<<x, head - Len(Queue)>>}
  <2>1. head - Len(Queue) = pos[x]
    BY <1>0, <1>3
  <2>2. ASSUME NEW p PROVE p \in Leaving' <=> p \in Leaving \/ p = <<x, pos[x]>>
    <3>1. p \in Leaving <=> \E y \in Threads : Freeing(y) /\ p = <<y, pos[y]>>
      BY DEF Leaving
    <3>2. p \in Leaving' <=> \E y \in Threads : Freeing(y)' /\ p = <<y, pos[y]>>
      BY DEF Leaving
    <3> QED
      BY <1>1, <3>1, <3>2
  <2> QED
    BY <2>1, <2>2
<1>7. /\ Calls[x] = Abstract!Pop /\ Calls' = Calls
      /\ Answers' = [Answers EXCEPT ![x] = Queue[1].item]
  <2>1. /\ Calls' = [Calls EXCEPT ![x] = Call(x)'] /\ Calls[x] = Call(x)
        /\ Answers' = [Answers EXCEPT ![x] = Answer(x)']
    BY <1>0, <1>1, AloneSteps
  <2>2. Answer(x)' = Queue[1].item
    BY <1>0, <1>1, <1>4 DEF Answer, At, Published
  <2>3. Call(x) = Abstract!Pop /\ Call(x)' = Abstract!Pop
    BY <1>1, <1>2 DEF CallsAre, PopPlaces, Abstract!Pop
  <2>4. [Calls EXCEPT ![x] = Calls[x]] = Calls
    BY DEF Calls
  <2> QED
    BY <2>1, <2>2, <2>3, <2>4
<1>8. ~Abstract!Popping(x)
  BY <1>1, PoppingKnown
<1>9. Queue[1].by = None
  BY <1>4 DEF Published
<1>10. Abstract!Take(x)
  BY <1>3, <1>5, <1>6, <1>7, <1>8, <1>9 DEF Abstract!Take, Abstract!Answers
<1> QED
  BY <1>10 DEF Abstract!Next

\* The answer is known from the claim on: the slot is not written before it is read.
LEMMA PopReadMaps ==
  ASSUME RingInv, RingInv', NEW x \in Threads, PopRead(x)
  PROVE  UNCHANGED Abstract!vars
<1>0. TypeOK
  BY DEF RingInv
<1>1. /\ pc' = [pc EXCEPT ![x] = pc'[x]] /\ pc[x] = "pop_read" /\ pc'[x] = "pop_free"
      /\ item'[x] = storage[Slot(pos[x])]
      /\ Others(x)
      /\ UNCHANGED <<head, tail, sequence, storage, pos, answer>>
  BY <1>0 DEF PopRead, Goto, At, Others, TypeOK, ring
<1>2. /\ \A y \in Threads : Claiming(y)' <=> Claiming(y)
      /\ \A y \in Threads : Freeing(y)' <=> Freeing(y)
      /\ ~Claiming(x)
  BY <1>0, <1>1 DEF Claiming, Freeing, TypeOK
<1>3. Queue' = Queue
  BY <1>1, <1>2, QueueStays DEF Others
<1>4. Leaving' = Leaving
  BY <1>1, <1>2, LeavingStays
<1>5. Calls' = Calls /\ Answers' = Answers
  <2>1. /\ Calls' = [Calls EXCEPT ![x] = Call(x)'] /\ Calls[x] = Call(x)
        /\ Answers' = [Answers EXCEPT ![x] = Answer(x)'] /\ Answers[x] = Answer(x)
    BY <1>0, <1>1, AloneSteps
  <2>2. Answer(x)' = Answer(x) /\ Call(x)' = Call(x)
    BY <1>1 DEF Answer, Call, At, PushPlaces
  <2>3. [Calls EXCEPT ![x] = Calls[x]] = Calls /\ [Answers EXCEPT ![x] = Answers[x]] = Answers
    BY DEF Calls, Answers
  <2> QED
    BY <2>1, <2>2, <2>3
<1> QED
  BY <1>1, <1>3, <1>4, <1>5 DEF Abstract!vars

LEMMA PopFreeMaps ==
  ASSUME RingInv, RingInv', NEW x \in Threads, PopFree(x)
  PROVE  Abstract!Next
<1>0. TypeOK
  BY DEF RingInv
<1>1. /\ pc' = [pc EXCEPT ![x] = pc'[x]] /\ pc[x] = "pop_free" /\ pc'[x] = "idle"
      /\ Others(x)
      /\ answer' = [answer EXCEPT ![x] = item[x]]
      /\ UNCHANGED <<head, tail, storage>>
  BY <1>0 DEF PopFree, Goto, Return, Load, At, Others, TypeOK
<1>2. /\ \A y \in Threads : Claiming(y)' <=> Claiming(y)
      /\ \A y \in Threads : Freeing(y)' <=> Freeing(y) /\ y # x
      /\ Freeing(x) /\ ~Claiming(x)
  BY <1>0, <1>1 DEF Claiming, Freeing, TypeOK
<1>3. CallsAre /\ CallsAre'
  BY CallsAreKnown, PTL
<1>4. Queue' = Queue
  BY <1>1, <1>2, QueueStays DEF Others
<1>5. <<x, pos[x]>> \in Leaving /\ Leaving' = Leaving \ {<<x, pos[x]>>}
  <2>1. ASSUME NEW p PROVE p \in Leaving' <=> p \in Leaving /\ p # <<x, pos[x]>>
    <3>1. p \in Leaving <=> \E y \in Threads : Freeing(y) /\ p = <<y, pos[y]>>
      BY DEF Leaving
    <3>2. p \in Leaving' <=> \E y \in Threads : Freeing(y)' /\ p = <<y, pos'[y]>>
      BY DEF Leaving
    <3> QED
      BY <1>1, <1>2, <3>1, <3>2 DEF Others
  <2>2. <<x, pos[x]>> \in Leaving
    BY <1>2 DEF Leaving
  <2> QED
    BY <2>1, <2>2
<1>6. Calls' = [Calls EXCEPT ![x] = Abstract!Idle] /\ Answers' = Answers
  <2>1. /\ Calls' = [Calls EXCEPT ![x] = Call(x)']
        /\ Answers' = [Answers EXCEPT ![x] = Answer(x)'] /\ Answers[x] = Answer(x)
    BY <1>0, <1>1, AloneSteps DEF TypeOK
  <2>2. Answer(x)' = Answer(x) /\ Call(x)' = Abstract!Idle
    BY <1>0, <1>1, <1>3 DEF Answer, At, CallsAre, TypeOK
  <2>3. [Answers EXCEPT ![x] = Answers[x]] = Answers
    BY DEF Answers
  <2> QED
    BY <2>1, <2>2, <2>3
<1>7. Abstract!Release(x)
  <2>1. \E p \in Leaving : p[1] = x /\ Leaving' = Leaving \ {p}
    <3>1. <<x, pos[x]>>[1] = x
      OBVIOUS
    <3> QED
      BY <1>5, <3>1
  <2> QED
    BY <1>1, <1>4, <1>6, <2>1 DEF Abstract!Release, Abstract!Calls
<1> QED
  BY <1>7 DEF Abstract!Next

LEMMA ClearMaps ==
  ASSUME RingInv, RingInv', Clear
  PROVE  Abstract!Next
<1>1. /\ \A x \in Threads : pc[x] = "idle" /\ pc'[x] = "idle"
      /\ UNCHANGED <<storage, pc, pos, item, pushes, answer>>
      /\ head' = 0 /\ tail' = 0
  BY DEF Clear, At
<1>2. QueueKnown' /\ CallsAre
  BY QueueIsKnown, CallsAreKnown, PTL
<1>3. Queue' = <<>>
  BY <1>1, <1>2 DEF QueueKnown
<1>4. Leaving' = Leaving
  BY <1>1, LeavingStays DEF Freeing
<1>5. Calls' = Calls /\ Answers' = Answers
  BY <1>1 DEF Calls, Answers, Call, Answer, At
<1>6. \A x \in Threads : Calls[x] = Abstract!Idle
  BY <1>1, <1>2, CallKnown DEF CallsAre
<1>7. Abstract!Clear
  BY <1>1, <1>3, <1>4, <1>5, <1>6 DEF Abstract!Clear
<1> QED
  BY <1>7 DEF Abstract!Next

-----------------------------------------------------------------------------
(* The refinement.                                                         *)

LEMMA InitMaps == Init => Abstract!Init
<1> SUFFICES ASSUME Init PROVE Abstract!Init
  OBVIOUS
<1>1. RingInv /\ \A x \in Threads : pc[x] = "idle" /\ answer[x] = None
  BY InitInv DEF Init
<1>2. Queue = <<>>
  BY <1>1, QueueIsKnown DEF QueueKnown, Init
<1>3. Leaving = {}
  BY <1>1 DEF Leaving, Freeing
<1>4. \A x \in Threads : Call(x) = Abstract!Idle /\ Answer(x) = None
  BY <1>1, CallKnown DEF Answer, At
<1> QED
  BY <1>2, <1>3, <1>4 DEF Init, Abstract!Init, Calls, Answers

LEMMA NextMaps ==
  RingInv /\ RingInv' /\ [Next]_vars => [Abstract!Next]_(Abstract!vars)
<1> SUFFICES ASSUME RingInv, RingInv', [Next]_vars
             PROVE  Abstract!Next \/ UNCHANGED Abstract!vars
  OBVIOUS
<1>1. ASSUME NEW x \in Threads, PushCall(x) \/ PushLook(x) \/ PopCall(x) \/ PopLook(x)
      PROVE  Abstract!Next \/ UNCHANGED Abstract!vars
  BY <1>1, PushCallMaps, PushLookMaps, PopCallMaps, PopLookMaps
<1>2. ASSUME NEW x \in Threads, PushLoad(x) \/ PopLoad(x)
      PROVE  UNCHANGED Abstract!vars
  BY <1>2, ReloadMaps
<1>3. ASSUME NEW x \in Threads, PushCas(x)
      PROVE  Abstract!Next \/ UNCHANGED Abstract!vars
  BY <1>3, PushClaimMaps, ReloadMaps DEF PushCas, CasFails, ring
<1>4. ASSUME NEW x \in Threads, PopCas(x)
      PROVE  Abstract!Next \/ UNCHANGED Abstract!vars
  <2>1. TypeOK'
    BY DEF RingInv
  <2> QED
    BY <1>4, <2>1, PopClaimMaps, PopClaimInv, ReloadMaps DEF PopCas, CasFails, ring
<1>5. ASSUME NEW x \in Threads, PushStore(x) \/ PopRead(x)
      PROVE  UNCHANGED Abstract!vars
  BY <1>5, PushStoreMaps, PopReadMaps
<1>6. ASSUME NEW x \in Threads, PushPublish(x) \/ PopFree(x)
      PROVE  Abstract!Next
  BY <1>6, PublishMaps, PopFreeMaps
<1>7. ASSUME Clear PROVE Abstract!Next
  BY <1>7, ClearMaps
<1>8. ASSUME UNCHANGED vars PROVE UNCHANGED Abstract!vars
  BY <1>8 DEF vars, ring, Abstract!vars, Calls, Queue, Leaving, Answers, Call, Entry, Answer, At,
              Claiming, Freeing
<1> QED
  BY <1>1, <1>2, <1>3, <1>4, <1>5, <1>6, <1>7, <1>8 DEF Next

\* The ring implements the queue: items come out once, in the order in which their places
\* were claimed, and a call fails only for the reasons that WorkQueue allows.
THEOREM ImplementsTheorem == Spec => Implements
<1> QED
  BY InitMaps, NextMaps, RingCorrect, PTL DEF Spec, Implements, Abstract!Spec

=============================================================================
