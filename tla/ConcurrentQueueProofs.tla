------------------------ MODULE ConcurrentQueueProofs ------------------------
(***************************************************************************)
(* Proofs about ConcurrentQueue, for any threads, items, buckets and       *)
(* slots per bucket: no element is left in a freed or cleared bucket, no   *)
(* thread works in a bucket that was freed, and the chain of buckets       *)
(* implements TicketQueue, the queue of places.                            *)
(*                                                                         *)
(* The invariant QueueInv says that head, next and tail make one chain of  *)
(* the live buckets (ChainInv), where the two cursors of each bucket may   *)
(* be (CursorInv), what a slot holds for each position of the cursors      *)
(* (SlotInv), and what the threads that are in a bucket know of their slot *)
(* (MakeInv, ReadInv) while they hold the shared lock (LockInv).  The      *)
(* refinement cuts the places of TicketQueue into one part per bucket:     *)
(* every step changes one part, and FlattenSeq says what that does to the  *)
(* whole.                                                                  *)
(***************************************************************************)
EXTENDS ConcurrentQueue, FiniteSetTheorems, SequenceTheorems, TLAPS

-----------------------------------------------------------------------------
(* Induction.  The theorems of the library on induction have a predicate   *)
(* as parameter; that strict inclusion is well founded has none, and makes *)
(* every non-empty set of numbers have a least one.                        *)

LEMMA Least ==
  ASSUME NEW N, N \subseteq Nat, N # {}
  PROVE  \E m \in N : \A n \in N : m <= n
<1>. DEFINE Below == {0 .. n : n \in N}
            R == StrictSubsetOrdering(Nat)
<1>1. IsWellFoundedOn(R, FiniteSubsetsOf(Nat))
  BY FS_StrictSubsetOrderingWellFounded, Zenon
<1>2. Below # {}
  OBVIOUS
<1>3. Below \subseteq FiniteSubsetsOf(Nat)
  <2>1. \A n \in N : IsFiniteSet(0 .. n) /\ 0 .. n \subseteq Nat
    BY FS_Interval
  <2>. QED BY <2>1 DEF FiniteSubsetsOf
<1>4. PICK B \in Below : \A C \in Below : <<C, B>> \notin R
  <2>. HIDE DEF Below, R
  <2>. QED BY <1>1, <1>2, <1>3, WFMin, Zenon
<1>5. PICK m \in N : B = 0 .. m
  OBVIOUS
<1>6. ASSUME NEW n \in N, ~(m <= n) PROVE FALSE
  <2>1. 0 .. n \in Below
    OBVIOUS
  <2>2. 0 .. n \subseteq B /\ 0 .. n # B
    BY <1>5, <1>6
  <2>3. <<0 .. n, B>> \in R
    BY <2>2, <1>5 DEF StrictSubsetOrdering
  <2>. QED BY <2>1, <2>3, <1>4
<1>. QED BY <1>6

\* A set of numbers that contains the successors of its elements and 1 contains 1 .. n.
LEMMA Climb ==
  ASSUME NEW n \in Nat, NEW G,
         n >= 1 => 1 \in G,
         \A i \in 1 .. (n - 1) : i \in G => i + 1 \in G
  PROVE  1 .. n \subseteq G
<1>1. SUFFICES ASSUME (1 .. n) \ G # {} PROVE FALSE
  OBVIOUS
<1>2. (1 .. n) \ G \subseteq Nat
  OBVIOUS
<1>3. PICK m \in (1 .. n) \ G : \A i \in (1 .. n) \ G : m <= i
  BY <1>1, <1>2, Least
<1>4. m # 1
  BY <1>3
<1>5. m - 1 \in 1 .. (n - 1) /\ m - 1 \notin (1 .. n) \ G
  BY <1>3, <1>4
<1>6. m - 1 \in G
  BY <1>5
<1>. QED BY <1>3, <1>5, <1>6

LEMMA ConcatAt ==
  ASSUME NEW T, NEW a \in Seq(T), NEW b \in Seq(T), NEW c, c = a \o b
  PROVE  /\ c \in Seq(T) /\ Len(c) = Len(a) + Len(b) /\ Len(a) \in Nat /\ Len(b) \in Nat
         /\ \A i \in 1 .. Len(c) : c[i] = IF i <= Len(a) THEN a[i] ELSE b[i - Len(a)]
BY ConcatProperties

\* q with e as its j-th element.
Put(q, j, e) == [q EXCEPT ![j] = e]

\* c is a followed by b, or a with e as its j-th element.
IsConcat(c, a, b) == /\ Len(c) = Len(a) + Len(b)
                     /\ \A i \in 1 .. Len(c) : c[i] = IF i <= Len(a) THEN a[i] ELSE b[i - Len(a)]
IsPut(c, a, j, e) == /\ Len(c) = Len(a)
                     /\ \A i \in 1 .. Len(a) : c[i] = IF i = j THEN e ELSE a[i]

\* j is an index of q, k is its j-th index from the end of q on.
Index(j, q) == j \in 1 .. Len(q)
Behind(k, q, j) == k = Len(q) + j

IsSeq(q) == Len(q) \in Nat /\ q = [i \in 1 .. Len(q) |-> q[i]]

LEMMA SeqIs == \A T : \A q \in Seq(T) : IsSeq(q)
BY DEF IsSeq

LEMMA SameSeq ==
  ASSUME NEW x, NEW y, IsSeq(x), IsSeq(y), Len(x) = Len(y), \A i \in 1 .. Len(x) : x[i] = y[i]
  PROVE  x = y
BY DEF IsSeq

LEMMA ConcatIs ==
  ASSUME NEW T, NEW a \in Seq(T), NEW b \in Seq(T)
  PROVE  a \o b \in Seq(T) /\ IsConcat(a \o b, a, b)
BY ConcatProperties DEF IsConcat

LEMMA PutIs ==
  ASSUME NEW T, NEW a \in Seq(T), NEW j \in 1 .. Len(a), NEW e \in T
  PROVE  Put(a, j, e) \in Seq(T) /\ IsPut(Put(a, j, e), a, j, e)
BY ExceptSeq DEF Put, IsPut

LEMMA Split ==
  ASSUME NEW p \in Nat, NEW q \in Nat, NEW i \in 1 .. (p + q), ~(i <= p)
  PROVE  i - p \in 1 .. q
OBVIOUS

-----------------------------------------------------------------------------
(* FlattenSeq.                                                             *)

\* f[i] is what the first i sequences of s give.
Runs(f, s, n, T) == /\ f \in [1 .. n -> Seq(T)]
                    /\ \A i \in 1 .. n : f[i] = IF i = 1 THEN s[i] ELSE f[i - 1] \o s[i]

LEMMA RunFacts ==
  ASSUME NEW f, NEW s, NEW n \in Nat, NEW T, Runs(f, s, n, T)
  PROVE  /\ \A i \in 1 .. n : f[i] \in Seq(T)
         /\ n >= 1 => f[1] = s[1]
         /\ \A i \in 1 .. (n - 1) : f[i + 1] = f[i] \o s[i + 1]
<1>1. \A i \in 1 .. n : f[i] \in Seq(T)
  BY DEF Runs
<1>2. \A i \in 1 .. n : f[i] = IF i = 1 THEN s[i] ELSE f[i - 1] \o s[i]
  BY DEF Runs
<1>3. ASSUME n >= 1 PROVE f[1] = s[1]
  <2>1. 1 \in 1 .. n
    BY <1>3
  <2>. QED BY <1>2, <2>1, Zenon
<1>4. ASSUME NEW i \in 1 .. (n - 1) PROVE f[i + 1] = f[i] \o s[i + 1]
  <2>1. i + 1 \in 1 .. n /\ i + 1 # 1 /\ (i + 1) - 1 = i
    OBVIOUS
  <2>2. f[i + 1] = IF i + 1 = 1 THEN s[i + 1] ELSE f[(i + 1) - 1] \o s[i + 1]
    BY <1>2, <2>1, Zenon
  <2>3. f[i + 1] = f[(i + 1) - 1] \o s[i + 1]
    BY <2>1, <2>2, Zenon
  <2>. QED BY <2>1, <2>3, Zenon
<1>. QED BY <1>1, <1>3, <1>4, Zenon

LEMMA RunExists ==
  ASSUME NEW T, NEW s \in Seq(Seq(T)), NEW n \in 1 .. Len(s)
  PROVE  \E f : Runs(f, s, n, T)
<1>. DEFINE G == {m \in 1 .. n : \E f : Runs(f, s, m, T)}
<1>0. Len(s) \in Nat /\ n \in Nat /\ \A i \in 1 .. n : s[i] \in Seq(T)
  OBVIOUS
<1>1. 1 \in G
  <2>1. Runs([i \in 1 .. 1 |-> s[1]], s, 1, T)
    BY <1>0 DEF Runs
  <2>. QED BY <2>1, <1>0
<1>2. ASSUME NEW m \in 1 .. (n - 1), m \in G PROVE m + 1 \in G
  <2>1. PICK f : Runs(f, s, m, T)
    BY <1>2
  <2>. DEFINE g == [i \in 1 .. (m + 1) |-> IF i <= m THEN f[i] ELSE f[m] \o s[m + 1]]
  <2>2. f[m] \in Seq(T) /\ s[m + 1] \in Seq(T)
    BY <1>0, <2>1 DEF Runs
  <2>3. f[m] \o s[m + 1] \in Seq(T)
    BY <2>2
  <2>4. g \in [1 .. (m + 1) -> Seq(T)]
    BY <2>1, <2>3 DEF Runs
  <2>5. ASSUME NEW i \in 1 .. (m + 1) PROVE g[i] = IF i = 1 THEN s[i] ELSE g[i - 1] \o s[i]
    <3>1. CASE i <= m
      <4>0. i \in 1 .. m
        BY <3>1, <1>0
      <4>1. g[i] = f[i] /\ (i # 1 => g[i - 1] = f[i - 1])
        BY <4>0
      <4>2. f[i] = IF i = 1 THEN s[i] ELSE f[i - 1] \o s[i]
        BY <4>0, <2>1 DEF Runs
      <4>. HIDE DEF g
      <4>. QED BY <4>1, <4>2
    <3>2. CASE i = m + 1
      BY <3>2
    <3>. QED BY <3>1, <3>2
  <2>. HIDE DEF g
  <2>6. Runs(g, s, m + 1, T)
    BY <2>4, <2>5 DEF Runs
  <2>. QED BY <2>6, <1>0
<1>3. 1 .. n \subseteq G
  <2>. HIDE DEF G
  <2>. QED BY <1>0, <1>1, <1>2, Climb
<1>. QED BY <1>0, <1>3

LEMMA RunUnique ==
  ASSUME NEW T, NEW s \in Seq(Seq(T)), NEW f, NEW g,
         \A i \in 1 .. Len(s) : f[i] = IF i = 1 THEN s[i] ELSE f[i - 1] \o s[i],
         \A i \in 1 .. Len(s) : g[i] = IF i = 1 THEN s[i] ELSE g[i - 1] \o s[i]
  PROVE  \A i \in 1 .. Len(s) : f[i] = g[i]
<1>. DEFINE G == {m \in 1 .. Len(s) : f[m] = g[m]}
<1>1. Len(s) \in Nat
  OBVIOUS
<1>2. Len(s) >= 1 => 1 \in G
  BY <1>1
<1>3. \A m \in 1 .. (Len(s) - 1) : m \in G => m + 1 \in G
  BY <1>1
<1>4. 1 .. Len(s) \subseteq G
  <2>. HIDE DEF G
  <2>. QED BY <1>1, <1>2, <1>3, Climb
<1>. QED BY <1>4

LEMMA FlatRuns ==
  ASSUME NEW T, NEW s \in Seq(Seq(T)), s # <<>>, NEW f, Runs(f, s, Len(s), T)
  PROVE  FlattenSeq(s) = f[Len(s)]
<1>. DEFINE D(g) == g = [i \in 1 .. Len(s) |-> IF i = 1 THEN s[i] ELSE g[i - 1] \o s[i]]
            h == CHOOSE g : D(g)
<1>0. Len(s) \in Nat \ {0}
  OBVIOUS
<1>1. D(f)
  BY DEF Runs
<1>2. D(h)
  <2>. HIDE DEF D
  <2>. QED BY <1>1, Zenon
<1>3. FlattenSeq(s) = h[Len(s)]
  BY <1>0 DEF FlattenSeq
<1>4. \A i \in 1 .. Len(s) : h[i] = IF i = 1 THEN s[i] ELSE h[i - 1] \o s[i]
  <2>. HIDE DEF h
  <2>. QED BY <1>2
<1>. HIDE DEF h
<1>5. \A i \in 1 .. Len(s) : f[i] = IF i = 1 THEN s[i] ELSE f[i - 1] \o s[i]
  BY DEF Runs
<1>6. \A i \in 1 .. Len(s) : f[i] = h[i]
  BY <1>4, <1>5, RunUnique
<1>. QED BY <1>0, <1>3, <1>6

LEMMA FlatRun ==
  ASSUME NEW T, NEW s \in Seq(Seq(T)), s # <<>>
  PROVE  \E f : Runs(f, s, Len(s), T) /\ FlattenSeq(s) = f[Len(s)]
<1>1. Len(s) \in 1 .. Len(s)
  OBVIOUS
<1>2. PICK f : Runs(f, s, Len(s), T)
  BY <1>1, RunExists, Zenon
<1>. QED BY <1>2, FlatRuns

LEMMA FlatEmpty == FlattenSeq(<<>>) = <<>>
BY DEF FlattenSeq

\* The result is a sequence of elements of the parts.
LEMMA FlatType ==
  ASSUME NEW T, NEW s \in Seq(Seq(T))
  PROVE  FlattenSeq(s) \in Seq(T)
<1>1. CASE s = <<>>
  BY <1>1, FlatEmpty, EmptySeq
<1>2. CASE s # <<>>
  <2>1. PICK f : Runs(f, s, Len(s), T) /\ FlattenSeq(s) = f[Len(s)]
    BY <1>2, FlatRun
  <2>. QED BY <1>2, <2>1 DEF Runs
<1>. QED BY <1>1, <1>2

\* One part.
LEMMA FlatOne ==
  ASSUME NEW T, NEW x \in Seq(T)
  PROVE  FlattenSeq(<<x>>) = x
<1>0. <<x>> \in Seq(Seq(T)) /\ <<x>> # <<>> /\ Len(<<x>>) = 1 /\ <<x>>[1] = x
  OBVIOUS
<1>1. PICK f : Runs(f, <<x>>, 1, T) /\ FlattenSeq(<<x>>) = f[1]
  BY <1>0, FlatRun, Zenon
<1>2. f[1] = x
  BY <1>0, <1>1 DEF Runs
<1>. QED BY <1>0, <1>1, <1>2

\* A part at the end.
LEMMA FlatSnoc ==
  ASSUME NEW T, NEW s \in Seq(Seq(T)), NEW x \in Seq(T)
  PROVE  FlattenSeq(Append(s, x)) = FlattenSeq(s) \o x
<1>1. CASE s = <<>>
  <2>1. Append(s, x) = <<x>>
    BY <1>1
  <2>. QED BY <1>1, <2>1, FlatOne, FlatEmpty
<1>2. CASE s # <<>>
  <2>1. PICK f : Runs(f, s, Len(s), T) /\ FlattenSeq(s) = f[Len(s)]
    BY <1>2, FlatRun
  <2>b. PICK n : n = Len(s)
    OBVIOUS
  <2>. DEFINE g == [i \in 1 .. (n + 1) |-> IF i <= n THEN f[i] ELSE f[n] \o x]
  <2>a. PICK r : r = Append(s, x)
    OBVIOUS
  <2>2. /\ n \in Nat \ {0} /\ r \in Seq(Seq(T)) /\ Len(r) = n + 1 /\ r[n + 1] = x
        /\ \A i \in 1 .. n : r[i] = s[i]
    BY <1>2, <2>a, <2>b
  <2>3. f \in [1 .. n -> Seq(T)] /\ \A i \in 1 .. n : f[i] = IF i = 1 THEN s[i] ELSE f[i - 1] \o s[i]
    BY <2>1, <2>b DEF Runs
  <2>4. f[n] \o x \in Seq(T)
    <3>1. f[n] \in Seq(T)
      BY <2>2, <2>3
    <3>. QED BY <3>1, ConcatProperties
  <2>5. g \in [1 .. (n + 1) -> Seq(T)]
    BY <2>2, <2>3, <2>4
  <2>6. ASSUME NEW i \in 1 .. (n + 1) PROVE g[i] = IF i = 1 THEN r[i] ELSE g[i - 1] \o r[i]
    <3>1. CASE i <= n
      <4>0. i \in 1 .. n
        BY <3>1, <2>2
      <4>1. g[i] = f[i] /\ (i # 1 => g[i - 1] = f[i - 1])
        BY <4>0, <2>2
      <4>2. f[i] = IF i = 1 THEN s[i] ELSE f[i - 1] \o s[i]
        BY <4>0, <2>3
      <4>3. s[i] = r[i]
        BY <4>0, <2>2
      <4>. HIDE DEF g
      <4>. QED BY <4>1, <4>2, <4>3
    <3>2. CASE i = n + 1
      <4>1. n \in 1 .. n + 1 /\ n + 1 \in 1 .. n + 1 /\ ~(n + 1 <= n) /\ n + 1 # 1 /\ (n + 1) - 1 = n
        BY <2>2
      <4>2. g[n + 1] = f[n] \o x /\ g[n] = f[n]
        BY <4>1
      <4>. HIDE DEF g
      <4>. QED BY <4>1, <4>2, <3>2, <2>2
    <3>. QED BY <3>1, <3>2, <2>2
  <2>. HIDE DEF g
  <2>7. Runs(g, r, Len(r), T)
    BY <2>2, <2>5, <2>6 DEF Runs
  <2>8. g[n + 1] = f[n] \o x
    BY <2>2 DEF g
  <2>9. r # <<>>
    BY <2>2
  <2>10. FlattenSeq(r) = g[n + 1]
    BY <2>2, <2>7, <2>9, FlatRuns
  <2>. QED BY <2>a, <2>b, <2>1, <2>8, <2>10
<1>. QED BY <1>1, <1>2

\* A part in front.
LEMMA FlatCons ==
  ASSUME NEW T, NEW s \in Seq(Seq(T)), s # <<>>
  PROVE  FlattenSeq(s) = s[1] \o FlattenSeq(Tail(s))
<1>0. PICK n, r : n = Len(s) /\ r = Tail(s)
  OBVIOUS
<1>1. /\ n \in Nat \ {0} /\ \A i \in 1 .. n : s[i] \in Seq(T)
      /\ r \in Seq(Seq(T)) /\ Len(r) = n - 1 /\ \A i \in 1 .. (n - 1) : r[i] = s[i + 1]
  BY <1>0
<1>2. PICK f : Runs(f, s, n, T) /\ FlattenSeq(s) = f[n]
  BY <1>0, FlatRun
<1>a. n \in Nat /\ n >= 1 /\ s[1] \in Seq(T)
  BY <1>1
<1>b. /\ \A i \in 1 .. n : f[i] \in Seq(T)
      /\ \A i \in 1 .. (n - 1) : f[i + 1] = f[i] \o s[i + 1]
  BY <1>a, <1>2, RunFacts, Zenon
<1>3. f[1] = s[1]
  BY <1>a, <1>2, RunFacts, Zenon
<1>4. CASE n = 1
  <2>1. r = <<>>
    BY <1>1, <1>4
  <2>2. s[1] \o <<>> = s[1]
    BY <1>a, ConcatEmptySeq
  <2>. QED BY <1>0, <1>2, <1>3, <1>4, <2>1, <2>2, FlatEmpty, Zenon
<1>5. CASE n # 1
  <2>1. r # <<>>
    BY <1>1, <1>5
  <2>2. PICK g : Runs(g, r, n - 1, T) /\ FlattenSeq(r) = g[n - 1]
    BY <1>1, <2>1, FlatRun
  <2>a. n - 1 \in Nat /\ n - 1 >= 1 /\ (n - 1) - 1 = n - 2
    BY <1>1, <1>5
  <2>k. PICK k : k = n - 1
    OBVIOUS
  <2>c. /\ g[1] = r[1] /\ \A i \in 1 .. k : g[i] \in Seq(T)
        /\ \A i \in 1 .. (k - 1) : g[i + 1] = g[i] \o r[i + 1]
    <3>1. k \in Nat /\ k >= 1 /\ Runs(g, r, k, T)
      BY <2>a, <2>k, <2>2, Zenon
    <3>. QED BY <3>1, RunFacts, Zenon
  <2>b. /\ g[1] = r[1] /\ \A i \in 1 .. (n - 1) : g[i] \in Seq(T)
        /\ \A i \in 1 .. (n - 2) : g[i + 1] = g[i] \o r[i + 1]
    <3>1. k - 1 = n - 2
      BY <2>a, <2>k
    <3>. QED BY <3>1, <2>k, <2>c, Zenon
  <2>. DEFINE G == {i \in 1 .. (n - 1) : f[i + 1] = s[1] \o g[i]}
  <2>3. 1 \in G
    <3>1. 1 \in 1 .. (n - 1) /\ 2 \in 1 .. n /\ 1 + 1 = 2 /\ 2 - 1 = 1
      BY <1>1, <1>5
    <3>2. f[1 + 1] = f[1] \o s[1 + 1] /\ g[1] = r[1] /\ r[1] = s[1 + 1]
      BY <3>1, <1>1, <1>b, <2>b, Zenon
    <3>. QED BY <3>1, <3>2, <1>3, Zenon
  <2>4. ASSUME NEW i \in 1 .. (n - 2), i \in G PROVE i + 1 \in G
    <3>1. i \in 1 .. (n - 1) /\ i + 1 \in 1 .. (n - 1) /\ (i + 1) + 1 \in 1 .. n
      BY <1>1
    <3>2. f[(i + 1) + 1] = f[i + 1] \o s[(i + 1) + 1]
      BY <3>1, <1>b, Zenon
    <3>3. f[i + 1] = s[1] \o g[i]
      BY <2>4
    <3>4. g[i + 1] = g[i] \o s[(i + 1) + 1]
      BY <3>1, <1>1, <2>b, Zenon
    <3>5. (s[1] \o g[i]) \o s[(i + 1) + 1] = s[1] \o (g[i] \o s[(i + 1) + 1])
      <4>1. s[1] \in Seq(T) /\ g[i] \in Seq(T) /\ s[(i + 1) + 1] \in Seq(T)
        BY <3>1, <1>a, <1>1, <2>b, Zenon
      <4>2. \A x, y, z \in Seq(T) : (x \o y) \o z = x \o (y \o z)
        BY ConcatAssociative
      <4>. QED BY <4>1, <4>2, Zenon
    <3>. QED BY <3>1, <3>2, <3>3, <3>4, <3>5, Zenon
  <2>5. 1 .. (n - 1) \subseteq G
    <3>. HIDE DEF G
    <3>1. n - 1 \in Nat /\ (n - 1) - 1 = n - 2
      BY <1>1
    <3>. QED BY <3>1, <2>3, <2>4, Climb
  <2>6. n - 1 \in 1 .. (n - 1) /\ (n - 1) + 1 = n
    BY <1>1, <1>5
  <2>7. f[(n - 1) + 1] = s[1] \o g[n - 1]
    BY <2>5, <2>6
  <2>. QED BY <1>0, <1>2, <2>2, <2>6, <2>7, Zenon
<1>. QED BY <1>4, <1>5

\* f[i] is what the first i parts of s give, from no part on.
Sums(f, s, T) == /\ f \in [0 .. Len(s) -> Seq(T)]
                 /\ f[0] = <<>>
                 /\ \A i \in 0 .. (Len(s) - 1) : f[i + 1] = f[i] \o s[i + 1]
                 /\ FlattenSeq(s) = f[Len(s)]

LEMMA FlatSums ==
  ASSUME NEW T, NEW s \in Seq(Seq(T))
  PROVE  \E f : Sums(f, s, T)
<1>0. PICK n : n = Len(s)
  OBVIOUS
<1>a. n \in Nat /\ \A i \in 1 .. n : s[i] \in Seq(T)
  BY <1>0
<1>. DEFINE g == [i \in 0 .. n |-> FlattenSeq(SubSeq(s, 1, i))]
<1>1. ASSUME NEW i \in 0 .. n PROVE SubSeq(s, 1, i) \in Seq(Seq(T))
  <2>1. \A j \in 1 .. i : s[j] \in Seq(T)
    BY <1>a
  <2>. QED BY <1>a, <2>1, SubSeqProperties
<1>2. g \in [0 .. n -> Seq(T)]
  BY <1>1, FlatType
<1>3. g[0] = <<>>
  <2>1. SubSeq(s, 1, 0) = <<>>
    BY SubSeqEmpty
  <2>2. 0 \in 0 .. n
    BY <1>a
  <2>. QED BY <2>1, <2>2, FlatEmpty
<1>4. ASSUME NEW i \in 0 .. (n - 1) PROVE g[i + 1] = g[i] \o s[i + 1]
  <2>0. i \in 0 .. n /\ i + 1 \in 0 .. n /\ i + 1 \in 1 .. n /\ i + 1 >= 1
    BY <1>a
  <2>. DEFINE a == SubSeq(s, 1, i)
              b == SubSeq(s, 1, i + 1)
  <2>1. a \in Seq(Seq(T)) /\ Len(a) = i /\ \A j \in 1 .. i : a[j] = s[j]
    <3>1. \A j \in 1 .. i : s[j] \in Seq(T)
      BY <1>a
    <3>. QED BY <1>a, <3>1, SubSeqProperties
  <2>2. b \in Seq(Seq(T)) /\ Len(b) = i + 1 /\ \A j \in 1 .. (i + 1) : b[j] = s[j]
    <3>1. \A j \in 1 .. (i + 1) : s[j] \in Seq(T)
      BY <1>a, <2>0
    <3>. QED BY <1>a, <2>0, <3>1, SubSeqProperties
  <2>. HIDE DEF a, b
  <2>3. s[i + 1] \in Seq(T)
    BY <1>a, <2>0
  <2>4. b = Append(a, s[i + 1])
    <3>1. PICK c : c = Append(a, s[i + 1])
      OBVIOUS
    <3>2. /\ c \in Seq(Seq(T)) /\ Len(c) = i + 1 /\ \A j \in 1 .. i : c[j] = a[j]
          /\ c[i + 1] = s[i + 1]
      BY <2>1, <2>3, <3>1, AppendProperties
    <3>3. ASSUME NEW j \in 1 .. (i + 1) PROVE b[j] = c[j]
      <4>1. CASE j = i + 1
        BY <4>1, <2>0, <2>2, <3>2
      <4>2. CASE j # i + 1
        <5>1. j \in 1 .. i
          BY <4>2, <2>0, <1>a
        <5>2. b[j] = s[j] /\ a[j] = s[j] /\ c[j] = a[j]
          BY <5>1, <2>1, <2>2, <3>2, Zenon
        <5>. QED BY <5>2
      <4>. QED BY <4>1, <4>2
    <3>4. Len(b) = Len(c)
      BY <2>2, <3>2
    <3>5. b = c
      BY <2>2, <3>2, <3>3, <3>4, SeqEqual
    <3>. QED BY <3>1, <3>5
  <2>5. FlattenSeq(b) = FlattenSeq(a) \o s[i + 1]
    BY <2>1, <2>3, <2>4, FlatSnoc
  <2>. QED BY <2>0, <2>5, Zenon DEF a, b
<1>5. g[n] = FlattenSeq(s)
  <2>1. SubSeq(s, 1, n) = s
    BY <1>0, SubSeqFull
  <2>2. n \in 0 .. n
    BY <1>a
  <2>3. g[n] = FlattenSeq(SubSeq(s, 1, n))
    BY <2>2
  <2>. QED BY <2>1, <2>3, Zenon
<1>. HIDE DEF g
<1>6. Sums(g, s, T)
  BY <1>0, <1>2, <1>3, <1>4, <1>5 DEF Sums
<1>. QED BY <1>6

\* Climb, from 0 on.
LEMMA Climb0 ==
  ASSUME NEW n \in Nat, NEW G,
         0 \in G,
         \A i \in 0 .. (n - 1) : i \in G => i + 1 \in G
  PROVE  0 .. n \subseteq G
<1>1. n >= 1 => 1 \in G
  <2>1. n >= 1 => 0 \in 0 .. (n - 1) /\ 0 + 1 = 1
    OBVIOUS
  <2>. QED BY <2>1
<1>2. \A i \in 1 .. (n - 1) : i \in G => i + 1 \in G
  OBVIOUS
<1>3. 1 .. n \subseteq G
  BY <1>1, <1>2, Climb
<1>. QED BY <1>3

\* An element of the result is an element of a part.
LEMMA FlatElem ==
  ASSUME NEW T, NEW s \in Seq(Seq(T)), NEW j \in 1 .. Len(FlattenSeq(s))
  PROVE  \E k \in 1 .. Len(s) : \E i \in 1 .. Len(s[k]) : FlattenSeq(s)[j] = s[k][i]
<1>0. PICK n : n = Len(s)
  OBVIOUS
<1>a. n \in Nat /\ \A i \in 1 .. n : s[i] \in Seq(T)
  BY <1>0
<1>1. PICK f : Sums(f, s, T)
  BY FlatSums
<1>2. /\ \A i \in 0 .. n : f[i] \in Seq(T)
      /\ f[0] = <<>>
      /\ \A i \in 0 .. (n - 1) : f[i + 1] = f[i] \o s[i + 1]
      /\ FlattenSeq(s) = f[n]
  BY <1>0, <1>1 DEF Sums
<1>. DEFINE Known(e) == \E k \in 1 .. n : \E i \in 1 .. Len(s[k]) : e = s[k][i]
            G == {m \in 0 .. n : \A h \in 1 .. Len(f[m]) : Known(f[m][h])}
<1>3. 0 \in G
  BY <1>a, <1>2
<1>4. ASSUME NEW m \in 0 .. (n - 1), m \in G PROVE m + 1 \in G
  <2>0. m \in 0 .. n /\ m + 1 \in 0 .. n /\ m + 1 \in 1 .. n
    BY <1>a
  <2>1. f[m] \in Seq(T) /\ s[m + 1] \in Seq(T)
    BY <2>0, <1>a, <1>2
  <2>2. f[m + 1] = f[m] \o s[m + 1]
    BY <1>2
  <2>3. SUFFICES ASSUME NEW h \in 1 .. Len(f[m + 1]) PROVE Known(f[m + 1][h])
    BY <2>0
  <2>4. PICK a, b, c : a = f[m] /\ b = s[m + 1] /\ c = f[m + 1]
    OBVIOUS
  <2>5. /\ h \in 1 .. (Len(a) + Len(b)) /\ Len(a) \in Nat /\ Len(b) \in Nat
        /\ c[h] = IF h <= Len(a) THEN a[h] ELSE b[h - Len(a)]
    <3>1. a \in Seq(T) /\ b \in Seq(T) /\ c = a \o b
      BY <2>1, <2>2, <2>4, Zenon
    <3>2. h \in 1 .. Len(c)
      BY <2>4
    <3>. QED BY <3>1, <3>2, ConcatAt
  <2>6. CASE h <= Len(a)
    <3>1. h \in 1 .. Len(f[m])
      BY <2>4, <2>5, <2>6
    <3>2. Known(f[m][h])
      <4>. HIDE DEF Known
      <4>. QED BY <1>4, <3>1
    <3>3. f[m + 1][h] = f[m][h]
      BY <2>4, <2>5, <2>6
    <3>. QED BY <3>2, <3>3
  <2>7. CASE ~(h <= Len(a))
    <3>a. h - Len(a) \in 1 .. Len(b)
      BY <2>5, <2>7, Split
    <3>b. c[h] = b[h - Len(a)]
      BY <2>5, <2>7, Zenon
    <3>1. h - Len(a) \in 1 .. Len(b) /\ c[h] = b[h - Len(a)]
      BY <3>a, <3>b
    <3>2. h - Len(a) \in 1 .. Len(s[m + 1]) /\ f[m + 1][h] = s[m + 1][h - Len(a)]
      BY <2>4, <3>1, Zenon
    <3>. QED BY <2>0, <3>2
  <2>. QED BY <2>6, <2>7
<1>5. 0 .. n \subseteq G
  <2>. HIDE DEF G
  <2>. QED BY <1>a, <1>3, <1>4, Climb0
<1>6. n \in G
  BY <1>a, <1>5
<1>. QED BY <1>0, <1>2, <1>6

\* Concatenation with a sequence one element of which is replaced.
LEMMA PutLeft ==
  ASSUME NEW a, NEW b, NEW c, NEW d, NEW x, NEW y, NEW j, NEW e, Index(j, a),
         IsSeq(a), IsSeq(b), IsSeq(x), IsSeq(y),
         IsConcat(c, a, b), IsPut(d, a, j, e), IsConcat(x, d, b), IsPut(y, c, j, e)
  PROVE  x = y
<1>j. j \in 1 .. Len(a)
  BY DEF Index
<1>0. Len(a) \in Nat /\ Len(b) \in Nat
  BY DEF IsSeq
<1>1. /\ Len(c) = Len(a) + Len(b) /\ Len(a) \in Nat /\ Len(b) \in Nat
      /\ \A i \in 1 .. Len(c) : c[i] = IF i <= Len(a) THEN a[i] ELSE b[i - Len(a)]
  BY <1>0, Zenon DEF IsConcat
<1>2. Len(d) = Len(a) /\ \A i \in 1 .. Len(a) : d[i] = IF i = j THEN e ELSE a[i]
  BY DEF IsPut
<1>3. /\ Len(x) = Len(d) + Len(b)
      /\ \A i \in 1 .. Len(x) : x[i] = IF i <= Len(d) THEN d[i] ELSE b[i - Len(d)]
  BY DEF IsConcat
<1>4. Len(y) = Len(c) /\ \A i \in 1 .. Len(c) : y[i] = IF i = j THEN e ELSE c[i]
  BY DEF IsPut
<1>5. j \in 1 .. Len(c)
  BY <1>1, <1>j
<1>6. ASSUME NEW i \in 1 .. Len(x) PROVE x[i] = y[i]
  <2>1. i \in 1 .. Len(c) /\ j <= Len(a)
    BY <1>1, <1>2, <1>3, <1>j
  <2>2. CASE i <= Len(a)
    <3>1. i \in 1 .. Len(a)
      BY <2>1, <2>2, <1>1
    <3>2. x[i] = d[i] /\ c[i] = a[i]
      BY <2>1, <2>2, <1>1, <1>2, <1>3, Zenon
    <3>. QED BY <2>1, <3>1, <3>2, <1>2, <1>4
  <2>3. CASE ~(i <= Len(a))
    <3>1. x[i] = b[i - Len(a)] /\ c[i] = b[i - Len(a)]
      BY <2>1, <2>3, <1>1, <1>2, <1>3, Zenon
    <3>2. i # j
      BY <2>1, <2>3
    <3>. QED BY <2>1, <3>1, <3>2, <1>4
  <2>. QED BY <2>2, <2>3
<1>7. Len(x) = Len(y)
  BY <1>1, <1>2, <1>3, <1>4
<1>. QED BY <1>6, <1>7, SameSeq

LEMMA PutRight ==
  ASSUME NEW a, NEW b, NEW c, NEW d, NEW x, NEW y, NEW j, NEW e, NEW k,
         Index(j, b), Behind(k, a, j),
         IsSeq(a), IsSeq(b), IsSeq(x), IsSeq(y),
         IsConcat(c, a, b), IsPut(d, b, j, e), IsConcat(x, a, d), IsPut(y, c, k, e)
  PROVE  x = y
<1>j. j \in 1 .. Len(b) /\ k = Len(a) + j
  BY DEF Index, Behind
<1>0. Len(a) \in Nat /\ Len(b) \in Nat
  BY DEF IsSeq
<1>1. /\ Len(c) = Len(a) + Len(b) /\ Len(a) \in Nat /\ Len(b) \in Nat
      /\ \A i \in 1 .. Len(c) : c[i] = IF i <= Len(a) THEN a[i] ELSE b[i - Len(a)]
  BY <1>0, Zenon DEF IsConcat
<1>2. Len(d) = Len(b) /\ \A i \in 1 .. Len(b) : d[i] = IF i = j THEN e ELSE b[i]
  BY DEF IsPut
<1>3. /\ Len(x) = Len(a) + Len(d)
      /\ \A i \in 1 .. Len(x) : x[i] = IF i <= Len(a) THEN a[i] ELSE d[i - Len(a)]
  BY DEF IsConcat
<1>4. Len(y) = Len(c) /\ \A i \in 1 .. Len(c) : y[i] = IF i = k THEN e ELSE c[i]
  BY DEF IsPut
<1>5. k \in 1 .. Len(c) /\ ~(k <= Len(a)) /\ k - Len(a) = j
  BY <1>1, <1>j
<1>6. ASSUME NEW i \in 1 .. Len(x) PROVE x[i] = y[i]
  <2>1. i \in 1 .. Len(c) /\ i \in 1 .. (Len(a) + Len(b))
    BY <1>1, <1>2, <1>3
  <2>2. CASE i <= Len(a)
    <3>1. i # k
      BY <1>5, <2>2
    <3>2. x[i] = a[i] /\ c[i] = a[i]
      BY <2>2, <2>1, <1>1, <1>3, Zenon
    <3>. QED BY <2>1, <3>1, <3>2, <1>4
  <2>3. CASE ~(i <= Len(a))
    <3>1. i - Len(a) \in 1 .. Len(b)
      BY <2>1, <2>3, <1>1, Split
    <3>2. x[i] = d[i - Len(a)] /\ c[i] = b[i - Len(a)]
      BY <2>1, <2>3, <1>1, <1>3, Zenon
    <3>3. i = k <=> i - Len(a) = j
      <4>1. i \in Int /\ k \in Int /\ Len(a) \in Int /\ k - Len(a) = j
        BY <1>1, <1>5, <2>1
      <4>. QED BY <4>1
    <3>. QED BY <2>1, <3>1, <3>2, <3>3, <1>2, <1>4
  <2>. QED BY <2>2, <2>3
<1>7. Len(x) = Len(y)
  BY <1>1, <1>2, <1>3, <1>4
<1>. QED BY <1>6, <1>7, SameSeq

\* d is a, with e instead of an element that is old.
Changed(a, d, old, e) == \E j \in 1 .. Len(a) : a[j] = old /\ d = Put(a, j, e)

LEMMA ChangedLeft ==
  ASSUME NEW T, NEW a \in Seq(T), NEW b \in Seq(T), NEW d, NEW old, NEW e \in T, Changed(a, d, old, e)
  PROVE  d \in Seq(T) /\ Changed(a \o b, d \o b, old, e)
<1>0. PICK j \in 1 .. Len(a) : a[j] = old /\ d = Put(a, j, e)
  BY DEF Changed
<1>1. PICK c \in Seq(T) : c = a \o b /\ IsConcat(c, a, b)
  BY ConcatIs
<1>2. d \in Seq(T) /\ IsPut(d, a, j, e)
  BY <1>0, PutIs
<1>3. PICK x \in Seq(T) : x = d \o b /\ IsConcat(x, d, b)
  BY <1>2, ConcatIs
<1>4. j \in 1 .. Len(c) /\ j <= Len(a)
  BY <1>1 DEF IsConcat
<1>5. PICK y \in Seq(T) : y = Put(c, j, e) /\ IsPut(y, c, j, e)
  BY <1>4, PutIs
<1>6. x = y
  <2>1. IsSeq(a) /\ IsSeq(b) /\ IsSeq(x) /\ IsSeq(y) /\ Index(j, a)
    BY SeqIs DEF Index
  <2>. QED BY <2>1, <1>1, <1>2, <1>3, <1>5, PutLeft
<1>7. c[j] = old
  BY <1>0, <1>1, <1>4, Zenon DEF IsConcat
<1>8. Changed(c, x, old, e)
  BY <1>4, <1>5, <1>6, <1>7, Zenon DEF Changed
<1>. QED BY <1>1, <1>2, <1>3, <1>8, Zenon

LEMMA ChangedRight ==
  ASSUME NEW T, NEW a \in Seq(T), NEW b \in Seq(T), NEW d, NEW old, NEW e \in T, Changed(b, d, old, e)
  PROVE  d \in Seq(T) /\ Changed(a \o b, a \o d, old, e)
<1>0. PICK j \in 1 .. Len(b) : b[j] = old /\ d = Put(b, j, e)
  BY DEF Changed
<1>1. PICK c \in Seq(T) : c = a \o b /\ IsConcat(c, a, b)
  BY ConcatIs
<1>2. d \in Seq(T) /\ IsPut(d, b, j, e)
  BY <1>0, PutIs
<1>3. PICK x \in Seq(T) : x = a \o d /\ IsConcat(x, a, d)
  BY <1>2, ConcatIs
<1>k. PICK k : k = Len(a) + j
  OBVIOUS
<1>4. k \in 1 .. Len(c) /\ ~(k <= Len(a)) /\ k - Len(a) = j
  BY <1>1, <1>k DEF IsConcat
<1>5. PICK y \in Seq(T) : y = Put(c, k, e) /\ IsPut(y, c, k, e)
  BY <1>4, PutIs
<1>6. x = y
  <2>1. IsSeq(a) /\ IsSeq(b) /\ IsSeq(x) /\ IsSeq(y) /\ Index(j, b) /\ Behind(k, a, j)
    BY <1>k, SeqIs DEF Index, Behind
  <2>. QED BY <2>1, <1>1, <1>2, <1>3, <1>5, PutRight
<1>7. c[k] = old
  BY <1>0, <1>1, <1>4, Zenon DEF IsConcat
<1>8. Changed(c, x, old, e)
  BY <1>4, <1>5, <1>6, <1>7, Zenon DEF Changed
<1>. QED BY <1>1, <1>2, <1>3, <1>8, Zenon

\* One element of one part is replaced.
LEMMA FlatUpdate ==
  ASSUME NEW T, NEW s \in Seq(Seq(T)), NEW t \in Seq(Seq(T)), Len(t) = Len(s),
         NEW k \in 1 .. Len(s), NEW old, NEW e \in T,
         Changed(s[k], t[k], old, e),
         \A m \in 1 .. Len(s) : m # k => t[m] = s[m]
  PROVE  Changed(FlattenSeq(s), FlattenSeq(t), old, e)
<1>0. PICK n : n = Len(s)
  OBVIOUS
<1>a. n \in Nat /\ k \in 1 .. n /\ \A m \in 1 .. n : s[m] \in Seq(T) /\ t[m] \in Seq(T)
  BY <1>0
<1>b. 0 < k /\ ~(0 >= k) /\ 0 \in 0 .. n
  <2>1. n \in Nat /\ k \in 1 .. n
    BY <1>a
  <2>. QED BY <2>1
<1>1. PICK f : Sums(f, s, T)
  BY FlatSums
<1>2. /\ \A m \in 0 .. n : f[m] \in Seq(T)
      /\ f[0] = <<>>
      /\ \A m \in 0 .. (n - 1) : f[m + 1] = f[m] \o s[m + 1]
      /\ FlattenSeq(s) = f[n]
  BY <1>0, <1>1 DEF Sums
<1>3. PICK g : Sums(g, t, T)
  BY FlatSums
<1>4. /\ \A m \in 0 .. n : g[m] \in Seq(T)
      /\ g[0] = <<>>
      /\ \A m \in 0 .. (n - 1) : g[m + 1] = g[m] \o t[m + 1]
      /\ FlattenSeq(t) = g[n]
  BY <1>0, <1>3 DEF Sums
<1>. DEFINE G == {m \in 0 .. n : (m < k => f[m] = g[m]) /\ (m >= k => Changed(f[m], g[m], old, e))}
<1>5. 0 \in G
  BY <1>b, <1>2, <1>4
<1>6. ASSUME NEW m \in 0 .. (n - 1), m \in G PROVE m + 1 \in G
  <2>0. m \in 0 .. n /\ m + 1 \in 0 .. n /\ m + 1 \in 1 .. n
    BY <1>a
  <2>a. m \in Int /\ k \in Int
    BY <1>a
  <2>1. f[m] \in Seq(T) /\ s[m + 1] \in Seq(T)
    BY <2>0, <1>a, <1>2
  <2>2. f[m + 1] = f[m] \o s[m + 1] /\ g[m + 1] = g[m] \o t[m + 1]
    BY <1>2, <1>4
  <2>3. CASE m + 1 < k
    <3>1. m < k /\ m + 1 # k /\ ~(m + 1 >= k)
      BY <2>3, <2>a
    <3>2. f[m] = g[m]
      BY <1>6, <3>1
    <3>3. t[m + 1] = s[m + 1]
      BY <2>0, <3>1, <1>0
    <3>4. f[m + 1] = g[m + 1]
      BY <2>2, <3>2, <3>3, Zenon
    <3>. QED BY <2>0, <3>1, <3>4
  <2>4. CASE m + 1 = k
    <3>1. m < k /\ ~(m + 1 < k)
      BY <2>4, <2>a
    <3>2. f[m] = g[m]
      BY <1>6, <3>1
    <3>3. Changed(s[m + 1], t[m + 1], old, e)
      BY <2>4
    <3>4. Changed(f[m] \o s[m + 1], f[m] \o t[m + 1], old, e)
      BY <2>1, <3>3, ChangedRight
    <3>5. Changed(f[m + 1], g[m + 1], old, e)
      BY <2>2, <3>2, <3>4, Zenon
    <3>. QED BY <2>0, <3>1, <3>5
  <2>5. CASE m + 1 > k
    <3>1. m >= k /\ m + 1 # k /\ ~(m + 1 < k)
      BY <2>5, <2>a
    <3>2. Changed(f[m], g[m], old, e)
      BY <1>6, <3>1
    <3>3. t[m + 1] = s[m + 1]
      BY <2>0, <3>1, <1>0
    <3>4. Changed(f[m] \o s[m + 1], g[m] \o s[m + 1], old, e)
      BY <2>1, <3>2, ChangedLeft
    <3>5. Changed(f[m + 1], g[m + 1], old, e)
      BY <2>2, <3>3, <3>4, Zenon
    <3>. QED BY <2>0, <3>1, <3>5
  <2>6. m + 1 < k \/ m + 1 = k \/ m + 1 > k
    BY <2>0, <1>a
  <2>. HIDE DEF G
  <2>. QED BY <2>3, <2>4, <2>5, <2>6, Zenon
<1>7. 0 .. n \subseteq G
  <2>. HIDE DEF G
  <2>. QED BY <1>a, <1>5, <1>6, Climb0
<1>8. n \in G
  <2>. HIDE DEF G
  <2>. QED BY <1>a, <1>7
<1>9. n >= k
  BY <1>a
<1>. QED BY <1>2, <1>4, <1>8, <1>9

\* The elements of q, as w maps them.
\* w maps T to U.
Maps(w, T, U) == w \in [T -> U]

Image(w, q) == [n \in DOMAIN q |-> w[q[n]]]

LEMMA ImageType ==
  ASSUME NEW T, NEW U, NEW w, Maps(w, T, U), NEW q \in Seq(T)
  PROVE  Image(w, q) \in Seq(U) /\ Len(Image(w, q)) = Len(q)
         /\ \A i \in 1 .. Len(q) : Image(w, q)[i] = w[q[i]]
<1>1. PICK n : n = Len(q)
  OBVIOUS
<1>2. n \in Nat /\ DOMAIN q = 1 .. n /\ \A i \in 1 .. n : q[i] \in T
  BY <1>1
<1>3. Image(w, q) = [i \in 1 .. n |-> w[q[i]]]
  BY <1>2, Zenon DEF Image
<1>4. \A i \in 1 .. n : w[q[i]] \in U
  BY <1>2 DEF Maps
<1>. QED BY <1>1, <1>2, <1>3, <1>4

IsImage(v, w, q) == Len(v) = Len(q) /\ \A i \in 1 .. Len(q) : v[i] = w[q[i]]

LEMMA ImageIs ==
  ASSUME NEW T, NEW U, NEW w, Maps(w, T, U), NEW q \in Seq(T)
  PROVE  Image(w, q) \in Seq(U) /\ IsImage(Image(w, q), w, q)
<1>1. PICK v : v = Image(w, q)
  OBVIOUS
<1>2. v \in Seq(U) /\ Len(v) = Len(q) /\ \A i \in 1 .. Len(q) : v[i] = w[q[i]]
  BY <1>1, ImageType
<1>3. IsImage(v, w, q)
  BY <1>2, Zenon DEF IsImage
<1>. QED BY <1>1, <1>2, <1>3, Zenon

LEMMA ImageSplit ==
  ASSUME NEW w, NEW a, NEW b, NEW c, NEW d, NEW x, NEW y, NEW z,
         IsSeq(a), IsSeq(b), IsSeq(z), IsSeq(d),
         IsConcat(c, a, b), IsImage(x, w, a), IsImage(y, w, b), IsImage(z, w, c), IsConcat(d, x, y)
  PROVE  z = d
<1>0. Len(a) \in Nat /\ Len(b) \in Nat
  BY DEF IsSeq
<1>2. /\ Len(c) = Len(a) + Len(b) /\ Len(a) \in Nat /\ Len(b) \in Nat
      /\ \A i \in 1 .. Len(c) : c[i] = IF i <= Len(a) THEN a[i] ELSE b[i - Len(a)]
  BY <1>0, Zenon DEF IsConcat
<1>3. /\ Len(x) = Len(a) /\ \A i \in 1 .. Len(a) : x[i] = w[a[i]]
      /\ Len(y) = Len(b) /\ \A i \in 1 .. Len(b) : y[i] = w[b[i]]
      /\ Len(z) = Len(c) /\ \A i \in 1 .. Len(c) : z[i] = w[c[i]]
  BY DEF IsImage
<1>4. /\ Len(d) = Len(x) + Len(y)
      /\ \A i \in 1 .. Len(d) : d[i] = IF i <= Len(x) THEN x[i] ELSE y[i - Len(x)]
  BY DEF IsConcat
<1>5. Len(z) = Len(d)
  BY <1>2, <1>3, <1>4
<1>6. ASSUME NEW i \in 1 .. Len(z) PROVE z[i] = d[i]
  <2>1. i \in 1 .. Len(c) /\ i \in 1 .. Len(d) /\ i \in 1 .. (Len(a) + Len(b))
    BY <1>2, <1>3, <1>5
  <2>2. CASE i <= Len(a)
    <3>1. i \in 1 .. Len(a)
      BY <2>1, <2>2, <1>2
    <3>2. c[i] = a[i] /\ d[i] = x[i]
      BY <2>1, <2>2, <1>2, <1>3, <1>4, Zenon
    <3>. QED BY <2>1, <3>1, <3>2, <1>3, Zenon
  <2>3. CASE ~(i <= Len(a))
    <3>1. i - Len(a) \in 1 .. Len(b)
      BY <2>1, <2>3, <1>2, Split
    <3>2. c[i] = b[i - Len(a)] /\ d[i] = y[i - Len(a)]
      BY <2>1, <2>3, <1>2, <1>3, <1>4, Zenon
    <3>. QED BY <2>1, <3>1, <3>2, <1>3, Zenon
  <2>. QED BY <2>2, <2>3
<1>. QED BY <1>5, <1>6, SameSeq

LEMMA ImageConcat ==
  ASSUME NEW T, NEW U, NEW w, Maps(w, T, U), NEW a \in Seq(T), NEW b \in Seq(T)
  PROVE  Image(w, a \o b) = Image(w, a) \o Image(w, b)
<1>1. PICK c \in Seq(T) : c = a \o b /\ IsConcat(c, a, b)
  BY ConcatIs
<1>2. PICK x \in Seq(U) : x = Image(w, a) /\ IsImage(x, w, a)
  BY ImageIs
<1>3. PICK y \in Seq(U) : y = Image(w, b) /\ IsImage(y, w, b)
  BY ImageIs
<1>4. PICK z \in Seq(U) : z = Image(w, c) /\ IsImage(z, w, c)
  BY ImageIs
<1>5. PICK d \in Seq(U) : d = x \o y /\ IsConcat(d, x, y)
  BY ConcatIs
<1>6. z = d
  <2>1. IsSeq(a) /\ IsSeq(b) /\ IsSeq(z) /\ IsSeq(d)
    BY SeqIs
  <2>. QED BY <2>1, <1>1, <1>2, <1>3, <1>4, <1>5, ImageSplit
<1>. QED BY <1>1, <1>2, <1>3, <1>4, <1>5, <1>6, Zenon

\* Every element of every part is mapped.
LEMMA FlatImage ==
  ASSUME NEW T, NEW U, NEW w, Maps(w, T, U), NEW s \in Seq(Seq(T)), NEW t \in Seq(Seq(U)),
         Len(t) = Len(s), \A m \in 1 .. Len(s) : t[m] = Image(w, s[m])
  PROVE  FlattenSeq(t) = Image(w, FlattenSeq(s))
<1>0. PICK n : n = Len(s)
  OBVIOUS
<1>a. n \in Nat /\ \A m \in 1 .. n : s[m] \in Seq(T)
  BY <1>0
<1>1. PICK f : Sums(f, s, T)
  BY FlatSums
<1>2. /\ \A m \in 0 .. n : f[m] \in Seq(T)
      /\ f[0] = <<>>
      /\ \A m \in 0 .. (n - 1) : f[m + 1] = f[m] \o s[m + 1]
      /\ FlattenSeq(s) = f[n]
  BY <1>0, <1>1 DEF Sums
<1>3. PICK g : Sums(g, t, U)
  BY FlatSums
<1>4. /\ g[0] = <<>>
      /\ \A m \in 0 .. (n - 1) : g[m + 1] = g[m] \o t[m + 1]
      /\ FlattenSeq(t) = g[n]
  BY <1>0, <1>3 DEF Sums
<1>. DEFINE G == {m \in 0 .. n : g[m] = Image(w, f[m])}
<1>5. 0 \in G
  <2>1. Image(w, <<>>) = <<>>
    BY DEF Image
  <2>. QED BY <2>1, <1>a, <1>2, <1>4
<1>6. ASSUME NEW m \in 0 .. (n - 1), m \in G PROVE m + 1 \in G
  <2>0. m \in 0 .. n /\ m + 1 \in 0 .. n /\ m + 1 \in 1 .. n
    BY <1>a
  <2>1. f[m] \in Seq(T) /\ s[m + 1] \in Seq(T)
    BY <2>0, <1>a, <1>2
  <2>2. g[m + 1] = Image(w, f[m]) \o Image(w, s[m + 1])
    BY <1>6, <1>4, <2>0, <1>0
  <2>3. Image(w, f[m] \o s[m + 1]) = Image(w, f[m]) \o Image(w, s[m + 1])
    <3>1. PICK a \in Seq(T), b \in Seq(T) : a = f[m] /\ b = s[m + 1]
      BY <2>1
    <3>2. Image(w, a \o b) = Image(w, a) \o Image(w, b)
      BY ImageConcat
    <3>. QED BY <3>1, <3>2, Zenon
  <2>4. f[m + 1] = f[m] \o s[m + 1]
    BY <1>2
  <2>5. g[m + 1] = Image(w, f[m + 1])
    BY <2>2, <2>3, <2>4, Zenon
  <2>. QED BY <2>0, <2>5
<1>7. 0 .. n \subseteq G
  <2>. HIDE DEF G
  <2>. QED BY <1>a, <1>5, <1>6, Climb0
<1>8. n \in G
  BY <1>a, <1>7
<1>. QED BY <1>2, <1>4, <1>8

-----------------------------------------------------------------------------
(* The chain of buckets.                                                   *)

\* c goes from h to t through all buckets in L, each once.
Links(c, h, t, L, nx) ==
  /\ c \in Seq(L) /\ c # <<>> /\ c[1] = h /\ c[Len(c)] = t /\ nx[t] = None
  /\ \A n \in 1 .. (Len(c) - 1) : nx[c[n]] = c[n + 1]
  /\ \A m, n \in 1 .. Len(c) : c[m] = c[n] => m = n
  /\ \A b \in L : \E n \in 1 .. Len(c) : c[n] = b

LEMMA LinksPath ==
  ASSUME NEW c, NEW h, NEW t, NEW L, NEW nx, None \notin L, Links(c, h, t, L, nx)
  PROVE  Path(h, L, nx) = c
<1>0. PICK n : n = Len(c)
  OBVIOUS
<1>1. /\ n \in Nat \ {0} /\ c \in Seq(L) /\ c[1] = h /\ nx[c[n]] = None
      /\ \A m \in 1 .. n : c[m] \in L
  BY <1>0 DEF Links
<1>2. /\ \A m \in 1 .. (n - 1) : nx[c[m]] = c[m + 1]
      /\ \A l, m \in 1 .. n : c[l] = c[m] => l = m
      /\ \A b \in L : \E m \in 1 .. n : c[m] = b
  BY <1>0 DEF Links
<1>. DEFINE From(m) == SubSeq(c, m, n)
            at(b) == CHOOSE m \in 1 .. n : c[m] = b
            W == [b \in L |-> From(at(b))]
            D(g) == g = [b \in L |-> <<b>> \o (IF nx[b] = None THEN <<>> ELSE g[nx[b]])]
            f == CHOOSE g : D(g)
<1>3. \A m \in 1 .. n : From(m) = <<c[m]>> \o From(m + 1)
  BY <1>0, <1>1, SubSeqRecursiveFirst
<1>4. From(n + 1) = <<>>
  BY <1>1, SubSeqEmpty
<1>5. From(1) = c
  BY <1>0, <1>1, SubSeqFull
<1>. HIDE DEF From
<1>6. \A m \in 1 .. n : W[c[m]] = From(m)
  <2>1. ASSUME NEW m \in 1 .. n PROVE at(c[m]) = m
    BY <1>2
  <2>. HIDE DEF at
  <2>. QED BY <1>1, <2>1
<1>7. ASSUME NEW b \in L PROVE W[b] = <<b>> \o (IF nx[b] = None THEN <<>> ELSE W[nx[b]])
  <2>1. PICK m \in 1 .. n : c[m] = b
    BY <1>2
  <2>2. W[b] = <<b>> \o From(m + 1)
    BY <1>3, <1>6, <2>1, Zenon
  <2>3. CASE m = n
    <3>1. nx[b] = None
      BY <1>1, <2>1, <2>3
    <3>. QED BY <2>2, <2>3, <3>1, <1>4, Zenon
  <2>4. CASE m # n
    <3>1. m \in 1 .. (n - 1) /\ m + 1 \in 1 .. n
      BY <2>4, <1>1
    <3>2. nx[b] = c[m + 1] /\ c[m + 1] \in L
      BY <1>1, <1>2, <2>1, <3>1, Zenon
    <3>3. nx[b] # None
      BY <3>2
    <3>4. W[nx[b]] = From(m + 1)
      BY <1>6, <3>1, <3>2, Zenon
    <3>. QED BY <2>2, <3>3, <3>4, Zenon
  <2>. QED BY <2>3, <2>4
<1>8. D(W)
  <2>1. W = [b \in L |-> W[b]]
    OBVIOUS
  <2>. HIDE DEF W
  <2>. QED BY <1>7, <2>1
<1>9. D(f)
  <2>. HIDE DEF D, W
  <2>. QED BY <1>8, Zenon
<1>10. \A b \in L : f[b] = <<b>> \o (IF nx[b] = None THEN <<>> ELSE f[nx[b]])
  <2>. HIDE DEF f
  <2>. QED BY <1>9
<1>11. Path(h, L, nx) = f[h]
  BY DEF Path
<1>. HIDE DEF f
<1>. DEFINE G == {j \in 0 .. (n - 1) : f[c[n - j]] = From(n - j)}
<1>12. 0 \in G
  <2>1. 0 \in 0 .. (n - 1) /\ n - 0 = n /\ n \in 1 .. n
    BY <1>1
  <2>2. c[n] \in L /\ nx[c[n]] = None
    BY <1>1, <2>1
  <2>3. f[c[n]] = <<c[n]>> \o <<>>
    BY <1>10, <2>2, Zenon
  <2>4. f[c[n]] = From(n)
    BY <1>3, <1>4, <2>1, <2>3, Zenon
  <2>. QED BY <2>1, <2>4
<1>13. ASSUME NEW j \in 0 .. ((n - 1) - 1), j \in G PROVE j + 1 \in G
  <2>0. PICK m : m = n - (j + 1)
    OBVIOUS
  <2>1. m \in 1 .. (n - 1) /\ m \in 1 .. n /\ m + 1 = n - j /\ m + 1 \in 1 .. n /\ j + 1 \in 0 .. (n - 1)
    BY <1>1, <2>0
  <2>2. nx[c[m]] = c[m + 1] /\ c[m] \in L /\ c[m + 1] \in L
    BY <1>1, <1>2, <2>1
  <2>3. c[m + 1] # None
    BY <2>2
  <2>4. f[c[m + 1]] = From(m + 1)
    BY <1>13, <2>1
  <2>5. f[c[m]] = <<c[m]>> \o f[c[m + 1]]
    BY <1>10, <2>2, <2>3, Zenon
  <2>6. f[c[m]] = From(m)
    BY <1>3, <2>1, <2>4, <2>5, Zenon
  <2>. QED BY <2>0, <2>1, <2>6
<1>14. 0 .. (n - 1) \subseteq G
  <2>1. n - 1 \in Nat
    BY <1>1
  <2>. HIDE DEF G
  <2>. QED BY <2>1, <1>12, <1>13, Climb0
<1>15. f[c[1]] = From(1)
  <2>1. n - 1 \in 0 .. (n - 1) /\ n - (n - 1) = 1
    <3>1. n \in Nat \ {0}
      BY <1>1
    <3>. QED BY <3>1
  <2>. QED BY <2>1, <1>14
<1>. QED BY <1>1, <1>5, <1>11, <1>15, Zenon

\* One bucket, a bucket more at the end, and one less in front.
LEMMA LinksOne ==
  ASSUME NEW h, NEW nx, nx[h] = None
  PROVE  Links(<<h>>, h, h, {h}, nx)
BY DEF Links

LEMMA LinksGrow ==
  ASSUME NEW c, NEW h, NEW t, NEW L, NEW nx, Links(c, h, t, L, nx), NEW b, b \notin L,
         NEW ny, ny[t] = b, ny[b] = None, \A a \in L \ {t} : ny[a] = nx[a]
  PROVE  Links(Append(c, b), h, b, L \cup {b}, ny)
<1>0. PICK n, d : n = Len(c) /\ d = Append(c, b)
  OBVIOUS
<1>1. /\ n \in Nat \ {0} /\ c \in Seq(L) /\ c[1] = h /\ c[n] = t
      /\ \A m \in 1 .. n : c[m] \in L
  BY <1>0 DEF Links
<1>2. /\ \A m \in 1 .. (n - 1) : nx[c[m]] = c[m + 1]
      /\ \A l, m \in 1 .. n : c[l] = c[m] => l = m
      /\ \A a \in L : \E m \in 1 .. n : c[m] = a
  BY <1>0 DEF Links
<1>3. /\ d \in Seq(L \cup {b}) /\ Len(d) = n + 1 /\ d[n + 1] = b
      /\ \A m \in 1 .. n : d[m] = c[m]
  <2>1. c \in Seq(L \cup {b}) /\ b \in L \cup {b}
    BY <1>1, SeqMonotonic
  <2>. QED BY <2>1, <1>0, AppendProperties
<1>4. d # <<>> /\ d[1] = h
  BY <1>1, <1>3
<1>5. ASSUME NEW m \in 1 .. n PROVE ny[d[m]] = d[m + 1]
  <2>1. CASE m = n
    BY <2>1, <1>1, <1>3
  <2>2. CASE m # n
    <3>1. m \in 1 .. (n - 1) /\ m + 1 \in 1 .. n /\ n \in 1 .. n
      BY <2>2, <1>1
    <3>2. c[m] # t
      BY <2>2, <3>1, <1>1, <1>2
    <3>3. c[m] \in L \ {t}
      BY <3>2, <1>1
    <3>4. ny[c[m]] = c[m + 1]
      BY <3>1, <3>3, <1>2
    <3>. QED BY <3>1, <3>4, <1>3
  <2>. QED BY <2>1, <2>2
<1>6. ASSUME NEW l \in 1 .. (n + 1), NEW m \in 1 .. (n + 1), d[l] = d[m] PROVE l = m
  <2>1. \A k \in 1 .. (n + 1) : k # n + 1 => k \in 1 .. n /\ d[k] = c[k] /\ d[k] # b
    <3>1. ASSUME NEW k \in 1 .. (n + 1), k # n + 1 PROVE k \in 1 .. n
      BY <3>1, <1>1
    <3>. QED BY <3>1, <1>1, <1>3
  <2>. QED BY <2>1, <1>2, <1>3, <1>6
<1>7. ASSUME NEW a \in L \cup {b} PROVE \E m \in 1 .. (n + 1) : d[m] = a
  <2>1. \A m \in 1 .. n : m \in 1 .. (n + 1)
    BY <1>1
  <2>2. n + 1 \in 1 .. (n + 1)
    BY <1>1
  <2>. QED BY <2>1, <2>2, <1>2, <1>3
<1>8. (n + 1) - 1 = n
  BY <1>1
<1>9. Links(d, h, b, L \cup {b}, ny)
  BY <1>3, <1>4, <1>5, <1>6, <1>7, <1>8 DEF Links
<1>. QED BY <1>0, <1>9

LEMMA LinksRetire ==
  ASSUME NEW c, NEW h, NEW t, NEW L, NEW nx, Links(c, h, t, L, nx), nx[h] # None
  PROVE  /\ Links(Tail(c), nx[h], t, L \ {h}, nx)
         /\ h # t /\ nx[h] \in L \ {h} /\ t \in L \ {h}
<1>0. PICK n, d : n = Len(c) /\ d = Tail(c)
  OBVIOUS
<1>1. /\ n \in Nat \ {0} /\ c \in Seq(L) /\ c # <<>> /\ c[1] = h /\ c[n] = t /\ nx[t] = None
      /\ \A m \in 1 .. n : c[m] \in L
  BY <1>0 DEF Links
<1>2. /\ \A m \in 1 .. (n - 1) : nx[c[m]] = c[m + 1]
      /\ \A l, m \in 1 .. n : c[l] = c[m] => l = m
      /\ \A a \in L : \E m \in 1 .. n : c[m] = a
  BY <1>0 DEF Links
<1>3. d \in Seq(L) /\ Len(d) = n - 1 /\ \A m \in 1 .. (n - 1) : d[m] = c[m + 1]
  BY <1>0, <1>1, HeadTailProperties
<1>4. n # 1 /\ h # t
  BY <1>1
<1>5. 1 \in 1 .. (n - 1) /\ n - 1 \in 1 .. (n - 1) /\ (n - 1) + 1 = n
  BY <1>1, <1>4
<1>6. \A m \in 1 .. (n - 1) : m + 1 \in 1 .. n /\ m + 1 # 1
  BY <1>1
<1>7. \A m \in 1 .. (n - 1) : d[m] \in L \ {h}
  <2>1. 1 \in 1 .. n
    BY <1>1
  <2>. QED BY <2>1, <1>1, <1>2, <1>3, <1>6
<1>8. d \in Seq(L \ {h})
  <2>1. Len(d) \in Nat /\ d = [m \in 1 .. (n - 1) |-> d[m]]
    BY <1>3
  <2>2. n - 1 \in Nat
    BY <1>5
  <2>. HIDE <1>3
  <2>3. [m \in 1 .. (n - 1) |-> d[m]] \in Seq(L \ {h})
    BY <1>7, <2>2
  <2>. QED BY <2>1, <2>3
<1>9. d # <<>> /\ d[1] = nx[h] /\ d[n - 1] = t
  <2>1. nx[c[1]] = c[1 + 1] /\ d[1] = c[1 + 1] /\ d[n - 1] = c[(n - 1) + 1]
    BY <1>2, <1>3, <1>5
  <2>. QED BY <2>1, <1>1, <1>3, <1>5
<1>10. ASSUME NEW m \in 1 .. ((n - 1) - 1) PROVE nx[d[m]] = d[m + 1]
  <2>1. m \in 1 .. (n - 1) /\ m + 1 \in 1 .. (n - 1)
    BY <1>1
  <2>. QED BY <2>1, <1>2, <1>3
<1>11. ASSUME NEW l \in 1 .. (n - 1), NEW m \in 1 .. (n - 1), d[l] = d[m] PROVE l = m
  <2>1. c[l + 1] = c[m + 1] /\ l + 1 \in 1 .. n /\ m + 1 \in 1 .. n
    BY <1>3, <1>6, <1>11
  <2>2. l + 1 = m + 1
    BY <2>1, <1>2
  <2>. QED BY <2>2
<1>12. ASSUME NEW a \in L \ {h} PROVE \E m \in 1 .. (n - 1) : d[m] = a
  <2>1. PICK m \in 1 .. n : c[m] = a
    BY <1>2
  <2>2. m # 1
    BY <2>1, <1>1
  <2>3. m - 1 \in 1 .. (n - 1) /\ (m - 1) + 1 = m
    BY <2>2, <1>1
  <2>4. d[m - 1] = c[(m - 1) + 1]
    BY <2>3, <1>3
  <2>. QED BY <2>1, <2>3, <2>4
<1>13. Links(d, nx[h], t, L \ {h}, nx)
  BY <1>1, <1>3, <1>8, <1>9, <1>10, <1>11, <1>12 DEF Links
<1>14. nx[h] \in L \ {h} /\ t \in L \ {h}
  BY <1>5, <1>7, <1>9
<1>. QED BY <1>0, <1>4, <1>13, <1>14

-----------------------------------------------------------------------------
(* The inductive invariant.                                                *)

Making(x)  == pc[x] \in {"construct", "publish"}
Reading(x) == pc[x] \in {"look", "cas", "move"}
MakesAt(x, b, s) == Making(x) /\ reg[x].bucket = b /\ reg[x].pos = s
MovesAt(x, b, s) == pc[x] = "move" /\ reg[x].bucket = b /\ reg[x].pos = s

Marks     == {"empty", "ready", "poisoned"}
Labels    == {"idle", "construct", "publish", "grow", "emplace", "look", "cas", "move", "retire",
              "dequeue"}
Registers == [bucket : Buckets \cup {None}, pos : Nat, state : Marks, item : Items \cup {None}]

\* Types.
Shape ==
  /\ head \in live /\ tail \in live /\ live \subseteq Buckets
  /\ enqueuePos \in [Buckets -> Nat] /\ dequeuePos \in [Buckets -> Nat]
  /\ next \in [Buckets -> Buckets \cup {None}]
  /\ shared \subseteq Threads
  /\ pc \in [Threads -> Labels]
  /\ reg \in [Threads -> Registers]
  /\ committed \in [Buckets -> [Slots -> Marks]]
  /\ data \in [Buckets -> [Slots -> Items \cup {None}]]
Outer ==
  /\ fast \in BOOLEAN
  /\ answer \in [Threads -> Seq(Items) \cup {None}]
  /\ emplaced \in 0 .. EmplaceBound

ChainInv == Links(Chain, head, tail, live, next)

\* The shared lock is held from a claim to its publication, and while a consumer reads.
LockInv == \A x \in Threads : x \in shared <=> Making(x) \/ Reading(x)

\* Consumers never overtake producers; only the tail has slots to claim, only the head was
\* consumed.
CursorOK(b) ==
  /\ dequeuePos[b] <= enqueuePos[b] /\ dequeuePos[b] <= PoolSize
  /\ b # tail => enqueuePos[b] >= PoolSize
  /\ b # head => dequeuePos[b] = 0
CursorInv == \A b \in live : CursorOK(b)

\* Slots behind the producers' cursor are untouched, a claimed slot that is not committed has
\* its producer, and a consumed one holds nothing but what is being moved out.
SlotOK(b, s) ==
  /\ s >= enqueuePos[b] => committed[b][s] = "empty" /\ data[b][s] = None
  /\ s < enqueuePos[b] /\ committed[b][s] = "empty" => \E x \in Threads : MakesAt(x, b, s)
  /\ s < dequeuePos[b] => /\ committed[b][s] # "empty"
                          /\ data[b][s] = None \/ \E x \in Threads : MovesAt(x, b, s)
  /\ s >= dequeuePos[b] /\ committed[b][s] = "ready" => data[b][s] \in Items
  /\ committed[b][s] = "poisoned" => data[b][s] = None
SlotInv == \A b \in live : \A s \in Slots : SlotOK(b, s)

\* A producer has its slot for itself, between the two cursors.
MakeAt(x, b, p) ==
  /\ b \in live /\ p \in Slots
  /\ dequeuePos[b] <= p /\ p < enqueuePos[b]
  /\ committed[b][p] = "empty"
  /\ data[b][p] = IF pc[x] = "publish" /\ reg[x].item \notin Throws THEN reg[x].item ELSE None
  /\ \A y \in Threads : MakesAt(y, b, p) => y = x
MakeInv == \A x \in Threads : \A b, p : MakesAt(x, b, p) => MakeAt(x, b, p)

ReadsAt(x, p) == Reading(x) /\ reg[x].pos = p

\* A consumer reads the head, at most up to the consumers' cursor, and moves its own element.
ReadAt(x, p) ==
  /\ reg[x].bucket = head
  /\ p <= dequeuePos[head]
  /\ pc[x] = "cas" => p \in Slots /\ committed[head][p] = reg[x].state /\ reg[x].state # "empty"
  /\ pc[x] = "move" => /\ p \in Slots /\ p < dequeuePos[head]
                       /\ committed[head][p] = "ready" /\ data[head][p] \in Items
                       /\ \A y \in Threads : MovesAt(y, head, p) => y = x
ReadInv == \A x \in Threads : \A p : ReadsAt(x, p) => ReadAt(x, p)

ItemInv ==
  \A x \in Threads : pc[x] \in {"construct", "publish", "emplace", "grow"} => reg[x].item \in Items

QueueInv == /\ Shape /\ Outer /\ ChainInv /\ LockInv /\ CursorInv /\ SlotInv /\ MakeInv /\ ReadInv
            /\ ItemInv /\ NoneLeft

LEMMA SameChain == UNCHANGED chain => Chain' = Chain
BY DEF chain, Chain

LEMMA NoRegister == NoReg \in Registers
BY DEF NoReg, Registers, Marks

\* What is left alone keeps its part of the invariant.
LEMMA SlotFrame ==
  ASSUME NEW b, NEW s, SlotOK(b, s),
         enqueuePos'[b] = enqueuePos[b], dequeuePos'[b] = dequeuePos[b],
         committed'[b][s] = committed[b][s], data'[b][s] = data[b][s],
         \A y \in Threads : MakesAt(y, b, s) => MakesAt(y, b, s)',
         \A y \in Threads : MovesAt(y, b, s) => MovesAt(y, b, s)'
  PROVE  SlotOK(b, s)'
BY DEF SlotOK

LEMMA CursorFrame ==
  ASSUME NEW b, CursorOK(b), enqueuePos'[b] = enqueuePos[b], dequeuePos'[b] = dequeuePos[b],
         head' = head, tail' = tail
  PROVE  CursorOK(b)'
BY DEF CursorOK

LEMMA MakeFrame ==
  ASSUME NEW x, NEW b, NEW p, MakeAt(x, b, p),
         b \in live', enqueuePos'[b] = enqueuePos[b], dequeuePos'[b] = dequeuePos[b],
         committed'[b][p] = committed[b][p], data'[b][p] = data[b][p],
         pc'[x] = pc[x], reg'[x] = reg[x],
         \A y \in Threads : MakesAt(y, b, p)' => MakesAt(y, b, p)
  PROVE  MakeAt(x, b, p)'
BY DEF MakeAt

LEMMA ReadFrame ==
  ASSUME NEW x, NEW p, ReadAt(x, p), head' = head, dequeuePos'[head] = dequeuePos[head],
         p \in Slots => committed'[head][p] = committed[head][p] /\ data'[head][p] = data[head][p],
         pc'[x] = pc[x], reg'[x] = reg[x],
         \A y \in Threads : MovesAt(y, head, p)' => MovesAt(y, head, p)
  PROVE  ReadAt(x, p)'
BY DEF ReadAt

\* Every other thread is where it was.
Others(x) == \A y \in Threads : y # x => reg'[y] = reg[y] /\ pc'[y] = pc[y]

\* What a claim does.
ClaimFacts(x, i) ==
  /\ enqueuePos' \in [Buckets -> Nat]
  /\ \A b \in Buckets : enqueuePos'[b] = IF b = tail THEN enqueuePos[tail] + 1 ELSE enqueuePos[b]
  /\ pc' \in [Threads -> Labels] /\ reg' \in [Threads -> Registers] /\ Others(x)
  /\ reg'[x].bucket = tail /\ reg'[x].pos = enqueuePos[tail] /\ reg'[x].item = i
  /\ \/ enqueuePos[tail] < PoolSize /\ pc'[x] = "construct" /\ shared' = shared \cup {x}
     \/ ~(enqueuePos[tail] < PoolSize) /\ pc'[x] = "grow" /\ shared' = shared
  /\ UNCHANGED <<fast, head, tail, live, next, dequeuePos, committed, data, answer>>

LEMMA ClaimIs ==
  ASSUME Shape, NEW x \in Threads, NEW i \in Items, ClaimSlot(x, i)
  PROVE  ClaimFacts(x, i)
<1>1. /\ tail \in Buckets /\ enqueuePos \in [Buckets -> Nat] /\ reg \in [Threads -> Registers]
      /\ pc \in [Threads -> Labels]
  BY DEF Shape
<1>2. /\ enqueuePos' = [enqueuePos EXCEPT ![tail] = @ + 1]
      /\ reg' = [reg EXCEPT ![x] = [@ EXCEPT !.bucket = tail, !.pos = enqueuePos[tail], !.item = i]]
      /\ \/ enqueuePos[tail] < PoolSize /\ pc' = [pc EXCEPT ![x] = "construct"] /\ shared' = shared \cup {x}
         \/ ~(enqueuePos[tail] < PoolSize) /\ pc' = [pc EXCEPT ![x] = "grow"] /\ shared' = shared
      /\ UNCHANGED <<fast, head, tail, live, next, dequeuePos, committed, data, answer>>
  BY DEF ClaimSlot, Goto, Lock, chain
<1>3. /\ enqueuePos' \in [Buckets -> Nat]
      /\ \A b \in Buckets : enqueuePos'[b] = IF b = tail THEN enqueuePos[tail] + 1 ELSE enqueuePos[b]
  BY <1>1, <1>2
<1>4. PICK q : q = [reg[x] EXCEPT !.bucket = tail, !.pos = enqueuePos[tail], !.item = i]
  OBVIOUS
<1>5. q \in Registers /\ q.bucket = tail /\ q.pos = enqueuePos[tail] /\ q.item = i
  <2>1. PICK r \in Registers, p \in Nat, b \in Buckets : r = reg[x] /\ p = enqueuePos[tail] /\ b = tail
    BY <1>1
  <2>2. q = [r EXCEPT !.bucket = b, !.pos = p, !.item = i]
    BY <2>1, <1>4
  <2>3. q \in Registers /\ q.bucket = b /\ q.pos = p /\ q.item = i
    BY <2>2 DEF Registers
  <2>. QED BY <2>1, <2>3
<1>6. reg' = [reg EXCEPT ![x] = q]
  BY <1>2, <1>4
<1>7. reg' \in [Threads -> Registers] /\ reg'[x] = q /\ \A y \in Threads : y # x => reg'[y] = reg[y]
  BY <1>1, <1>5, <1>6
<1>8. /\ \/ enqueuePos[tail] < PoolSize /\ pc'[x] = "construct" /\ shared' = shared \cup {x}
         \/ ~(enqueuePos[tail] < PoolSize) /\ pc'[x] = "grow" /\ shared' = shared
      /\ \A y \in Threads : y # x => pc'[y] = pc[y]
      /\ pc' \in [Threads -> Labels]
  BY <1>1, <1>2 DEF Labels
<1>. QED BY <1>2, <1>3, <1>5, <1>7, <1>8 DEF ClaimFacts, Others

LEMMA ClaimKeeps ==
  ASSUME QueueAssumption, QueueInv, NEW x \in Threads, NEW i \in Items, ClaimSlot(x, i),
         pc[x] \in {"idle", "emplace"}, emplaced' \in 0 .. EmplaceBound
  PROVE  QueueInv'
<1>1. /\ Shape /\ Outer /\ ChainInv /\ LockInv /\ CursorInv /\ SlotInv /\ MakeInv /\ ReadInv
      /\ ItemInv /\ NoneLeft
  BY DEF QueueInv
<1>2. ClaimFacts(x, i)
  BY <1>1, ClaimIs
<1>a. PoolSize \in Nat \ {0}
  BY DEF QueueAssumption
<1>b. /\ \A b \in Buckets : enqueuePos'[b] = IF b = tail THEN enqueuePos[tail] + 1 ELSE enqueuePos[b]
      /\ UNCHANGED <<fast, head, tail, live, next, dequeuePos, committed, data, answer>>
  BY <1>2 DEF ClaimFacts
<1>c. /\ Others(x) /\ reg'[x].bucket = tail /\ reg'[x].pos = enqueuePos[tail] /\ reg'[x].item = i
      /\ \/ enqueuePos[tail] < PoolSize /\ pc'[x] = "construct" /\ shared' = shared \cup {x}
         \/ ~(enqueuePos[tail] < PoolSize) /\ pc'[x] = "grow" /\ shared' = shared
  BY <1>2 DEF ClaimFacts
<1>d. /\ tail \in live /\ head \in live /\ live \subseteq Buckets
      /\ \A b \in live : enqueuePos[b] \in Nat /\ dequeuePos[b] \in Nat
  BY <1>1 DEF Shape
<1>e. Slots \subseteq Nat /\ \A s \in Nat : s \in Slots <=> s < PoolSize
  BY <1>a DEF Slots
<1>f. \A b \in live \ {tail} : enqueuePos'[b] = enqueuePos[b]
  BY <1>b, <1>d
<1>g. enqueuePos'[tail] = enqueuePos[tail] + 1
  BY <1>b, <1>d
<1>h. ~Making(x) /\ ~Reading(x)
  BY DEF Making, Reading
<1>i. \A y \in Threads : \A b, s : MovesAt(y, b, s) <=> MovesAt(y, b, s)'
  BY <1>c, <1>h DEF Others, MovesAt, Reading
<1>j. \A y \in Threads : \A b, s : MakesAt(y, b, s) => MakesAt(y, b, s)'
  BY <1>c, <1>h DEF Others, MakesAt, Making
<1>k. \A y \in Threads : \A b, s : MakesAt(y, b, s)' /\ y # x => MakesAt(y, b, s)
  BY <1>c DEF Others, MakesAt, Making
<1>3. Shape'
  <2>1. shared' \subseteq Threads
    BY <1>1, <1>c DEF Shape
  <2>. QED BY <1>1, <1>2, <1>b, <2>1 DEF Shape, ClaimFacts
<1>4. Outer'
  BY <1>1, <1>b DEF Outer
<1>5. ChainInv'
  BY <1>1, <1>b, SameChain DEF ChainInv, chain
<1>6. LockInv'
  BY <1>1, <1>c, <1>h DEF LockInv, Making, Reading, Others
<1>7. CursorInv'
  <2>. SUFFICES ASSUME NEW b \in live PROVE CursorOK(b)'
    BY <1>b DEF CursorInv
  <2>1. CursorOK(b)
    BY <1>1 DEF CursorInv
  <2>2. CASE b # tail
    BY <2>1, <2>2, <1>b, <1>f, CursorFrame
  <2>3. CASE b = tail
    BY <2>1, <2>3, <1>b, <1>d, <1>g DEF CursorOK
  <2>. QED BY <2>2, <2>3
<1>8. SlotInv'
  <2>. SUFFICES ASSUME NEW b \in live, NEW s \in Slots PROVE SlotOK(b, s)'
    BY <1>b DEF SlotInv
  <2>1. SlotOK(b, s)
    BY <1>1 DEF SlotInv
  <2>2. CASE b # tail
    BY <2>1, <2>2, <1>b, <1>f, <1>i, <1>j, SlotFrame
  <2>3. CASE b = tail /\ s # enqueuePos[tail]
    <3>1. s >= enqueuePos'[b] <=> s >= enqueuePos[b]
      BY <2>3, <1>d, <1>e, <1>g
    <3>2. s < enqueuePos'[b] <=> s < enqueuePos[b]
      BY <2>3, <1>d, <1>e, <1>g
    <3>. QED BY <2>1, <3>1, <3>2, <1>b, <1>i, <1>j DEF SlotOK
  <2>4. CASE b = tail /\ s = enqueuePos[tail]
    <3>1. s < PoolSize /\ s >= enqueuePos[b] /\ ~(s < dequeuePos[b]) /\ ~(s >= enqueuePos'[b])
      <4>1. CursorOK(b)
        BY <1>1 DEF CursorInv
      <4>. QED BY <4>1, <2>4, <1>d, <1>e, <1>g DEF CursorOK
    <3>2. committed[b][s] = "empty" /\ data[b][s] = None
      BY <2>1, <3>1 DEF SlotOK
    <3>3. pc'[x] = "construct"
      BY <2>4, <3>1, <1>c
    <3>4. MakesAt(x, b, s)'
      BY <2>4, <3>3, <1>c DEF MakesAt, Making
    <3>. QED BY <3>1, <3>2, <3>4, <1>b DEF SlotOK
  <2>. QED BY <2>2, <2>3, <2>4
<1>9. MakeInv'
  <2>. SUFFICES ASSUME NEW y \in Threads, NEW b, NEW p, MakesAt(y, b, p)' PROVE MakeAt(y, b, p)'
    BY DEF MakeInv
  <2>1. CASE y # x
    <3>1. reg'[y] = reg[y] /\ pc'[y] = pc[y] /\ MakesAt(y, b, p)
      BY <2>1, <1>c, <1>k DEF Others
    <3>3. MakeAt(y, b, p)
      BY <3>1, <1>1 DEF MakeInv
    <3>4. b \in live /\ p \in Slots /\ p < enqueuePos[b]
      BY <3>3 DEF MakeAt
    <3>5. ~MakesAt(x, b, p)'
      BY <3>4, <1>c, <1>d, <1>e DEF MakesAt
    <3>6. \A z \in Threads : MakesAt(z, b, p)' => z = y
      BY <3>3, <3>5, <1>k DEF MakeAt
    <3>7. p < enqueuePos'[b]
      BY <3>4, <1>d, <1>e, <1>f, <1>g
    <3>. QED BY <3>1, <3>3, <3>6, <3>7, <1>b DEF MakeAt
  <2>2. CASE y = x
    <3>1. pc'[x] = "construct" /\ enqueuePos[tail] < PoolSize
      BY <2>2, <1>c DEF Making, MakesAt
    <3>2. p = enqueuePos[tail] /\ b = tail
      BY <2>2, <1>c DEF MakesAt
    <3>3. p \in Slots /\ p < enqueuePos'[b] /\ p >= enqueuePos[b] /\ ~(p < enqueuePos[b])
      BY <3>1, <3>2, <1>d, <1>e, <1>g
    <3>4. dequeuePos[b] <= p
      BY <1>1, <1>d, <3>2 DEF CursorInv, CursorOK
    <3>5. committed[b][p] = "empty" /\ data[b][p] = None
      BY <1>1, <1>d, <3>2, <3>3 DEF SlotInv, SlotOK
    <3>6. ASSUME NEW z \in Threads, MakesAt(z, b, p)', z # x PROVE FALSE
      <4>1. MakesAt(z, b, p)
        BY <1>k, <3>6
      <4>2. MakeAt(z, b, p)
        BY <4>1, <1>1 DEF MakeInv
      <4>. QED BY <4>2, <3>3 DEF MakeAt
    <3>. QED BY <2>2, <3>1, <3>2, <3>3, <3>4, <3>5, <3>6, <1>b, <1>d DEF MakeAt
  <2>. QED BY <2>1, <2>2
<1>10. ReadInv'
  <2>. SUFFICES ASSUME NEW y \in Threads, NEW p, ReadsAt(y, p)' PROVE ReadAt(y, p)'
    BY DEF ReadInv
  <2>1. y # x /\ reg'[y] = reg[y] /\ pc'[y] = pc[y] /\ ReadsAt(y, p)
    BY <1>c DEF Others, Reading, ReadsAt
  <2>2. ReadAt(y, p)
    BY <2>1, <1>1 DEF ReadInv
  <2>. QED BY <2>1, <2>2, <1>b, <1>i, ReadFrame
<1>11. ItemInv'
  BY <1>1, <1>c DEF ItemInv, Others
<1>12. NoneLeft'
  BY <1>1, <1>b DEF NoneLeft
<1>. QED BY <1>3, <1>4, <1>5, <1>6, <1>7, <1>8, <1>9, <1>10, <1>11, <1>12 DEF QueueInv

\* The element is constructed.
LEMMA ConstructKeeps ==
  ASSUME QueueAssumption, QueueInv, NEW x \in Threads, Construct(x)
  PROVE  QueueInv'
<1>1. /\ Shape /\ Outer /\ ChainInv /\ LockInv /\ CursorInv /\ SlotInv /\ MakeInv /\ ReadInv
      /\ ItemInv /\ NoneLeft
  BY DEF QueueInv
<1>2. PICK c, q, i : c = reg[x].bucket /\ q = reg[x].pos /\ i = reg[x].item
  OBVIOUS
<1>3. /\ pc[x] = "construct" /\ pc' = [pc EXCEPT ![x] = "publish"] /\ reg' = reg
      /\ IF i \in Throws THEN data' = data ELSE data' = [data EXCEPT ![c][q] = i]
      /\ UNCHANGED <<fast, head, tail, live, next, enqueuePos, dequeuePos, committed, shared, emplaced, answer>>
  BY <1>2 DEF Construct, At, Goto, chain
<1>4. MakesAt(x, c, q) /\ MakeAt(x, c, q)
  BY <1>1, <1>2, <1>3 DEF MakeInv, MakesAt, Making
<1>5. /\ c \in live /\ c \in Buckets /\ q \in Slots /\ dequeuePos[c] <= q /\ q < enqueuePos[c]
      /\ committed[c][q] = "empty" /\ data[c][q] = None
      /\ \A y \in Threads : MakesAt(y, c, q) => y = x
  BY <1>1, <1>3, <1>4 DEF MakeAt, Shape
<1>6. i \in Items
  BY <1>1, <1>2, <1>3 DEF ItemInv
<1>7. pc' \in [Threads -> Labels] /\ pc'[x] = "publish" /\ \A y \in Threads : y # x => pc'[y] = pc[y]
  BY <1>1, <1>3 DEF Shape, Labels
<1>8. /\ data' \in [Buckets -> [Slots -> Items \cup {None}]]
      /\ \A b \in Buckets : \A s \in Slots : ~(b = c /\ s = q) => data'[b][s] = data[b][s]
      /\ data'[c][q] = IF i \in Throws THEN None ELSE i
  <2>1. data \in [Buckets -> [Slots -> Items \cup {None}]]
    BY <1>1 DEF Shape
  <2>2. CASE i \in Throws
    BY <2>1, <2>2, <1>3, <1>5
  <2>3. CASE i \notin Throws
    <3>1. data' = [data EXCEPT ![c][q] = i]
      BY <2>3, <1>3
    <3>. QED BY <2>1, <2>3, <3>1, <1>5, <1>6
  <2>. QED BY <2>2, <2>3
<1>9. \A y \in Threads : \A b, s : MovesAt(y, b, s) <=> MovesAt(y, b, s)'
  BY <1>3, <1>7 DEF MovesAt
<1>10. \A y \in Threads : \A b, s : MakesAt(y, b, s) <=> MakesAt(y, b, s)'
  BY <1>3, <1>7 DEF MakesAt, Making
<1>11. live \subseteq Buckets /\ head \in live /\ Slots \subseteq Nat
  BY <1>1 DEF Shape, Slots
<1>12. Shape'
  BY <1>1, <1>3, <1>7, <1>8 DEF Shape
<1>13. Outer'
  BY <1>1, <1>3 DEF Outer
<1>14. ChainInv'
  BY <1>1, <1>3, SameChain DEF ChainInv, chain
<1>15. LockInv'
  BY <1>1, <1>3, <1>7 DEF LockInv, Making, Reading
<1>16. CursorInv'
  BY <1>1, <1>3, CursorFrame DEF CursorInv
<1>17. SlotInv'
  <2>. SUFFICES ASSUME NEW b \in live, NEW s \in Slots PROVE SlotOK(b, s)'
    BY <1>3 DEF SlotInv
  <2>1. SlotOK(b, s)
    BY <1>1 DEF SlotInv
  <2>2. CASE ~(b = c /\ s = q)
    <3>1. data'[b][s] = data[b][s]
      BY <2>2, <1>8, <1>11
    <3>. QED BY <2>1, <3>1, <1>3, <1>9, <1>10, SlotFrame
  <2>3. CASE b = c /\ s = q
    <3>1. s \in Nat /\ enqueuePos[b] \in Nat /\ dequeuePos[b] \in Nat
      BY <1>1, <1>11 DEF Shape
    <3>2. ~(s >= enqueuePos[b]) /\ ~(s < dequeuePos[b])
      BY <2>3, <3>1, <1>5
    <3>3. MakesAt(x, b, s)'
      BY <2>3, <1>4, <1>10
    <3>. QED BY <2>3, <3>2, <3>3, <1>3, <1>5 DEF SlotOK
  <2>. QED BY <2>2, <2>3
<1>18. MakeInv'
  <2>. SUFFICES ASSUME NEW y \in Threads, NEW b, NEW s, MakesAt(y, b, s)' PROVE MakeAt(y, b, s)'
    BY DEF MakeInv
  <2>1. MakesAt(y, b, s) /\ MakeAt(y, b, s)
    BY <1>1, <1>10 DEF MakeInv
  <2>2. b \in live /\ s \in Slots
    BY <2>1 DEF MakeAt
  <2>3. CASE y # x
    <3>1. ~(b = c /\ s = q)
      BY <2>1, <2>3, <1>5
    <3>2. data'[b][s] = data[b][s] /\ pc'[y] = pc[y]
      BY <2>2, <2>3, <3>1, <1>7, <1>8, <1>11
    <3>. QED BY <2>1, <2>2, <3>2, <1>3, <1>10, MakeFrame
  <2>4. CASE y = x
    <3>1. b = c /\ s = q
      BY <2>1, <2>4, <1>2 DEF MakesAt
    <3>2. data'[b][s] = IF pc'[x] = "publish" /\ reg'[x].item \notin Throws THEN reg'[x].item ELSE None
      BY <3>1, <1>2, <1>3, <1>7, <1>8
    <3>. QED BY <2>1, <2>4, <3>2, <1>3, <1>10 DEF MakeAt
  <2>. QED BY <2>3, <2>4
<1>19. ReadInv'
  <2>. SUFFICES ASSUME NEW y \in Threads, NEW p, ReadsAt(y, p)' PROVE ReadAt(y, p)'
    BY DEF ReadInv
  <2>1. y # x /\ reg'[y] = reg[y] /\ pc'[y] = pc[y] /\ ReadsAt(y, p)
    BY <1>3, <1>7 DEF Reading, ReadsAt
  <2>2. ReadAt(y, p)
    BY <2>1, <1>1 DEF ReadInv
  <2>3. CASE ~(head = c /\ p = q)
    <3>1. p \in Slots => data'[head][p] = data[head][p]
      BY <2>3, <1>8, <1>11
    <3>. QED BY <2>1, <2>2, <3>1, <1>3, <1>9, ReadFrame
  <2>4. CASE head = c /\ p = q
    <3>1. pc[y] # "move" /\ pc[y] # "cas"
      BY <2>2, <2>4, <1>5 DEF ReadAt
    <3>. QED BY <2>1, <2>2, <3>1, <1>3 DEF ReadAt
  <2>. QED BY <2>3, <2>4
<1>20. ItemInv'
  BY <1>1, <1>3, <1>7 DEF ItemInv
<1>21. NoneLeft'
  BY <1>1, <1>3, <1>5, <1>8 DEF NoneLeft
<1>. QED BY <1>12, <1>13, <1>14, <1>15, <1>16, <1>17, <1>18, <1>19, <1>20, <1>21 DEF QueueInv

\* The flag of the slot is set.
LEMMA PublishKeeps ==
  ASSUME QueueAssumption, QueueInv, NEW x \in Threads, Publish(x)
  PROVE  QueueInv'
<1>1. /\ Shape /\ Outer /\ ChainInv /\ LockInv /\ CursorInv /\ SlotInv /\ MakeInv /\ ReadInv
      /\ ItemInv /\ NoneLeft
  BY DEF QueueInv
<1>2. PICK c, q, i, m : /\ c = reg[x].bucket /\ q = reg[x].pos /\ i = reg[x].item
                        /\ m = IF i \in Throws THEN "poisoned" ELSE "ready"
  OBVIOUS
<1>3. /\ pc[x] = "publish" /\ pc' = [pc EXCEPT ![x] = "idle"] /\ reg' = [reg EXCEPT ![x] = NoReg]
      /\ committed' = [committed EXCEPT ![c][q] = m]
      /\ answer' = [answer EXCEPT ![x] = IF i \in Throws THEN None ELSE <<i>>]
      /\ shared' = shared \ {x}
      /\ UNCHANGED <<fast, head, tail, live, next, enqueuePos, dequeuePos, data, emplaced>>
  BY <1>2 DEF Publish, At, Goto, Return, Unlock, chain
<1>4. MakesAt(x, c, q) /\ MakeAt(x, c, q)
  BY <1>1, <1>2, <1>3 DEF MakeInv, MakesAt, Making
<1>5. /\ c \in live /\ c \in Buckets /\ q \in Slots /\ dequeuePos[c] <= q /\ q < enqueuePos[c]
      /\ committed[c][q] = "empty" /\ data[c][q] = IF i \in Throws THEN None ELSE i
      /\ \A y \in Threads : MakesAt(y, c, q) => y = x
  BY <1>1, <1>2, <1>3, <1>4 DEF MakeAt, Shape
<1>6. i \in Items
  BY <1>1, <1>2, <1>3 DEF ItemInv
<1>7. /\ pc' \in [Threads -> Labels] /\ reg' \in [Threads -> Registers]
      /\ pc'[x] = "idle" /\ Others(x)
  BY <1>1, <1>3, NoRegister DEF Shape, Labels, Others
<1>8. /\ committed' \in [Buckets -> [Slots -> Marks]]
      /\ \A b \in Buckets : \A s \in Slots : ~(b = c /\ s = q) => committed'[b][s] = committed[b][s]
      /\ committed'[c][q] = m /\ m # "empty"
  <2>1. committed \in [Buckets -> [Slots -> Marks]]
    BY <1>1 DEF Shape
  <2>2. m \in Marks /\ m # "empty"
    BY <1>2 DEF Marks
  <2>. QED BY <2>1, <2>2, <1>3, <1>5
<1>9. \A y \in Threads : \A b, s : MovesAt(y, b, s) <=> MovesAt(y, b, s)'
  BY <1>3, <1>7 DEF MovesAt, Others
<1>10. \A y \in Threads : \A b, s : MakesAt(y, b, s)' <=> MakesAt(y, b, s) /\ y # x
  BY <1>3, <1>7 DEF MakesAt, Making, Others
<1>11. live \subseteq Buckets /\ head \in live /\ Slots \subseteq Nat
  BY <1>1 DEF Shape, Slots
<1>a. \A b, s : MakesAt(x, b, s) => b = c /\ s = q
  BY <1>2 DEF MakesAt
<1>12. Shape'
  <2>1. shared' \subseteq Threads
    BY <1>1, <1>3 DEF Shape
  <2>. QED BY <2>1, <1>1, <1>3, <1>7, <1>8 DEF Shape
<1>13. Outer'
  <2>1. <<i>> \in Seq(Items)
    BY <1>6
  <2>2. (IF i \in Throws THEN None ELSE <<i>>) \in Seq(Items) \cup {None}
    BY <2>1
  <2>3. answer' \in [Threads -> Seq(Items) \cup {None}]
    BY <2>2, <1>1, <1>3 DEF Outer
  <2>. QED BY <2>3, <1>1, <1>3 DEF Outer
<1>14. ChainInv'
  BY <1>1, <1>3, SameChain DEF ChainInv, chain
<1>15. LockInv'
  BY <1>1, <1>3, <1>7 DEF LockInv, Making, Reading, Others
<1>16. CursorInv'
  BY <1>1, <1>3, CursorFrame DEF CursorInv
<1>17. SlotInv'
  <2>. SUFFICES ASSUME NEW b \in live, NEW s \in Slots PROVE SlotOK(b, s)'
    BY <1>3 DEF SlotInv
  <2>1. SlotOK(b, s)
    BY <1>1 DEF SlotInv
  <2>2. CASE ~(b = c /\ s = q)
    <3>1. committed'[b][s] = committed[b][s]
      BY <2>2, <1>8, <1>11
    <3>2. \A y \in Threads : MakesAt(y, b, s) => MakesAt(y, b, s)'
      BY <2>2, <1>10, <1>a
    <3>. QED BY <2>1, <3>1, <3>2, <1>3, <1>9, SlotFrame
  <2>3. CASE b = c /\ s = q
    <3>1. s \in Nat /\ enqueuePos[b] \in Nat /\ dequeuePos[b] \in Nat
      BY <1>1, <1>11 DEF Shape
    <3>2. ~(s >= enqueuePos[b]) /\ ~(s < dequeuePos[b])
      BY <2>3, <3>1, <1>5
    <3>3. /\ committed'[b][s] # "empty"
          /\ committed'[b][s] = "ready" => data[b][s] \in Items
          /\ committed'[b][s] = "poisoned" => data[b][s] = None
      BY <2>3, <1>2, <1>5, <1>6, <1>8
    <3>. QED BY <3>2, <3>3, <1>3 DEF SlotOK
  <2>. QED BY <2>2, <2>3
<1>18. MakeInv'
  <2>. SUFFICES ASSUME NEW y \in Threads, NEW b, NEW s, MakesAt(y, b, s)' PROVE MakeAt(y, b, s)'
    BY DEF MakeInv
  <2>1. MakesAt(y, b, s) /\ y # x /\ MakeAt(y, b, s)
    BY <1>1, <1>10 DEF MakeInv
  <2>2. b \in live /\ s \in Slots
    BY <2>1 DEF MakeAt
  <2>3. ~(b = c /\ s = q)
    BY <2>1, <1>5
  <2>4. committed'[b][s] = committed[b][s] /\ pc'[y] = pc[y] /\ reg'[y] = reg[y]
    BY <2>1, <2>2, <2>3, <1>7, <1>8, <1>11 DEF Others
  <2>. QED BY <2>1, <2>2, <2>4, <1>3, <1>10, MakeFrame
<1>19. ReadInv'
  <2>. SUFFICES ASSUME NEW y \in Threads, NEW p, ReadsAt(y, p)' PROVE ReadAt(y, p)'
    BY DEF ReadInv
  <2>1. y # x /\ reg'[y] = reg[y] /\ pc'[y] = pc[y] /\ ReadsAt(y, p)
    BY <1>3, <1>7 DEF Reading, ReadsAt, Others
  <2>2. ReadAt(y, p)
    BY <2>1, <1>1 DEF ReadInv
  <2>3. CASE ~(head = c /\ p = q)
    <3>1. p \in Slots => committed'[head][p] = committed[head][p]
      BY <2>3, <1>8, <1>11
    <3>. QED BY <2>1, <2>2, <3>1, <1>3, <1>9, ReadFrame
  <2>4. CASE head = c /\ p = q
    <3>1. pc[y] # "move" /\ pc[y] # "cas"
      BY <2>2, <2>4, <1>5 DEF ReadAt
    <3>. QED BY <2>1, <2>2, <3>1, <1>3 DEF ReadAt
  <2>. QED BY <2>3, <2>4
<1>20. ItemInv'
  BY <1>1, <1>3, <1>7 DEF ItemInv, Others
<1>21. NoneLeft'
  BY <1>1, <1>3 DEF NoneLeft
<1>. QED BY <1>12, <1>13, <1>14, <1>15, <1>16, <1>17, <1>18, <1>19, <1>20, <1>21 DEF QueueInv

\* What linking the new bucket b does.
FreshFacts(b) ==
  /\ tail \in live /\ tail \in Buckets /\ b # tail /\ head \in live /\ live \subseteq Buckets
  /\ enqueuePos \in [Buckets -> Nat] /\ dequeuePos \in [Buckets -> Nat]
  /\ next \in [Buckets -> Buckets \cup {None}] /\ committed \in [Buckets -> [Slots -> Marks]]
  /\ live' = live \cup {b} /\ tail' = b
  /\ enqueuePos' \in [Buckets -> Nat] /\ enqueuePos'[b] = 0
  /\ \A a \in Buckets : a # b => enqueuePos'[a] = enqueuePos[a]
  /\ dequeuePos' \in [Buckets -> Nat] /\ dequeuePos'[b] = 0
  /\ \A a \in Buckets : a # b => dequeuePos'[a] = dequeuePos[a]
  /\ committed' \in [Buckets -> [Slots -> Marks]] /\ \A s \in Slots : committed'[b][s] = "empty"
  /\ \A a \in Buckets : a # b => committed'[a] = committed[a]
  /\ next' \in [Buckets -> Buckets \cup {None}] /\ next'[tail] = b /\ next'[b] = None
  /\ \A a \in Buckets : a # b /\ a # tail => next'[a] = next[a]

LEMMA FreshIs ==
  ASSUME Shape, NEW b \in Buckets \ live, Fresh(b)
  PROVE  FreshFacts(b)
<1>2. /\ tail \in live /\ tail \in Buckets /\ b # tail /\ head \in live /\ live \subseteq Buckets
      /\ enqueuePos \in [Buckets -> Nat] /\ dequeuePos \in [Buckets -> Nat]
      /\ next \in [Buckets -> Buckets \cup {None}] /\ committed \in [Buckets -> [Slots -> Marks]]
  BY DEF Shape
<1>3. /\ live' = live \cup {b} /\ tail' = b
      /\ enqueuePos' \in [Buckets -> Nat] /\ enqueuePos'[b] = 0
      /\ \A a \in Buckets : a # b => enqueuePos'[a] = enqueuePos[a]
      /\ dequeuePos' \in [Buckets -> Nat] /\ dequeuePos'[b] = 0
      /\ \A a \in Buckets : a # b => dequeuePos'[a] = dequeuePos[a]
  BY <1>2 DEF Fresh
<1>4. /\ committed' \in [Buckets -> [Slots -> Marks]] /\ \A s \in Slots : committed'[b][s] = "empty"
      /\ \A a \in Buckets : a # b => committed'[a] = committed[a]
  <2>1. committed' = [committed EXCEPT ![b] = [s \in Slots |-> "empty"]]
    BY DEF Fresh
  <2>2. [s \in Slots |-> "empty"] \in [Slots -> Marks]
    BY DEF Marks
  <2>. QED BY <1>2, <2>1, <2>2
<1>5. /\ next' \in [Buckets -> Buckets \cup {None}] /\ next'[tail] = b /\ next'[b] = None
      /\ \A a \in Buckets : a # b /\ a # tail => next'[a] = next[a]
  <2>1. next' = [next EXCEPT ![tail] = b, ![b] = None]
    BY DEF Fresh
  <2>. QED BY <1>2, <2>1
<1>. QED BY <1>2, <1>3, <1>4, <1>5 DEF FreshFacts

\* A bucket is linked behind the tail, with nobody in the lock.
LEMMA GrowKeeps ==
  ASSUME QueueAssumption, QueueInv, NEW x \in Threads, GrowTail(x)
  PROVE  QueueInv'
<1>1. /\ Shape /\ Outer /\ ChainInv /\ LockInv /\ CursorInv /\ SlotInv /\ MakeInv /\ ReadInv
      /\ ItemInv /\ NoneLeft
  BY DEF QueueInv
<1>2. /\ pc[x] = "grow" /\ shared = {} /\ pc' = [pc EXCEPT ![x] = "emplace"]
      /\ UNCHANGED <<fast, data, shared, reg, emplaced, answer>>
  BY DEF GrowTail, At, Goto, Exclusive
<1>3. pc' \in [Threads -> Labels] /\ pc'[x] = "emplace" /\ \A y \in Threads : y # x => pc'[y] = pc[y]
  BY <1>1, <1>2 DEF Shape, Labels
<1>4. \A y \in Threads : ~Making(y) /\ ~Reading(y) /\ ~Making(y)' /\ ~Reading(y)'
  BY <1>1, <1>2, <1>3 DEF LockInv, Making, Reading
<1>5. \A y \in Threads : \A b, s : /\ ~MakesAt(y, b, s) /\ ~MakesAt(y, b, s)'
                               /\ ~MovesAt(y, b, s) /\ ~MovesAt(y, b, s)' /\ ~ReadsAt(y, s)'
  BY <1>4 DEF MakesAt, MovesAt, Reading, ReadsAt
<1>6. Outer'
  BY <1>1, <1>2 DEF Outer
<1>7. LockInv'
  BY <1>2, <1>4 DEF LockInv
<1>8. MakeInv' /\ ReadInv'
  BY <1>5 DEF MakeInv, ReadInv
<1>9. ItemInv'
  BY <1>1, <1>2, <1>3 DEF ItemInv
<1>10. CASE UNCHANGED <<chain, enqueuePos, dequeuePos, committed>>
  <2>1. UNCHANGED <<head, tail, live, next, enqueuePos, dequeuePos, committed>>
    BY <1>10 DEF chain
  <2>2. Shape'
    BY <2>1, <1>1, <1>2, <1>3 DEF Shape
  <2>3. ChainInv'
    BY <1>1, <2>1, SameChain DEF ChainInv, chain
  <2>4. CursorInv'
    BY <1>1, <2>1, CursorFrame DEF CursorInv
  <2>5. SlotInv'
    BY <1>1, <1>2, <1>5, <2>1, SlotFrame DEF SlotInv
  <2>6. NoneLeft'
    BY <1>1, <1>2, <2>1 DEF NoneLeft
  <2>. QED BY <1>6, <1>7, <1>8, <1>9, <2>2, <2>3, <2>4, <2>5, <2>6 DEF QueueInv
<1>11. CASE enqueuePos[tail] >= PoolSize /\ next[tail] = None /\ head' = head /\ \E b \in Buckets \ live : Fresh(b)
  <2>1. PICK b \in Buckets \ live : Fresh(b)
    BY <1>11
  <2>0. FreshFacts(b)
    BY <1>1, <2>1, FreshIs
  <2>2. /\ tail \in live /\ tail \in Buckets /\ b # tail /\ head \in live /\ live \subseteq Buckets
        /\ enqueuePos \in [Buckets -> Nat] /\ dequeuePos \in [Buckets -> Nat]
        /\ next \in [Buckets -> Buckets \cup {None}] /\ committed \in [Buckets -> [Slots -> Marks]]
    BY <2>0 DEF FreshFacts
  <2>3. /\ live' = live \cup {b} /\ tail' = b /\ head' = head
        /\ enqueuePos' \in [Buckets -> Nat] /\ enqueuePos'[b] = 0
        /\ \A a \in Buckets : a # b => enqueuePos'[a] = enqueuePos[a]
        /\ dequeuePos' \in [Buckets -> Nat] /\ dequeuePos'[b] = 0
        /\ \A a \in Buckets : a # b => dequeuePos'[a] = dequeuePos[a]
    BY <1>11, <2>0 DEF FreshFacts
  <2>4. /\ committed' \in [Buckets -> [Slots -> Marks]] /\ \A s \in Slots : committed'[b][s] = "empty"
        /\ \A a \in Buckets : a # b => committed'[a] = committed[a]
    BY <1>11, <2>0 DEF FreshFacts
  <2>5. /\ next' \in [Buckets -> Buckets \cup {None}] /\ next'[tail] = b /\ next'[b] = None
        /\ \A a \in Buckets : a # b /\ a # tail => next'[a] = next[a]
    BY <1>11, <2>0 DEF FreshFacts
  <2>6. Shape'
    BY <1>1, <1>2, <1>3, <2>1, <2>3, <2>4, <2>5 DEF Shape
  <2>7. ChainInv'
    <3>1. PICK ch, L, ny : ch = Chain /\ L = live /\ ny = next'
      OBVIOUS
    <3>2. Links(ch, head, tail, L, next)
      BY <1>1, <3>1 DEF ChainInv
    <3>3. b \notin L /\ ny[tail] = b /\ ny[b] = None /\ \A a \in L \ {tail} : ny[a] = next[a]
      BY <2>1, <2>2, <2>5, <3>1
    <3>4. Links(Append(ch, b), head, b, L \cup {b}, ny)
      BY <3>2, <3>3, LinksGrow
    <3>5. None \notin L \cup {b}
      BY <2>1, <2>2, <3>1 DEF QueueAssumption
    <3>6. Path(head, L \cup {b}, ny) = Append(ch, b)
      BY <3>4, <3>5, LinksPath
    <3>7. Chain' = Append(ch, b)
      BY <2>3, <3>1, <3>6 DEF Chain
    <3>. QED BY <2>3, <3>1, <3>4, <3>7 DEF ChainInv
  <2>8. CursorInv'
    <3>. SUFFICES ASSUME NEW a \in live \cup {b} PROVE CursorOK(a)'
      BY <2>3 DEF CursorInv
    <3>1. CASE a = b
      BY <3>1, <2>3 DEF CursorOK, QueueAssumption
    <3>2. CASE a # b
      <4>1. CursorOK(a) /\ a \in Buckets
        BY <3>2, <2>2, <1>1 DEF CursorInv
      <4>2. enqueuePos[a] >= PoolSize
        BY <4>1, <1>11 DEF CursorOK
      <4>. QED BY <3>2, <4>1, <4>2, <2>3 DEF CursorOK
    <3>. QED BY <3>1, <3>2
  <2>9. SlotInv'
    <3>. SUFFICES ASSUME NEW a \in live \cup {b}, NEW s \in Slots PROVE SlotOK(a, s)'
      BY <2>3 DEF SlotInv
    <3>1. CASE a = b
      <4>1. data[b][s] = None /\ s >= 0 /\ ~(s < 0)
        BY <1>1, <2>1 DEF NoneLeft, Slots
      <4>. QED BY <3>1, <4>1, <1>2, <2>3, <2>4 DEF SlotOK
    <3>2. CASE a # b
      <4>1. SlotOK(a, s) /\ a \in Buckets
        BY <3>2, <2>2, <1>1 DEF SlotInv
      <4>. QED BY <3>2, <4>1, <2>3, <2>4, <1>2, <1>5, SlotFrame
    <3>. QED BY <3>1, <3>2
  <2>10. NoneLeft'
    BY <1>1, <1>2, <2>3 DEF NoneLeft
  <2>. QED BY <1>6, <1>7, <1>8, <1>9, <2>6, <2>7, <2>8, <2>9, <2>10 DEF QueueInv
<1>12. next[tail] = None
  BY <1>1 DEF ChainInv, Links
<1>. QED BY <1>10, <1>11, <1>12 DEF GrowTail

\* A consumer that neither claims nor moves an element.
LEMMA QuietKeeps ==
  ASSUME QueueAssumption, QueueInv, NEW x \in Threads, Others(x),
         pc' \in [Threads -> Labels], reg' \in [Threads -> Registers],
         answer' \in [Threads -> Seq(Items) \cup {None}],
         ~Making(x), ~Making(x)', pc[x] # "move",
         pc'[x] \notin {"move", "emplace", "grow"},
         shared' \subseteq Threads, x \in shared' <=> Reading(x)', shared' \ {x} = shared \ {x},
         UNCHANGED <<fast, head, tail, live, next, enqueuePos, dequeuePos, committed, data, emplaced>>,
         \A p : ReadsAt(x, p)' => ReadAt(x, p)'
  PROVE  QueueInv'
<1>1. /\ Shape /\ Outer /\ ChainInv /\ LockInv /\ CursorInv /\ SlotInv /\ MakeInv /\ ReadInv
      /\ ItemInv /\ NoneLeft
  BY DEF QueueInv
<1>2. \A y \in Threads : \A b, s : MovesAt(y, b, s) <=> MovesAt(y, b, s)'
  BY DEF MovesAt, Others
<1>3. \A y \in Threads : \A b, s : MakesAt(y, b, s)' <=> MakesAt(y, b, s)
  BY DEF MakesAt, Making, Others
<1>4. Shape'
  BY <1>1 DEF Shape
<1>5. Outer'
  BY <1>1 DEF Outer
<1>6. ChainInv'
  BY <1>1, SameChain DEF ChainInv, chain
<1>7. LockInv'
  <2>. SUFFICES ASSUME NEW y \in Threads PROVE (y \in shared <=> Making(y) \/ Reading(y))'
    BY DEF LockInv
  <2>1. CASE y = x
    BY <2>1
  <2>2. CASE y # x
    <3>1. y \in shared' <=> y \in shared
      BY <2>2
    <3>2. (Making(y) <=> Making(y)') /\ (Reading(y) <=> Reading(y)')
      BY <2>2 DEF Making, Reading, Others
    <3>. QED BY <3>1, <3>2, <1>1 DEF LockInv
  <2>. QED BY <2>1, <2>2
<1>8. CursorInv'
  BY <1>1, CursorFrame DEF CursorInv
<1>9. SlotInv'
  BY <1>1, <1>2, <1>3, SlotFrame DEF SlotInv
<1>10. MakeInv'
  <2>. SUFFICES ASSUME NEW y \in Threads, NEW b, NEW s, MakesAt(y, b, s)' PROVE MakeAt(y, b, s)'
    BY DEF MakeInv
  <2>0. MakesAt(y, b, s)
    BY <1>3
  <2>1. MakesAt(y, b, s) /\ MakeAt(y, b, s) /\ y # x
    <3>1. MakeAt(y, b, s)
      BY <1>1, <2>0 DEF MakeInv
    <3>2. Making(y)
      BY <2>0 DEF MakesAt
    <3>. QED BY <2>0, <3>1, <3>2
  <2>2. b \in live
    BY <2>1 DEF MakeAt
  <2>3. pc'[y] = pc[y] /\ reg'[y] = reg[y]
    BY <2>1 DEF Others
  <2>. QED BY <2>1, <2>2, <2>3, <1>3, MakeFrame
<1>11. ReadInv'
  <2>. SUFFICES ASSUME NEW y \in Threads, NEW p, ReadsAt(y, p)' PROVE ReadAt(y, p)'
    BY DEF ReadInv
  <2>1. CASE y = x
    BY <2>1
  <2>2. CASE y # x
    <3>1. reg'[y] = reg[y] /\ pc'[y] = pc[y] /\ ReadsAt(y, p)
      BY <2>2 DEF Others, Reading, ReadsAt
    <3>2. ReadAt(y, p)
      BY <3>1, <1>1 DEF ReadInv
    <3>. QED BY <3>1, <3>2, <1>2, ReadFrame
  <2>. QED BY <2>1, <2>2
<1>12. ItemInv'
  BY <1>1 DEF ItemInv, Others, Making
<1>13. NoneLeft'
  BY <1>1 DEF NoneLeft
<1>. QED BY <1>4, <1>5, <1>6, <1>7, <1>8, <1>9, <1>10, <1>11, <1>12, <1>13 DEF QueueInv

\* A consumer takes the lock and looks at the head.
LEMMA TryDequeueKeeps ==
  ASSUME QueueAssumption, QueueInv, NEW x \in Threads, TryDequeue(x)
  PROVE  QueueInv'
<1>1. /\ Shape /\ Outer /\ LockInv
  BY DEF QueueInv
<1>2. /\ pc[x] \in {"dequeue", "idle"} /\ pc' = [pc EXCEPT ![x] = "look"]
      /\ reg' = [reg EXCEPT ![x].bucket = head, ![x].pos = dequeuePos[head]]
      /\ shared' = shared \cup {x}
      /\ UNCHANGED <<fast, head, tail, live, next, enqueuePos, dequeuePos, committed, data, emplaced, answer>>
  BY DEF TryDequeue, At, Goto, Lock, chain
<1>3. PICK r \in Registers, h \in Buckets, p \in Nat : r = reg[x] /\ h = head /\ p = dequeuePos[head]
  BY <1>1 DEF Shape
<1>4. PICK q : q = [r EXCEPT !.bucket = h, !.pos = p]
  OBVIOUS
<1>5. q \in Registers /\ q.bucket = h /\ q.pos = p
  BY <1>3, <1>4 DEF Registers
<1>6. reg' = [reg EXCEPT ![x] = q]
  <2>1. reg \in [Threads -> Registers]
    BY <1>1 DEF Shape
  <2>2. reg' = [reg EXCEPT ![x] = [reg[x] EXCEPT !.bucket = head, !.pos = dequeuePos[head]]]
    BY <1>2, <2>1
  <2>. QED BY <1>3, <1>4, <2>2
<1>7. /\ pc' \in [Threads -> Labels] /\ reg' \in [Threads -> Registers]
      /\ pc'[x] = "look" /\ reg'[x] = q /\ Others(x)
  BY <1>1, <1>2, <1>5, <1>6 DEF Shape, Labels, Others
<1>8. ~Making(x) /\ ~Making(x)' /\ Reading(x)' /\ pc[x] # "move"
  BY <1>2, <1>7 DEF Making, Reading
<1>9. ASSUME NEW s, ReadsAt(x, s)' PROVE ReadAt(x, s)'
  <2>1. s = p /\ p <= p
    BY <1>3, <1>5, <1>7, <1>9 DEF ReadsAt
  <2>. QED BY <1>2, <1>3, <1>5, <1>7, <2>1 DEF ReadAt
<1>10. shared' \subseteq Threads /\ x \in shared' /\ shared' \ {x} = shared \ {x}
  BY <1>1, <1>2 DEF Shape
<1>11. answer' \in [Threads -> Seq(Items) \cup {None}] /\ pc'[x] \notin {"move", "emplace", "grow"}
  BY <1>1, <1>2, <1>7 DEF Outer
<1>. QED BY <1>2, <1>7, <1>8, <1>9, <1>10, <1>11, QuietKeeps

\* A consumer looks at its slot.
LEMMA LookKeeps ==
  ASSUME QueueAssumption, QueueInv, NEW x \in Threads, Look(x)
  PROVE  QueueInv'
<1>1. /\ Shape /\ Outer /\ LockInv /\ ReadInv
  BY DEF QueueInv
<1>2. PICK b, p : b = reg[x].bucket /\ p = reg[x].pos
  OBVIOUS
<1>3. /\ pc[x] = "look"
      /\ UNCHANGED <<fast, head, tail, live, next, enqueuePos, dequeuePos, committed, data, emplaced>>
      /\ \/ shared' = shared \ {x} /\ Goto(x, "retire") /\ UNCHANGED <<reg, answer>>
         \/ shared' = shared \ {x} /\ Return(x, None)
         \/ /\ p < PoolSize /\ committed[b][p] # "empty"
            /\ reg' = [reg EXCEPT ![x].state = committed[b][p]]
            /\ Goto(x, "cas")
            /\ UNCHANGED <<shared, answer>>
  BY <1>2 DEF Look, At, Unlock, chain
<1>4. reg \in [Threads -> Registers] /\ pc \in [Threads -> Labels] /\ shared \subseteq Threads
  BY <1>1 DEF Shape
<1>5. answer \in [Threads -> Seq(Items) \cup {None}]
  BY <1>1 DEF Outer
<1>6. ~Making(x) /\ Reading(x) /\ pc[x] # "move" /\ x \in shared
  BY <1>1, <1>3 DEF Making, Reading, LockInv
<1>7. CASE shared' = shared \ {x} /\ Goto(x, "retire") /\ UNCHANGED <<reg, answer>>
  <2>1. pc' \in [Threads -> Labels] /\ pc'[x] = "retire" /\ Others(x)
    BY <1>4, <1>7 DEF Goto, Labels, Others
  <2>2. /\ ~Making(x)' /\ ~Reading(x)' /\ pc'[x] \notin {"move", "emplace", "grow"}
        /\ \A s : ~ReadsAt(x, s)'
    BY <2>1 DEF Making, Reading, ReadsAt
  <2>3. shared' \subseteq Threads /\ x \notin shared' /\ shared' \ {x} = shared \ {x}
    BY <1>4, <1>7
  <2>. QED BY <1>3, <1>4, <1>5, <1>6, <1>7, <2>1, <2>2, <2>3, QuietKeeps
<1>8. CASE shared' = shared \ {x} /\ Return(x, None)
  <2>1. /\ pc' \in [Threads -> Labels] /\ pc'[x] = "idle" /\ Others(x)
        /\ reg' \in [Threads -> Registers]
    BY <1>4, <1>8, NoRegister DEF Return, Goto, Labels, Others
  <2>2. /\ ~Making(x)' /\ ~Reading(x)' /\ pc'[x] \notin {"move", "emplace", "grow"}
        /\ \A s : ~ReadsAt(x, s)'
    BY <2>1 DEF Making, Reading, ReadsAt
  <2>3. shared' \subseteq Threads /\ x \notin shared' /\ shared' \ {x} = shared \ {x}
    BY <1>4, <1>8
  <2>4. answer' \in [Threads -> Seq(Items) \cup {None}]
    BY <1>5, <1>8 DEF Return
  <2>. QED BY <1>3, <1>6, <2>1, <2>2, <2>3, <2>4, QuietKeeps
<1>9. CASE /\ p < PoolSize /\ committed[b][p] # "empty"
           /\ reg' = [reg EXCEPT ![x].state = committed[b][p]]
           /\ Goto(x, "cas")
           /\ UNCHANGED <<shared, answer>>
  <2>1. ReadsAt(x, p) /\ ReadAt(x, p)
    BY <1>1, <1>2, <1>6 DEF ReadInv, ReadsAt
  <2>2. b = head /\ p <= dequeuePos[head] /\ head \in Buckets /\ p \in Slots
    BY <1>1, <1>2, <1>4, <1>9, <2>1 DEF ReadAt, Shape, Slots, QueueAssumption, Registers
  <2>3. PICK m \in Marks : m = committed[b][p]
    BY <1>1, <2>2 DEF Shape
  <2>4. PICK r \in Registers : r = reg[x]
    BY <1>4
  <2>5. PICK q : q = [r EXCEPT !.state = m]
    OBVIOUS
  <2>6. q \in Registers /\ q.bucket = r.bucket /\ q.pos = r.pos /\ q.state = m
    BY <2>5 DEF Registers
  <2>7. reg' = [reg EXCEPT ![x] = q]
    BY <1>4, <1>9, <2>3, <2>4, <2>5
  <2>8. /\ pc' \in [Threads -> Labels] /\ reg' \in [Threads -> Registers]
        /\ pc'[x] = "cas" /\ reg'[x] = q /\ Others(x)
    BY <1>4, <1>9, <2>6, <2>7 DEF Goto, Labels, Others
  <2>9. ~Making(x)' /\ Reading(x)' /\ pc'[x] \notin {"move", "emplace", "grow"}
    BY <2>8 DEF Making, Reading
  <2>10. ASSUME NEW s, ReadsAt(x, s)' PROVE ReadAt(x, s)'
    <3>1. s = p
      BY <1>2, <2>4, <2>6, <2>8, <2>10 DEF ReadsAt
    <3>. QED BY <1>2, <1>3, <1>9, <2>2, <2>3, <2>4, <2>6, <2>8, <3>1 DEF ReadAt
  <2>11. shared' \subseteq Threads /\ x \in shared' /\ shared' \ {x} = shared \ {x}
    BY <1>4, <1>6, <1>9
  <2>. QED BY <1>3, <1>5, <1>6, <1>9, <2>8, <2>9, <2>10, <2>11, QuietKeeps
<1>. QED BY <1>3, <1>7, <1>8, <1>9

\* What a compare-exchange does.
CasFacts(x, p, m) ==
  /\ pc[x] = "cas"
  /\ UNCHANGED <<fast, head, tail, live, next, enqueuePos, committed, data, shared, emplaced, answer>>
  /\ reg[x].bucket = head /\ p \in Slots /\ p \in Nat /\ p <= dequeuePos[head]
  /\ committed[head][p] = m /\ m # "empty"
  /\ pc' \in [Threads -> Labels] /\ reg' \in [Threads -> Registers] /\ Others(x)
  /\ reg'[x].bucket = head /\ reg'[x].item = reg[x].item
  /\ \/ pc'[x] = "look" /\ reg'[x].pos = dequeuePos[head] /\ dequeuePos' = dequeuePos
     \/ /\ dequeuePos[head] = p /\ dequeuePos' = [dequeuePos EXCEPT ![head] = p + 1]
        /\ \/ pc'[x] = "move" /\ reg'[x].pos = p /\ m = "ready"
           \/ pc'[x] = "look" /\ reg'[x].pos = p + 1 /\ m # "ready"

LEMMA CasIs ==
  ASSUME QueueInv, NEW x \in Threads, Cas(x), NEW p, p = reg[x].pos, NEW m, m = reg[x].state
  PROVE  CasFacts(x, p, m)
<1>1. /\ Shape /\ Outer /\ ChainInv /\ LockInv /\ CursorInv /\ SlotInv /\ MakeInv /\ ReadInv
      /\ ItemInv /\ NoneLeft
  BY DEF QueueInv
<1>2. p = reg[x].pos /\ m = reg[x].state
  OBVIOUS
<1>3. /\ reg \in [Threads -> Registers] /\ pc \in [Threads -> Labels] /\ shared \subseteq Threads
      /\ head \in live /\ live \subseteq Buckets
      /\ enqueuePos \in [Buckets -> Nat] /\ dequeuePos \in [Buckets -> Nat] /\ Slots \subseteq Nat
  BY <1>1 DEF Shape, Slots
<1>4. /\ pc[x] = "cas"
      /\ UNCHANGED <<fast, head, tail, live, next, enqueuePos, committed, data, shared, emplaced, answer>>
  BY DEF Cas, At, chain
<1>5. ~Making(x) /\ Reading(x) /\ pc[x] # "move" /\ x \in shared
  BY <1>1, <1>4 DEF Making, Reading, LockInv
<1>6. ReadsAt(x, p) /\ ReadAt(x, p)
  BY <1>1, <1>2, <1>5 DEF ReadInv, ReadsAt
<1>7. /\ reg[x].bucket = head /\ p \in Slots /\ p \in Nat /\ p <= dequeuePos[head]
      /\ committed[head][p] = m /\ m # "empty"
  BY <1>2, <1>3, <1>4, <1>6 DEF ReadAt
<1>8. /\ pc' \in [Threads -> Labels] /\ reg' \in [Threads -> Registers] /\ Others(x)
      /\ reg'[x].bucket = head /\ reg'[x].item = reg[x].item
      /\ \/ pc'[x] = "look" /\ reg'[x].pos = dequeuePos[head] /\ dequeuePos' = dequeuePos
         \/ /\ dequeuePos[head] = p /\ dequeuePos' = [dequeuePos EXCEPT ![head] = p + 1]
            /\ \/ pc'[x] = "move" /\ reg'[x].pos = p /\ m = "ready"
               \/ pc'[x] = "look" /\ reg'[x].pos = p + 1 /\ m # "ready"
  <2>1. PICK r \in Registers, d \in Nat : r = reg[x] /\ d = dequeuePos[head]
    BY <1>3
  <2>2. ASSUME NEW n \in Nat, reg' = [reg EXCEPT ![x].pos = n]
        PROVE  /\ reg' \in [Threads -> Registers] /\ reg'[x].pos = n
               /\ reg'[x].bucket = reg[x].bucket /\ reg'[x].item = reg[x].item
               /\ \A y \in Threads : y # x => reg'[y] = reg[y]
    <3>1. PICK q : q = [r EXCEPT !.pos = n]
      OBVIOUS
    <3>2. q \in Registers /\ q.pos = n /\ q.bucket = r.bucket /\ q.item = r.item
      BY <3>1 DEF Registers
    <3>3. reg' = [reg EXCEPT ![x] = q]
      BY <2>1, <2>2, <3>1
    <3>. QED BY <1>3, <2>1, <3>2, <3>3
  <2>3. \A l \in Labels : Goto(x, l) => /\ pc' \in [Threads -> Labels] /\ pc'[x] = l
                                        /\ \A y \in Threads : y # x => pc'[y] = pc[y]
    BY <1>3 DEF Goto
  <2>4. "look" \in Labels /\ "move" \in Labels
    BY DEF Labels
  <2>5. \/ /\ reg' = [reg EXCEPT ![x].pos = d]
           /\ Goto(x, "look")
           /\ dequeuePos' = dequeuePos
        \/ /\ dequeuePos[head] = p
           /\ dequeuePos' = [dequeuePos EXCEPT ![head] = p + 1]
           /\ m = "ready" /\ Goto(x, "move") /\ reg' = reg
        \/ /\ dequeuePos[head] = p
           /\ dequeuePos' = [dequeuePos EXCEPT ![head] = p + 1]
           /\ Goto(x, "look") /\ reg' = [reg EXCEPT ![x].pos = p + 1] /\ m # "ready"
    BY <1>2, <1>7, <2>1 DEF Cas
  <2>6. CASE /\ reg' = [reg EXCEPT ![x].pos = d]
             /\ Goto(x, "look")
             /\ dequeuePos' = dequeuePos
    BY <2>1, <2>2, <2>3, <2>4, <2>6, <1>7 DEF Others
  <2>7. CASE /\ dequeuePos[head] = p
             /\ dequeuePos' = [dequeuePos EXCEPT ![head] = p + 1]
             /\ m = "ready" /\ Goto(x, "move") /\ reg' = reg
    BY <2>3, <2>4, <2>7, <1>2, <1>3, <1>7 DEF Others
  <2>8. CASE /\ dequeuePos[head] = p
             /\ dequeuePos' = [dequeuePos EXCEPT ![head] = p + 1]
             /\ Goto(x, "look") /\ reg' = [reg EXCEPT ![x].pos = p + 1] /\ m # "ready"
    <3>1. p + 1 \in Nat
      BY <1>7
    <3>. QED BY <2>2, <2>3, <2>4, <2>8, <3>1, <1>7 DEF Others
  <2>. QED BY <2>5, <2>6, <2>7, <2>8
<1>. QED BY <1>4, <1>7, <1>8 DEF CasFacts

\* A consumer claims the slot it looked at, or reloads the cursor.
LEMMA CasKeeps ==
  ASSUME QueueAssumption, QueueInv, NEW x \in Threads, Cas(x)
  PROVE  QueueInv'
<1>1. /\ Shape /\ Outer /\ ChainInv /\ LockInv /\ CursorInv /\ SlotInv /\ MakeInv /\ ReadInv
      /\ ItemInv /\ NoneLeft
  BY DEF QueueInv
<1>2. PICK p, m : p = reg[x].pos /\ m = reg[x].state
  OBVIOUS
<1>3. /\ reg \in [Threads -> Registers] /\ pc \in [Threads -> Labels] /\ shared \subseteq Threads
      /\ head \in live /\ live \subseteq Buckets
      /\ enqueuePos \in [Buckets -> Nat] /\ dequeuePos \in [Buckets -> Nat] /\ Slots \subseteq Nat
  BY <1>1 DEF Shape, Slots
<1>0. CasFacts(x, p, m)
  BY <1>2, CasIs
<1>4. /\ pc[x] = "cas"
      /\ UNCHANGED <<fast, head, tail, live, next, enqueuePos, committed, data, shared, emplaced, answer>>
  BY <1>0 DEF CasFacts
<1>5. ~Making(x) /\ Reading(x) /\ pc[x] # "move" /\ x \in shared
  BY <1>1, <1>4 DEF Making, Reading, LockInv
<1>7. /\ reg[x].bucket = head /\ p \in Slots /\ p \in Nat /\ p <= dequeuePos[head]
      /\ committed[head][p] = m /\ m # "empty"
  BY <1>0 DEF CasFacts
<1>8. /\ pc' \in [Threads -> Labels] /\ reg' \in [Threads -> Registers] /\ Others(x)
      /\ reg'[x].bucket = head /\ reg'[x].item = reg[x].item
      /\ \/ pc'[x] = "look" /\ reg'[x].pos = dequeuePos[head] /\ dequeuePos' = dequeuePos
         \/ /\ dequeuePos[head] = p /\ dequeuePos' = [dequeuePos EXCEPT ![head] = p + 1]
            /\ \/ pc'[x] = "move" /\ reg'[x].pos = p /\ m = "ready"
               \/ pc'[x] = "look" /\ reg'[x].pos = p + 1 /\ m # "ready"
  BY <1>0 DEF CasFacts
<1>9. CASE pc'[x] = "look" /\ reg'[x].pos = dequeuePos[head] /\ dequeuePos' = dequeuePos
  <2>1. ~Making(x)' /\ Reading(x)' /\ pc'[x] \notin {"move", "emplace", "grow"}
    BY <1>9 DEF Making, Reading
  <2>2. ASSUME NEW s, ReadsAt(x, s)' PROVE ReadAt(x, s)'
    <3>1. PICK d \in Nat : d = dequeuePos[head]
      BY <1>3
    <3>0. d <= d
      BY <3>1
    <3>2. s = d /\ d <= d
      BY <1>9, <2>2, <3>0, <3>1 DEF ReadsAt
    <3>. QED BY <1>4, <1>8, <1>9, <3>1, <3>2 DEF ReadAt
  <2>3. shared' \subseteq Threads /\ x \in shared' /\ shared' \ {x} = shared \ {x}
    BY <1>3, <1>4, <1>5
  <2>4. answer' \in [Threads -> Seq(Items) \cup {None}]
    BY <1>1, <1>4 DEF Outer
  <2>. QED BY <1>4, <1>5, <1>8, <1>9, <2>1, <2>2, <2>3, <2>4, QuietKeeps
<1>10. CASE /\ dequeuePos[head] = p /\ dequeuePos' = [dequeuePos EXCEPT ![head] = p + 1]
            /\ \/ pc'[x] = "move" /\ reg'[x].pos = p /\ m = "ready"
               \/ pc'[x] = "look" /\ reg'[x].pos = p + 1 /\ m # "ready"
  <2>1. /\ dequeuePos' \in [Buckets -> Nat] /\ dequeuePos'[head] = p + 1
        /\ \A b \in Buckets : b # head => dequeuePos'[b] = dequeuePos[b]
    BY <1>3, <1>7, <1>10
  <2>2. p < PoolSize /\ CursorOK(head) /\ SlotOK(head, p)
    BY <1>1, <1>3, <1>7 DEF Slots, CursorInv, SlotInv, QueueAssumption
  <2>3. p < enqueuePos[head]
    <3>1. ~(p >= enqueuePos[head])
      BY <1>7, <2>2 DEF SlotOK
    <3>. QED BY <1>3, <1>7, <3>1
  <2>4. ~\E y \in Threads : MakesAt(y, head, p)
    BY <1>1, <1>7 DEF MakeInv, MakeAt
  <2>5. \A y \in Threads : ~MovesAt(y, head, p)
    <3>. SUFFICES ASSUME NEW y \in Threads, MovesAt(y, head, p) PROVE FALSE
      OBVIOUS
    <3>1. ReadsAt(y, p) /\ pc[y] = "move"
      BY DEF ReadsAt, MovesAt, Reading
    <3>2. ReadAt(y, p)
      BY <1>1, <3>1 DEF ReadInv
    <3>. QED BY <1>3, <1>7, <1>10, <3>1, <3>2 DEF ReadAt
  <2>6. ~Making(x)' /\ Reading(x)' /\ pc'[x] \notin {"emplace", "grow"}
    BY <1>10 DEF Making, Reading
  <2>7. \A y \in Threads : \A b, s : MakesAt(y, b, s)' <=> MakesAt(y, b, s)
    BY <1>5, <1>8, <2>6 DEF MakesAt, Making, Others
  <2>8. \A y \in Threads : \A b, s : MovesAt(y, b, s) => MovesAt(y, b, s)'
    BY <1>5, <1>8 DEF MovesAt, Others
  <2>9. \A y \in Threads : \A b, s : MovesAt(y, b, s)' => MovesAt(y, b, s) \/ (y = x /\ b = head /\ s = p)
    <3>. SUFFICES ASSUME NEW y \in Threads, NEW b, NEW s, MovesAt(y, b, s)', ~MovesAt(y, b, s)
                  PROVE  y = x /\ b = head /\ s = p
      OBVIOUS
    <3>1. y = x
      BY <1>8 DEF MovesAt, Others
    <3>. QED BY <3>1, <1>8, <1>10 DEF MovesAt
  <2>10. Shape'
    BY <1>1, <1>4, <1>8, <2>1 DEF Shape
  <2>11. Outer'
    BY <1>1, <1>4 DEF Outer
  <2>12. ChainInv'
    BY <1>1, <1>4, SameChain DEF ChainInv, chain
  <2>13. LockInv'
    BY <1>1, <1>4, <1>5, <1>8, <2>6 DEF LockInv, Making, Reading, Others
  <2>14. CursorInv'
    <3>. SUFFICES ASSUME NEW b \in live PROVE CursorOK(b)'
      BY <1>4 DEF CursorInv
    <3>1. CursorOK(b) /\ b \in Buckets
      BY <1>1, <1>3 DEF CursorInv
    <3>2. CASE b # head
      BY <1>4, <2>1, <3>1, <3>2, CursorFrame
    <3>3. CASE b = head
      <4>1. p + 1 <= enqueuePos[head] /\ p + 1 <= PoolSize
        BY <1>3, <1>7, <2>2, <2>3 DEF QueueAssumption
      <4>. QED BY <1>4, <2>1, <3>1, <3>3, <4>1 DEF CursorOK
    <3>. QED BY <3>2, <3>3
  <2>15. SlotInv'
    <3>. SUFFICES ASSUME NEW b \in live, NEW s \in Slots PROVE SlotOK(b, s)'
      BY <1>4 DEF SlotInv
    <3>1. SlotOK(b, s) /\ b \in Buckets /\ s \in Nat
      BY <1>1, <1>3 DEF SlotInv
    <3>2. CASE b # head
      BY <1>4, <2>1, <2>7, <2>8, <3>1, <3>2, SlotFrame
    <3>3. CASE b = head /\ s # p
      <4>1. (s < dequeuePos'[b] <=> s < dequeuePos[b]) /\ (s >= dequeuePos'[b] <=> s >= dequeuePos[b])
        BY <1>7, <1>10, <2>1, <3>1, <3>3
      <4>. QED BY <1>4, <2>7, <2>8, <3>1, <4>1 DEF SlotOK
    <3>4. CASE b = head /\ s = p
      <4>1. s >= dequeuePos[b] /\ ~(s >= dequeuePos'[b]) /\ ~(s >= enqueuePos[b])
        BY <1>3, <1>7, <1>10, <2>1, <2>3, <3>1, <3>4
      <4>2. m = "ready" => MovesAt(x, b, s)' \/ data[b][s] = None
        <5>1. CASE pc'[x] = "move"
          BY <1>8, <1>10, <3>4, <5>1 DEF MovesAt
        <5>2. CASE m # "ready"
          BY <5>2
        <5>. QED BY <5>1, <5>2, <1>10
      <4>3. m \in Marks
        BY <1>2, <1>3 DEF Registers
      <4>4. data[b][s] = None \/ MovesAt(x, b, s)'
        BY <1>7, <3>1, <3>4, <4>2, <4>3 DEF SlotOK, Marks
      <4>. QED BY <1>4, <1>7, <3>1, <3>4, <4>1, <4>4 DEF SlotOK
    <3>. QED BY <3>2, <3>3, <3>4
  <2>16. MakeInv'
    <3>. SUFFICES ASSUME NEW y \in Threads, NEW b, NEW s, MakesAt(y, b, s)' PROVE MakeAt(y, b, s)'
      BY DEF MakeInv
    <3>0. MakesAt(y, b, s)
      BY <2>7
    <3>1. MakeAt(y, b, s) /\ y # x
      BY <1>1, <1>5, <3>0 DEF MakeInv, MakesAt
    <3>2. b \in live /\ b \in Buckets /\ s \in Slots /\ s \in Nat /\ dequeuePos[b] <= s
      BY <1>3, <3>1 DEF MakeAt
    <3>3. ~(b = head /\ s = p)
      BY <2>4, <3>0
    <3>4. dequeuePos'[b] <= s
      BY <1>7, <1>10, <2>1, <3>2, <3>3
    <3>5. pc'[y] = pc[y] /\ reg'[y] = reg[y]
      BY <1>8, <3>1 DEF Others
    <3>. QED BY <1>4, <2>7, <3>1, <3>4, <3>5 DEF MakeAt
  <2>17. ReadInv'
    <3>. SUFFICES ASSUME NEW y \in Threads, NEW s, ReadsAt(y, s)' PROVE ReadAt(y, s)'
      BY DEF ReadInv
    <3>1. CASE y # x
      <4>1. reg'[y] = reg[y] /\ pc'[y] = pc[y] /\ ReadsAt(y, s)
        BY <1>8, <3>1 DEF Others, Reading, ReadsAt
      <4>2. ReadAt(y, s)
        BY <1>1, <4>1 DEF ReadInv
      <4>3. s \in Nat
        BY <1>3, <4>1 DEF ReadsAt, Registers
      <4>4. s <= dequeuePos'[head] /\ (s < dequeuePos[head] => s < dequeuePos'[head])
        BY <1>7, <1>10, <2>1, <4>2, <4>3 DEF ReadAt
      <4>5. pc[y] = "move" => s # p
        BY <2>5, <4>1, <4>2 DEF ReadAt, ReadsAt, MovesAt
      <4>6. ASSUME pc[y] = "move", NEW z \in Threads, MovesAt(z, head, s)' PROVE z = y
        <5>1. MovesAt(z, head, s)
          BY <1>4, <2>9, <4>5, <4>6 DEF MovesAt
        <5>. QED BY <5>1, <4>2, <4>6 DEF ReadAt
      <4>. QED BY <1>4, <4>1, <4>2, <4>4, <4>6 DEF ReadAt
    <3>2. CASE y = x /\ pc'[x] = "look"
      <4>1. s = p + 1 /\ p + 1 <= p + 1
        BY <1>7, <1>10, <3>2 DEF ReadsAt
      <4>. QED BY <1>4, <1>8, <2>1, <3>2, <4>1 DEF ReadAt
    <3>3. CASE y = x /\ pc'[x] = "move"
      <4>1. s = p /\ m = "ready" /\ p <= p + 1 /\ p < p + 1
        BY <1>7, <1>10, <3>3 DEF ReadsAt
      <4>2. data[head][p] \in Items
        <5>1. p >= dequeuePos[head]
          BY <1>7, <1>10
        <5>. QED BY <1>7, <2>2, <4>1, <5>1 DEF SlotOK
      <4>3. ASSUME NEW z \in Threads, MovesAt(z, head, p)' PROVE z = x
        <5>1. ~MovesAt(z, head, p)
          BY <2>5
        <5>. QED BY <1>4, <2>9, <4>3, <5>1 DEF MovesAt
      <4>. QED BY <1>4, <1>7, <1>8, <2>1, <3>3, <4>1, <4>2, <4>3 DEF ReadAt
    <3>. QED BY <3>1, <3>2, <3>3, <1>10
  <2>18. ItemInv'
    BY <1>1, <1>8, <2>6 DEF ItemInv, Others, Making
  <2>19. NoneLeft'
    BY <1>1, <1>4 DEF NoneLeft
  <2>. QED BY <2>10, <2>11, <2>12, <2>13, <2>14, <2>15, <2>16, <2>17, <2>18, <2>19 DEF QueueInv
<1>. QED BY <1>8, <1>9, <1>10

\* The element is moved out.
LEMMA MoveKeeps ==
  ASSUME QueueAssumption, QueueInv, NEW x \in Threads, Move(x)
  PROVE  QueueInv'
<1>1. /\ Shape /\ Outer /\ ChainInv /\ LockInv /\ CursorInv /\ SlotInv /\ MakeInv /\ ReadInv
      /\ ItemInv /\ NoneLeft
  BY DEF QueueInv
<1>2. PICK p : p = reg[x].pos
  OBVIOUS
<1>3. /\ reg \in [Threads -> Registers] /\ pc \in [Threads -> Labels] /\ shared \subseteq Threads
      /\ head \in live /\ live \subseteq Buckets
      /\ dequeuePos \in [Buckets -> Nat] /\ Slots \subseteq Nat
      /\ data \in [Buckets -> [Slots -> Items \cup {None}]]
  BY <1>1 DEF Shape, Slots
<1>4. /\ pc[x] = "move" /\ Return(x, <<data[reg[x].bucket][p]>>)
      /\ data' = [data EXCEPT ![reg[x].bucket][p] = None] /\ shared' = shared \ {x}
      /\ UNCHANGED <<fast, head, tail, live, next, enqueuePos, dequeuePos, committed, emplaced>>
  BY <1>2 DEF Move, At, Unlock, chain
<1>5. ~Making(x) /\ Reading(x)
  BY <1>4 DEF Making, Reading
<1>6. ReadsAt(x, p) /\ ReadAt(x, p)
  BY <1>1, <1>2, <1>5 DEF ReadInv, ReadsAt
<1>7. /\ reg[x].bucket = head /\ p \in Slots /\ p \in Nat /\ p < dequeuePos[head]
      /\ committed[head][p] = "ready" /\ data[head][p] \in Items
      /\ \A y \in Threads : MovesAt(y, head, p) => y = x
  BY <1>3, <1>4, <1>6 DEF ReadAt
<1>8. /\ pc' \in [Threads -> Labels] /\ reg' \in [Threads -> Registers]
      /\ pc'[x] = "idle" /\ Others(x)
      /\ answer' = [answer EXCEPT ![x] = <<data[head][p]>>]
  BY <1>3, <1>4, <1>7, NoRegister DEF Return, Goto, Labels, Others
<1>9. /\ data' \in [Buckets -> [Slots -> Items \cup {None}]] /\ data'[head][p] = None
      /\ \A b \in Buckets : \A s \in Slots : ~(b = head /\ s = p) => data'[b][s] = data[b][s]
  <2>1. data' = [data EXCEPT ![head][p] = None]
    BY <1>4, <1>7
  <2>. QED BY <2>1, <1>3, <1>7
<1>10. ~Making(x)' /\ ~Reading(x)' /\ pc'[x] \notin {"emplace", "grow"}
  BY <1>8 DEF Making, Reading
<1>11. \A y \in Threads : \A b, s : MakesAt(y, b, s)' <=> MakesAt(y, b, s)
  BY <1>5, <1>8, <1>10 DEF MakesAt, Making, Others
<1>12. \A y \in Threads : \A b, s : MovesAt(y, b, s)' => MovesAt(y, b, s)
  BY <1>8 DEF MovesAt, Others
<1>13. \A y \in Threads : \A b, s : MovesAt(y, b, s) /\ ~(b = head /\ s = p) => MovesAt(y, b, s)'
  BY <1>2, <1>7, <1>8 DEF MovesAt, Others
<1>14. Shape'
  <2>1. shared' \subseteq Threads
    BY <1>3, <1>4
  <2>. QED BY <1>1, <1>4, <1>8, <1>9, <2>1 DEF Shape
<1>15. Outer'
  <2>1. PICK i \in Items : i = data[head][p]
    BY <1>7
  <2>2. <<i>> \in Seq(Items)
    OBVIOUS
  <2>3. answer' \in [Threads -> Seq(Items) \cup {None}]
    BY <1>1, <1>8, <2>1, <2>2 DEF Outer
  <2>. QED BY <1>1, <1>4, <2>3 DEF Outer
<1>16. ChainInv'
  BY <1>1, <1>4, SameChain DEF ChainInv, chain
<1>17. LockInv'
  BY <1>1, <1>4, <1>8, <1>10 DEF LockInv, Making, Reading, Others
<1>18. CursorInv'
  BY <1>1, <1>4, CursorFrame DEF CursorInv
<1>19. SlotInv'
  <2>. SUFFICES ASSUME NEW b \in live, NEW s \in Slots PROVE SlotOK(b, s)'
    BY <1>4 DEF SlotInv
  <2>1. SlotOK(b, s) /\ b \in Buckets /\ s \in Nat
    BY <1>1, <1>3 DEF SlotInv
  <2>2. CASE ~(b = head /\ s = p)
    BY <1>4, <1>9, <1>11, <1>13, <2>1, <2>2, SlotFrame
  <2>3. CASE b = head /\ s = p
    <3>1. ~(s >= dequeuePos[b])
      BY <1>3, <1>7, <2>1, <2>3
    <3>. QED BY <1>4, <1>7, <1>9, <1>11, <2>1, <2>3, <3>1 DEF SlotOK
  <2>. QED BY <2>2, <2>3
<1>20. MakeInv'
  <2>. SUFFICES ASSUME NEW y \in Threads, NEW b, NEW s, MakesAt(y, b, s)' PROVE MakeAt(y, b, s)'
    BY DEF MakeInv
  <2>0. MakesAt(y, b, s)
    BY <1>11
  <2>1. MakeAt(y, b, s) /\ y # x
    BY <1>1, <1>5, <2>0 DEF MakeInv, MakesAt
  <2>2. b \in live /\ b \in Buckets /\ s \in Slots /\ committed[b][s] = "empty"
    BY <1>3, <2>1 DEF MakeAt
  <2>3. data'[b][s] = data[b][s]
    BY <1>7, <1>9, <2>2
  <2>4. pc'[y] = pc[y] /\ reg'[y] = reg[y]
    BY <1>8, <2>1 DEF Others
  <2>. QED BY <1>4, <1>11, <2>1, <2>2, <2>3, <2>4, MakeFrame
<1>21. ReadInv'
  <2>. SUFFICES ASSUME NEW y \in Threads, NEW s, ReadsAt(y, s)' PROVE ReadAt(y, s)'
    BY DEF ReadInv
  <2>0. y # x
    BY <1>10 DEF ReadsAt
  <2>1. reg'[y] = reg[y] /\ pc'[y] = pc[y] /\ ReadsAt(y, s)
    BY <1>8, <2>0 DEF Others, Reading, ReadsAt
  <2>2. ReadAt(y, s)
    BY <1>1, <2>1 DEF ReadInv
  <2>3. CASE s # p
    BY <1>3, <1>4, <1>9, <1>12, <2>1, <2>2, <2>3, ReadFrame
  <2>4. CASE s = p
    <3>1. pc[y] # "move"
      BY <1>7, <2>0, <2>1, <2>2, <2>4 DEF ReadAt, ReadsAt, MovesAt
    <3>. QED BY <1>4, <2>1, <2>2, <3>1 DEF ReadAt
  <2>. QED BY <2>3, <2>4
<1>22. ItemInv'
  BY <1>1, <1>8, <1>10 DEF ItemInv, Others, Making
<1>23. NoneLeft'
  BY <1>1, <1>3, <1>4, <1>9 DEF NoneLeft
<1>. QED BY <1>14, <1>15, <1>16, <1>17, <1>18, <1>19, <1>20, <1>21, <1>22, <1>23 DEF QueueInv

\* The head bucket is freed, with nobody in the lock.
LEMMA RetireKeeps ==
  ASSUME QueueAssumption, QueueInv, NEW x \in Threads, RetireHead(x)
  PROVE  QueueInv'
<1>1. /\ Shape /\ Outer /\ ChainInv /\ LockInv /\ CursorInv /\ SlotInv /\ MakeInv /\ ReadInv
      /\ ItemInv /\ NoneLeft
  BY DEF QueueInv
<1>2. /\ pc[x] = "retire" /\ shared = {} /\ pc' = [pc EXCEPT ![x] = "dequeue"]
      /\ UNCHANGED <<fast, enqueuePos, dequeuePos, committed, data, shared, reg, emplaced, answer>>
      /\ \/ UNCHANGED <<head, tail, live, next>>
         \/ /\ ~(dequeuePos[head] < PoolSize) /\ next[head] # None
            /\ head' = next[head] /\ live' = live \ {head} /\ UNCHANGED <<tail, next>>
  BY DEF RetireHead, At, Goto, Exclusive, chain
<1>3. pc' \in [Threads -> Labels] /\ pc'[x] = "dequeue" /\ \A y \in Threads : y # x => pc'[y] = pc[y]
  BY <1>1, <1>2 DEF Shape, Labels
<1>4. \A y \in Threads : ~Making(y) /\ ~Reading(y) /\ ~Making(y)' /\ ~Reading(y)'
  BY <1>1, <1>2, <1>3 DEF LockInv, Making, Reading
<1>5. \A y \in Threads : \A b, s : /\ ~MakesAt(y, b, s) /\ ~MakesAt(y, b, s)'
                               /\ ~MovesAt(y, b, s) /\ ~MovesAt(y, b, s)' /\ ~ReadsAt(y, s)'
  BY <1>4 DEF MakesAt, MovesAt, Reading, ReadsAt
<1>6. Outer'
  BY <1>1, <1>2 DEF Outer
<1>7. LockInv'
  BY <1>2, <1>4 DEF LockInv
<1>8. MakeInv' /\ ReadInv'
  BY <1>5 DEF MakeInv, ReadInv
<1>9. ItemInv'
  BY <1>1, <1>2, <1>3 DEF ItemInv
<1>10. CASE UNCHANGED <<head, tail, live, next>>
  <2>1. Shape'
    BY <1>10, <1>1, <1>2, <1>3 DEF Shape
  <2>2. ChainInv'
    BY <1>1, <1>10, SameChain DEF ChainInv, chain
  <2>3. CursorInv'
    BY <1>1, <1>2, <1>10, CursorFrame DEF CursorInv
  <2>4. SlotInv'
    BY <1>1, <1>2, <1>5, <1>10, SlotFrame DEF SlotInv
  <2>5. NoneLeft'
    BY <1>1, <1>2, <1>10 DEF NoneLeft
  <2>. QED BY <1>6, <1>7, <1>8, <1>9, <2>1, <2>2, <2>3, <2>4, <2>5 DEF QueueInv
<1>11. CASE /\ ~(dequeuePos[head] < PoolSize) /\ next[head] # None
            /\ head' = next[head] /\ live' = live \ {head} /\ UNCHANGED <<tail, next>>
  <2>1. PICK ch, L, nx, n : ch = Chain /\ L = live /\ nx = next /\ n = next[head]
    OBVIOUS
  <2>2. Links(ch, head, tail, L, nx)
    BY <1>1, <2>1 DEF ChainInv
  <2>3. n \in L \ {head} /\ tail \in L \ {head} /\ Links(Tail(ch), n, tail, L \ {head}, nx)
    BY <1>11, <2>1, <2>2, LinksRetire
  <2>4. None \notin L \ {head}
    BY <1>1, <2>1 DEF QueueAssumption, Shape
  <2>5. Path(n, L \ {head}, nx) = Tail(ch)
    BY <2>3, <2>4, LinksPath
  <2>6. head' = n /\ live' = L \ {head} /\ tail' = tail /\ next' = nx
    BY <1>11, <2>1
  <2>7. Chain' = Tail(ch)
    BY <2>5, <2>6 DEF Chain
  <2>8. Shape'
    BY <1>1, <1>2, <1>3, <1>11, <2>1, <2>3, <2>6 DEF Shape
  <2>9. ChainInv'
    BY <2>3, <2>6, <2>7 DEF ChainInv
  <2>10. /\ head \in live /\ head \in Buckets /\ live \subseteq Buckets /\ n # head
         /\ enqueuePos \in [Buckets -> Nat] /\ dequeuePos \in [Buckets -> Nat] /\ PoolSize \in Nat
         /\ data \in [Buckets -> [Slots -> Items \cup {None}]]
    BY <1>1, <2>3 DEF Shape, QueueAssumption
  <2>11. CursorInv'
    <3>. SUFFICES ASSUME NEW b \in L \ {head} PROVE CursorOK(b)'
      BY <2>6 DEF CursorInv
    <3>1. CursorOK(b)
      BY <1>1, <2>1 DEF CursorInv
    <3>. QED BY <3>1, <1>2, <2>6, <2>10 DEF CursorOK
  <2>12. SlotInv'
    BY <1>1, <1>2, <1>5, <2>1, <2>6, SlotFrame DEF SlotInv
  <2>13. NoneLeft'
    <3>. SUFFICES ASSUME NEW b \in Buckets \ live', NEW s \in Slots PROVE data[b][s] = None
      BY <1>2 DEF NoneLeft
    <3>1. CASE b = head
      <4>1. SlotOK(b, s) /\ CursorOK(b)
        BY <1>1, <2>10, <3>1 DEF SlotInv, CursorInv
      <4>2. s < dequeuePos[b]
        BY <1>11, <2>10, <3>1 DEF Slots
      <4>. QED BY <4>1, <4>2, <1>5 DEF SlotOK
    <3>2. CASE b # head
      BY <1>1, <2>1, <2>6, <3>2 DEF NoneLeft
    <3>. QED BY <3>1, <3>2
  <2>. QED BY <1>6, <1>7, <1>8, <1>9, <2>8, <2>9, <2>11, <2>12, <2>13 DEF QueueInv
<1>. QED BY <1>2, <1>10, <1>11

\* What the claimed slots of the chain hold has the type of their contents.
LEMMA InChainType ==
  ASSUME QueueAssumption, QueueInv, NEW S, NEW content,
         \A b \in live : \A s \in Slots :
           dequeuePos[b] <= s /\ s < enqueuePos[b] => content[b][s] \in S
  PROVE  InChain(content) \in Seq(S)
<1>1. Shape /\ ChainInv /\ CursorInv
  BY DEF QueueInv
<1>2. PICK ch : ch = Chain
  OBVIOUS
<1>3. ch \in Seq(live)
  BY <1>1, <1>2 DEF ChainInv, Links
<1>4. PICK f : f = [n \in DOMAIN ch |-> InBucket(content, ch[n])]
  OBVIOUS
<1>5. Len(ch) \in Nat /\ DOMAIN ch = 1 .. Len(ch) /\ \A n \in 1 .. Len(ch) : ch[n] \in live
  BY <1>3
<1>6. \A n \in 1 .. Len(ch) : f[n] \in Seq(S)
  <2>. SUFFICES ASSUME NEW n \in 1 .. Len(ch) PROVE f[n] \in Seq(S)
    OBVIOUS
  <2>1. PICK b \in live : b = ch[n]
    BY <1>5
  <2>2. f[n] = InBucket(content, b)
    BY <1>4, <1>5, <2>1
  <2>3. PICK d, e : d = dequeuePos[b] /\ e = Claimed(b)
    OBVIOUS
  <2>a. PICK q \in Nat : q = enqueuePos[b]
    BY <1>1 DEF Shape
  <2>4. d \in Nat /\ e \in Nat /\ d <= e /\ e <= PoolSize /\ e <= q /\ PoolSize \in Nat
    BY <1>1, <2>3, <2>a DEF Shape, CursorInv, CursorOK, Claimed, Min2, QueueAssumption
  <2>5. PICK k \in Nat : k = e - d
    BY <2>4
  <2>6. InBucket(content, b) = [i \in 1 .. k |-> content[b][d + i - 1]]
    BY <2>3, <2>5 DEF InBucket
  <2>7. \A i \in 1 .. k : d + i - 1 \in Slots /\ d <= d + i - 1 /\ d + i - 1 < q
    BY <2>4, <2>5, <2>a DEF Slots
  <2>8. \A i \in 1 .. k : content[b][d + i - 1] \in S
    BY <2>3, <2>7, <2>a
  <2>9. [i \in 1 .. k |-> content[b][d + i - 1]] \in Seq(S)
    BY <2>8
  <2>. QED BY <2>2, <2>6, <2>9
<1>7. f = [n \in 1 .. Len(ch) |-> f[n]]
  BY <1>4, <1>5
<1>8. f \in Seq(Seq(S))
  BY <1>5, <1>6, <1>7
<1>9. FlattenSeq(f) \in Seq(S)
  BY <1>8, FlatType
<1>. QED BY <1>2, <1>4, <1>9 DEF InChain

\* for_each sees elements.
LEMMA ForEachKeeps ==
  ASSUME QueueAssumption, QueueInv, NEW x \in Threads, ForEach(x)
  PROVE  QueueInv'
<1>1. /\ Shape /\ Outer /\ LockInv /\ SlotInv /\ CursorInv
  BY DEF QueueInv
<1>2. PICK seen : seen = [b \in Buckets |-> [p \in Slots |->
                            IF committed[b][p] = "ready" THEN <<data[b][p]>> ELSE <<>>]]
  OBVIOUS
<1>3. /\ AllIdle /\ Return(x, FlattenSeq(InChain(seen)))
      /\ UNCHANGED <<fast, head, tail, live, next, enqueuePos, dequeuePos, committed, data, shared, emplaced>>
  BY <1>2 DEF ForEach, chain
<1>4. /\ pc' \in [Threads -> Labels] /\ pc'[x] = "idle" /\ Others(x)
      /\ reg' \in [Threads -> Registers]
  BY <1>1, <1>3, NoRegister DEF Return, Goto, Labels, Others, Shape
<1>5. ~Making(x) /\ ~Reading(x) /\ pc[x] # "move"
  BY <1>3 DEF AllIdle, At, Making, Reading
<1>6. /\ ~Making(x)' /\ ~Reading(x)' /\ pc'[x] \notin {"move", "emplace", "grow"}
      /\ \A s : ~ReadsAt(x, s)'
  BY <1>4 DEF Making, Reading, ReadsAt
<1>7. shared' \subseteq Threads /\ x \notin shared' /\ shared' \ {x} = shared \ {x}
  BY <1>1, <1>3, <1>5 DEF LockInv, Shape
<1>8. \A y \in Threads : \A b, s : ~MovesAt(y, b, s)
  BY <1>3 DEF AllIdle, At, MovesAt
<1>9. \A b \in live : \A s \in Slots :
        dequeuePos[b] <= s /\ s < enqueuePos[b] => seen[b][s] \in Seq(Items)
  <2>. SUFFICES ASSUME NEW b \in live, NEW s \in Slots, dequeuePos[b] <= s PROVE seen[b][s] \in Seq(Items)
    OBVIOUS
  <2>1. b \in Buckets /\ dequeuePos[b] \in Nat /\ s \in Nat
    BY <1>1 DEF Shape, Slots
  <2>2. seen[b][s] = IF committed[b][s] = "ready" THEN <<data[b][s]>> ELSE <<>>
    BY <1>2, <2>1
  <2>3. CASE committed[b][s] = "ready"
    <3>1. s >= dequeuePos[b] /\ SlotOK(b, s)
      BY <1>1, <2>1 DEF SlotInv
    <3>2. data[b][s] \in Items
      BY <2>3, <3>1 DEF SlotOK
    <3>. QED BY <2>2, <2>3, <3>2
  <2>4. CASE committed[b][s] # "ready"
    BY <2>2, <2>4
  <2>. QED BY <2>3, <2>4
<1>10. InChain(seen) \in Seq(Seq(Items))
  BY <1>9, InChainType
<1>11. PICK z : z = FlattenSeq(InChain(seen))
  OBVIOUS
<1>12. z \in Seq(Items)
  BY <1>10, <1>11, FlatType
<1>13. answer' \in [Threads -> Seq(Items) \cup {None}]
  BY <1>1, <1>3, <1>11, <1>12 DEF Outer, Return
<1>. QED BY <1>3, <1>4, <1>5, <1>6, <1>7, <1>13, QuietKeeps

\* The queue is as new.
LEMMA ClearKeeps ==
  ASSUME QueueAssumption, QueueInv, Clear
  PROVE  QueueInv'
<1>1. /\ Shape /\ Outer /\ ChainInv /\ LockInv /\ CursorInv /\ SlotInv /\ MakeInv /\ ReadInv
      /\ ItemInv /\ NoneLeft
  BY DEF QueueInv
<1>2. /\ AllIdle /\ live' = {head} /\ tail' = head
      /\ data' = [b \in Buckets |-> [s \in Slots |->
                   IF /\ b \in live
                      /\ dequeuePos[b] <= s /\ s < Claimed(b) /\ committed[b][s] = "ready"
                     THEN None ELSE data[b][s]]]
      /\ committed' = [committed EXCEPT ![head] = [s \in Slots |->
                        IF s < Claimed(head) THEN "empty" ELSE committed[head][s]]]
      /\ enqueuePos' = [enqueuePos EXCEPT ![head] = 0]
      /\ dequeuePos' = [dequeuePos EXCEPT ![head] = 0]
      /\ next' = [next EXCEPT ![head] = None]
      /\ UNCHANGED <<fast, head, shared, pc, reg, emplaced, answer>>
  BY DEF Clear
<1>3. /\ head \in live /\ head \in Buckets /\ live \subseteq Buckets /\ PoolSize \in Nat
      /\ enqueuePos \in [Buckets -> Nat] /\ dequeuePos \in [Buckets -> Nat]
      /\ next \in [Buckets -> Buckets \cup {None}]
      /\ committed \in [Buckets -> [Slots -> Marks]]
      /\ data \in [Buckets -> [Slots -> Items \cup {None}]]
      /\ Slots \subseteq Nat /\ \A s \in Slots : s < PoolSize
  BY <1>1 DEF Shape, QueueAssumption, Slots
<1>4. \A y \in Threads : ~Making(y) /\ ~Reading(y) /\ ~Making(y)' /\ ~Reading(y)'
  BY <1>2 DEF AllIdle, At, Making, Reading
<1>5. \A y \in Threads : \A b, s : /\ ~MakesAt(y, b, s) /\ ~MakesAt(y, b, s)'
                               /\ ~MovesAt(y, b, s) /\ ~MovesAt(y, b, s)' /\ ~ReadsAt(y, s)'
  BY <1>4 DEF MakesAt, MovesAt, Reading, ReadsAt
<1>6. \A b \in Buckets : \A s \in Slots : data'[b][s] = IF /\ b \in live
                      /\ dequeuePos[b] <= s /\ s < Claimed(b) /\ committed[b][s] = "ready"
                     THEN None ELSE data[b][s]
  BY <1>2
<1>7. \A b \in live : \A s \in Slots : data'[b][s] = None
  <2>. SUFFICES ASSUME NEW b \in live, NEW s \in Slots PROVE data'[b][s] = None
    OBVIOUS
  <2>1. SlotOK(b, s) /\ b \in Buckets /\ s \in Nat /\ s < PoolSize
    BY <1>1, <1>3 DEF SlotInv
  <2>2. PICK d \in Nat, e \in Nat : d = dequeuePos[b] /\ e = enqueuePos[b]
    BY <1>3, <2>1
  <2>3. s < d \/ s >= e \/ (d <= s /\ s < Claimed(b) /\ s < e)
    <3>1. s < d \/ s >= e \/ (d <= s /\ s < e)
      BY <2>1, <2>2
    <3>2. s < e => s < Claimed(b)
      BY <2>1, <2>2 DEF Claimed, Min2
    <3>. QED BY <3>1, <3>2
  <2>4. CASE s < d
    BY <1>5, <1>6, <2>1, <2>2, <2>4 DEF SlotOK
  <2>5. CASE s >= e
    BY <1>6, <2>1, <2>2, <2>5 DEF SlotOK
  <2>6. CASE d <= s /\ s < Claimed(b) /\ s < e
    <3>1. committed[b][s] # "empty"
      BY <1>5, <2>1, <2>2, <2>6 DEF SlotOK
    <3>2. committed[b][s] \in {"ready", "poisoned"}
      BY <1>3, <2>1, <3>1 DEF Marks
    <3>3. CASE committed[b][s] = "ready"
      BY <1>6, <2>1, <2>2, <2>6, <3>3
    <3>4. CASE committed[b][s] = "poisoned"
      BY <1>6, <2>1, <3>4 DEF SlotOK
    <3>. QED BY <3>2, <3>3, <3>4
  <2>. QED BY <2>3, <2>4, <2>5, <2>6
<1>8. /\ committed' \in [Buckets -> [Slots -> Marks]]
      /\ \A s \in Slots : committed'[head][s] = "empty"
  <2>1. PICK f : f = [s \in Slots |-> IF s < Claimed(head) THEN "empty" ELSE committed[head][s]]
    OBVIOUS
  <2>2. \A s \in Slots : f[s] = "empty"
    <3>. SUFFICES ASSUME NEW s \in Slots PROVE f[s] = "empty"
      OBVIOUS
    <3>1. CASE s < Claimed(head)
      BY <2>1, <3>1
    <3>2. CASE ~(s < Claimed(head))
      <4>1. SlotOK(head, s)
        BY <1>1, <1>3 DEF SlotInv
      <4>2. PICK e \in Nat : e = enqueuePos[head]
        BY <1>3
      <4>3. s \in Nat /\ s < PoolSize
        BY <1>3
      <4>4. s >= e
        BY <1>3, <3>2, <4>2, <4>3 DEF Claimed, Min2
      <4>. QED BY <2>1, <3>2, <4>1, <4>2, <4>4 DEF SlotOK
    <3>. QED BY <3>1, <3>2
  <2>3. f \in [Slots -> Marks]
    BY <2>1, <2>2 DEF Marks
  <2>. QED BY <1>2, <1>3, <2>1, <2>2, <2>3
<1>9. enqueuePos' \in [Buckets -> Nat] /\ enqueuePos'[head] = 0
  BY <1>2, <1>3
<1>10. dequeuePos' \in [Buckets -> Nat] /\ dequeuePos'[head] = 0
  BY <1>2, <1>3
<1>11. next' \in [Buckets -> Buckets \cup {None}] /\ next'[head] = None
  BY <1>2, <1>3
<1>12. \A b \in Buckets : \A s \in Slots : data'[b][s] = None
  BY <1>1, <1>6, <1>7 DEF NoneLeft
<1>13. data' \in [Buckets -> [Slots -> Items \cup {None}]]
  <2>1. data' = [b \in Buckets |-> data'[b]]
    BY <1>2
  <2>2. \A b \in Buckets : data'[b] = [s \in Slots |-> data'[b][s]]
    BY <1>2
  <2>3. \A b \in Buckets : data'[b] \in [Slots -> Items \cup {None}]
    BY <1>12, <2>2
  <2>. QED BY <2>1, <2>3
<1>14. Shape'
  BY <1>1, <1>2, <1>3, <1>8, <1>9, <1>10, <1>11, <1>13 DEF Shape
<1>15. Outer'
  BY <1>1, <1>2 DEF Outer
<1>16. ChainInv'
  <2>1. PICK nx : nx = next'
    OBVIOUS
  <2>2. nx[head] = None
    BY <1>11, <2>1
  <2>3. Links(<<head>>, head, head, {head}, nx)
    BY <2>2, LinksOne
  <2>4. None \notin {head}
    BY <1>3 DEF QueueAssumption
  <2>5. Path(head, {head}, nx) = <<head>>
    BY <2>3, <2>4, LinksPath
  <2>6. Chain' = <<head>>
    BY <1>2, <2>1, <2>5 DEF Chain
  <2>. QED BY <1>2, <2>1, <2>3, <2>6 DEF ChainInv
<1>17. LockInv'
  BY <1>1, <1>2, <1>4 DEF LockInv
<1>18. CursorInv'
  BY <1>2, <1>3, <1>9, <1>10 DEF CursorInv, CursorOK
<1>19. SlotInv'
  <2>. SUFFICES ASSUME NEW s \in Slots PROVE \A b \in {head} : SlotOK(b, s)'
    BY <1>2 DEF SlotInv
  <2>1. s >= 0 /\ ~(s < 0)
    BY <1>3
  <2>. QED BY <1>3, <1>8, <1>9, <1>10, <1>12, <2>1 DEF SlotOK
<1>20. MakeInv' /\ ReadInv'
  BY <1>5 DEF MakeInv, ReadInv
<1>21. ItemInv'
  BY <1>1, <1>2 DEF ItemInv
<1>22. NoneLeft'
  BY <1>12 DEF NoneLeft
<1>. QED BY <1>14, <1>15, <1>16, <1>17, <1>18, <1>19, <1>20, <1>21, <1>22 DEF QueueInv

\* A step keeps the invariant.
LEMMA StepKeeps ==
  ASSUME QueueAssumption, QueueInv, [Next]_vars
  PROVE  QueueInv'
<1>1. ASSUME NEW x \in Threads, Step(x) PROVE QueueInv'
  <2>1. CASE Emplace(x)
    <3>1. PICK i : i = emplaced + 1
      OBVIOUS
    <3>2. /\ ClaimSlot(x, i) /\ pc[x] \in {"idle", "emplace"} /\ i \in Items
          /\ emplaced' \in 0 .. EmplaceBound
      <4>1. emplaced \in 0 .. EmplaceBound /\ EmplaceBound \in Nat
        BY DEF QueueInv, Outer, QueueAssumption
      <4>. QED BY <2>1, <3>1, <4>1 DEF Emplace, At, Items
    <3>. QED BY <3>2, ClaimKeeps
  <2>2. CASE Again(x)
    <3>1. PICK i : i = reg[x].item
      OBVIOUS
    <3>2. /\ ClaimSlot(x, i) /\ pc[x] \in {"idle", "emplace"} /\ i \in Items
          /\ emplaced' \in 0 .. EmplaceBound
      BY <2>2, <3>1 DEF Again, At, QueueInv, ItemInv, Outer
    <3>. QED BY <3>2, ClaimKeeps
  <2>. QED BY <1>1, <2>1, <2>2, ConstructKeeps, PublishKeeps, GrowKeeps, TryDequeueKeeps, LookKeeps,
              CasKeeps, MoveKeeps, RetireKeeps, ForEachKeeps DEF Step
<1>2. ASSUME UNCHANGED vars PROVE QueueInv'
  <2>1. UNCHANGED <<fast, head, tail, live, next, enqueuePos, dequeuePos, committed, data, shared,
                    pc, reg, emplaced, answer>>
    BY <1>2 DEF vars, chain
  <2>2. Shape' /\ Outer' /\ ItemInv' /\ NoneLeft'
    BY <2>1 DEF QueueInv, Shape, Outer, ItemInv, NoneLeft
  <2>3. ChainInv'
    BY <2>1, SameChain DEF QueueInv, ChainInv, chain
  <2>4. \A y \in Threads : \A b, s : /\ (MakesAt(y, b, s) <=> MakesAt(y, b, s)')
                                 /\ (MovesAt(y, b, s) <=> MovesAt(y, b, s)')
                                 /\ (ReadsAt(y, s) <=> ReadsAt(y, s)')
    BY <2>1 DEF MakesAt, MovesAt, ReadsAt, Making, Reading
  <2>5. LockInv'
    BY <2>1 DEF QueueInv, LockInv, Making, Reading
  <2>6. CursorInv'
    BY <2>1, CursorFrame DEF QueueInv, CursorInv
  <2>7. SlotInv'
    BY <2>1, <2>4, SlotFrame DEF QueueInv, SlotInv
  <2>8. MakeInv'
    <3>. SUFFICES ASSUME NEW y \in Threads, NEW b, NEW s, MakesAt(y, b, s)' PROVE MakeAt(y, b, s)'
      BY DEF MakeInv
    <3>1. MakesAt(y, b, s)
      BY <2>4
    <3>2. MakeAt(y, b, s)
      BY <3>1 DEF QueueInv, MakeInv
    <3>3. b \in live
      BY <3>2 DEF MakeAt
    <3>. QED BY <2>1, <2>4, <3>2, <3>3, MakeFrame
  <2>9. ReadInv'
    <3>. SUFFICES ASSUME NEW y \in Threads, NEW s, ReadsAt(y, s)' PROVE ReadAt(y, s)'
      BY DEF ReadInv
    <3>1. ReadsAt(y, s)
      BY <2>4
    <3>2. ReadAt(y, s)
      BY <3>1 DEF QueueInv, ReadInv
    <3>. QED BY <2>1, <2>4, <3>2, ReadFrame
  <2>. QED BY <2>2, <2>3, <2>5, <2>6, <2>7, <2>8, <2>9 DEF QueueInv
<1>. QED BY <1>1, <1>2, ClearKeeps DEF Next

LEMMA InitKeeps ==
  ASSUME QueueAssumption, Init
  PROVE  QueueInv
<1>1. PICK b \in Buckets : head = b /\ tail = b /\ live = {b}
  BY DEF Init
<1>2. /\ fast \in BOOLEAN
      /\ enqueuePos = [a \in Buckets |-> 0] /\ dequeuePos = [a \in Buckets |-> 0]
      /\ next = [a \in Buckets |-> None]
      /\ committed = [a \in Buckets |-> [s \in Slots |-> "empty"]]
      /\ data = [a \in Buckets |-> [s \in Slots |-> None]]
      /\ shared = {} /\ pc = [x \in Threads |-> "idle"] /\ reg = [x \in Threads |-> NoReg]
      /\ emplaced = 0 /\ answer = [x \in Threads |-> None]
  BY DEF Init
<1>3. Shape
  BY <1>1, <1>2, NoRegister DEF Shape, Labels, Marks
<1>4. Outer
  BY <1>2 DEF Outer, QueueAssumption
<1>5. ChainInv
  <2>1. next[b] = None
    BY <1>2
  <2>2. Links(<<b>>, b, b, {b}, next)
    BY <2>1, LinksOne
  <2>3. None \notin {b}
    BY DEF QueueAssumption
  <2>4. Path(b, {b}, next) = <<b>>
    BY <2>2, <2>3, LinksPath
  <2>. QED BY <1>1, <2>2, <2>4 DEF ChainInv, Chain
<1>6. \A y \in Threads : ~Making(y) /\ ~Reading(y)
  BY <1>2 DEF Making, Reading
<1>7. LockInv
  BY <1>2, <1>6 DEF LockInv
<1>8. CursorInv
  BY <1>1, <1>2 DEF CursorInv, CursorOK, QueueAssumption
<1>9. SlotInv
  <2>. SUFFICES ASSUME NEW s \in Slots PROVE SlotOK(b, s)
    BY <1>1 DEF SlotInv
  <2>1. s >= 0 /\ ~(s < 0)
    BY DEF Slots
  <2>. QED BY <1>2, <2>1 DEF SlotOK
<1>10. MakeInv /\ ReadInv
  BY <1>6 DEF MakeInv, ReadInv, MakesAt, ReadsAt
<1>11. ItemInv
  BY <1>2 DEF ItemInv
<1>12. NoneLeft
  BY <1>2 DEF NoneLeft
<1>. QED BY <1>3, <1>4, <1>5, <1>7, <1>8, <1>9, <1>10, <1>11, <1>12 DEF QueueInv

-----------------------------------------------------------------------------

\* The invariant of the queue: the chain links the allocated buckets from head to tail; whoever
\* is in the lock has its slot, or reads the head; what no slot has a use for holds nothing.
THEOREM QueueCorrect == QueueAssumption => (Spec => []QueueInv)
<1>. SUFFICES ASSUME QueueAssumption PROVE Spec => []QueueInv
  OBVIOUS
<1>1. Init => QueueInv
  BY InitKeeps
<1>2. QueueInv /\ [Next]_vars => QueueInv'
  BY StepKeeps
<1>. QED BY <1>1, <1>2, PTL DEF Spec

\* Every variable has its type, and consumers never overtake producers.
THEOREM TypeTheorem == QueueAssumption => (Spec => []TypeOK)
<1>. SUFFICES ASSUME QueueAssumption PROVE Spec => []TypeOK
  OBVIOUS
<1>1. QueueInv => TypeOK
  <2>. SUFFICES ASSUME QueueInv PROVE TypeOK
    OBVIOUS
  <2>1. Shape /\ Outer /\ ChainInv /\ CursorInv
    BY DEF QueueInv
  <2>2. \A b \in live : next[b] \in live \cup {None}
    <3>. SUFFICES ASSUME NEW b \in live PROVE next[b] \in live \cup {None}
      OBVIOUS
    <3>1. PICK ch, L, nx : ch = Chain /\ L = live /\ nx = next
      OBVIOUS
    <3>2. Links(ch, head, tail, L, nx)
      BY <2>1, <3>1 DEF ChainInv
    <3>3. PICK n \in 1 .. Len(ch) : ch[n] = b
      BY <3>1, <3>2 DEF Links
    <3>4. ch \in Seq(L) /\ Len(ch) \in Nat
      BY <3>2 DEF Links
    <3>5. CASE n = Len(ch)
      BY <3>1, <3>2, <3>3, <3>5 DEF Links
    <3>6. CASE n # Len(ch)
      <4>1. n \in 1 .. (Len(ch) - 1) /\ n + 1 \in 1 .. Len(ch)
        BY <3>3, <3>4, <3>6
      <4>2. nx[ch[n]] = ch[n + 1] /\ ch[n + 1] \in L
        BY <3>2, <3>4, <4>1 DEF Links
      <4>. QED BY <3>1, <3>3, <4>2
    <3>. QED BY <3>5, <3>6
  <2>3. \A b \in live : dequeuePos[b] <= Claimed(b)
    BY <2>1 DEF CursorInv, CursorOK, Claimed, Min2
  <2>. QED BY <2>1, <2>2, <2>3 DEF TypeOK, Shape, Outer, Labels, Marks, Registers
<1>. QED BY <1>1, QueueCorrect, PTL

\* Whoever is in the shared lock has a bucket that is allocated, and the tail is reachable from
\* the head: for any number of threads and of buckets.
THEOREM DanglingTheorem == QueueAssumption => (Spec => []NoDangling)
<1>. SUFFICES ASSUME QueueAssumption PROVE Spec => []NoDangling
  OBVIOUS
<1>1. QueueInv => NoDangling
  <2>. SUFFICES ASSUME QueueInv PROVE NoDangling
    OBVIOUS
  <2>1. Shape /\ ChainInv /\ LockInv /\ MakeInv /\ ReadInv
    BY DEF QueueInv
  <2>2. ASSUME NEW x \in Threads, pc[x] \in {"construct", "publish", "look", "cas", "move"}
        PROVE  x \in shared /\ reg[x].bucket \in live
    <3>1. PICK b, p : b = reg[x].bucket /\ p = reg[x].pos
      OBVIOUS
    <3>2. CASE Making(x)
      <4>1. MakeAt(x, b, p)
        BY <2>1, <3>1, <3>2 DEF MakeInv, MakesAt
      <4>. QED BY <2>1, <3>1, <3>2, <4>1 DEF LockInv, MakeAt
    <3>3. CASE Reading(x)
      <4>1. ReadAt(x, p)
        BY <2>1, <3>1, <3>3 DEF ReadInv, ReadsAt
      <4>. QED BY <2>1, <3>3, <4>1 DEF LockInv, ReadAt, Shape
    <3>. QED BY <2>2, <3>2, <3>3 DEF Making, Reading
  <2>3. tail \in ToSet(Chain) /\ next[tail] = None
    <3>1. PICK ch : ch = Chain
      OBVIOUS
    <3>2. ch[Len(ch)] = tail /\ Len(ch) \in DOMAIN ch /\ next[tail] = None
      <4>1. /\ ch \in Seq(live) /\ ch # <<>> /\ ch[Len(ch)] = tail /\ next[tail] = None
        BY <2>1, <3>1 DEF ChainInv, Links
      <4>. QED BY <4>1
    <3>3. tail \in ToSet(ch)
      BY <3>2 DEF ToSet
    <3>. QED BY <3>1, <3>2, <3>3
  <2>. QED BY <2>2, <2>3 DEF NoDangling
<1>. QED BY <1>1, QueueCorrect, PTL

\* No bucket that goes back to the pool takes an element with it.
THEOREM NoneLeftTheorem == QueueAssumption => (Spec => []NoneLeft)
<1>. SUFFICES ASSUME QueueAssumption PROVE Spec => []NoneLeft
  OBVIOUS
<1>1. QueueInv => NoneLeft
  BY DEF QueueInv
<1>. QED BY <1>1, QueueCorrect, PTL

-----------------------------------------------------------------------------
(* The places of the abstract queue, bucket by bucket.                     *)

\* What the claimed slots of a bucket hold that are not consumed, e and d being its cursors.
PartOf(con, e, d) == [i \in 1 .. (Min2(e, PoolSize) - d) |-> con[d + i - 1]]

\* con2 is con in the slots from d on that are behind e.
Alike(con, con2, d, e) == \A p \in Slots : d <= p /\ p < e => con2[p] = con[p]

\* z are the k places of con from d on.
Span(z, con, d, e, k, T) ==
  /\ z \in Seq(T) /\ Len(z) = k
  /\ \A i \in 1 .. k : /\ d + i - 1 \in Slots /\ d <= d + i - 1 /\ d + i - 1 < e
                       /\ z[i] = con[d + i - 1]

LEMMA PartIs ==
  ASSUME QueueAssumption, NEW T, NEW con, Maps(con, Slots, T), NEW e \in Nat, NEW d \in Nat,
         d <= Min2(e, PoolSize), NEW z, z = PartOf(con, e, d), NEW k, k = Min2(e, PoolSize) - d
  PROVE  Span(z, con, d, e, k, T)
<1>1. PoolSize \in Nat
  BY DEF QueueAssumption
<1>2. k \in Nat /\ k + d <= e /\ k + d <= PoolSize
  BY <1>1 DEF Min2
<1>3. \A i \in 1 .. k : d + i - 1 \in Slots /\ d <= d + i - 1 /\ d + i - 1 < e
  BY <1>1, <1>2 DEF Slots
<1>4. z = [i \in 1 .. k |-> con[d + i - 1]]
  BY DEF PartOf
<1>5. \A i \in 1 .. k : con[d + i - 1] \in T
  BY <1>3 DEF Maps
<1>6. z \in Seq(T) /\ Len(z) = k /\ \A i \in 1 .. k : z[i] = con[d + i - 1]
  BY <1>2, <1>4, <1>5
<1>. QED BY <1>3, <1>6 DEF Span

\* A part that is left alone.
LEMMA PartSame ==
  ASSUME QueueAssumption, NEW con, NEW con2, NEW e \in Nat, NEW e2 \in Nat, NEW d \in Nat,
         d <= Min2(e, PoolSize), Min2(e2, PoolSize) = Min2(e, PoolSize), Alike(con, con2, d, e)
  PROVE  PartOf(con2, e2, d) = PartOf(con, e, d)
<1>1. PoolSize \in Nat
  BY DEF QueueAssumption
<1>2. PICK k : k = Min2(e, PoolSize) - d
  OBVIOUS
<1>3. k \in Nat /\ k + d <= e /\ k + d <= PoolSize
  BY <1>1, <1>2 DEF Min2
<1>4. \A i \in 1 .. k : d + i - 1 \in Slots /\ d <= d + i - 1 /\ d + i - 1 < e
  BY <1>1, <1>3 DEF Slots
<1>5. \A i \in 1 .. k : con2[d + i - 1] = con[d + i - 1]
  BY <1>4 DEF Alike
<1>6. PartOf(con2, e2, d) = [i \in 1 .. k |-> con2[d + i - 1]]
  BY <1>2 DEF PartOf
<1>7. PartOf(con, e, d) = [i \in 1 .. k |-> con[d + i - 1]]
  BY <1>2 DEF PartOf
<1>. QED BY <1>5, <1>6, <1>7

\* One more slot is claimed.
LEMMA PartSnoc ==
  ASSUME QueueAssumption, NEW T, NEW con, Maps(con, Slots, T), NEW con2, Maps(con2, Slots, T),
         NEW e \in Nat, NEW d \in Nat, d <= e, e < PoolSize, Alike(con, con2, d, e)
  PROVE  PartOf(con2, e + 1, d) = Append(PartOf(con, e, d), con2[e])
<1>1. PoolSize \in Nat
  BY DEF QueueAssumption
<1>2. PICK k \in Nat : k = e - d
  OBVIOUS
<1>3. Min2(e, PoolSize) = e /\ Min2(e + 1, PoolSize) = e + 1 /\ e + 1 \in Nat /\ d <= e + 1
  BY <1>1 DEF Min2
<1>4. PICK x, y : x = PartOf(con, e, d) /\ y = PartOf(con2, e + 1, d)
  OBVIOUS
<1>5. x \in Seq(T) /\ Len(x) = k /\ \A i \in 1 .. k :
        d + i - 1 \in Slots /\ d <= d + i - 1 /\ d + i - 1 < e /\ x[i] = con[d + i - 1]
  <2>1. d <= Min2(e, PoolSize) /\ k = Min2(e, PoolSize) - d
    BY <1>2, <1>3
  <2>2. Span(x, con, d, e, k, T)
    BY <2>1, <1>4, PartIs
  <2>. QED BY <2>2 DEF Span
<1>6. y \in Seq(T) /\ Len(y) = k + 1 /\ \A i \in 1 .. (k + 1) : y[i] = con2[d + i - 1]
  <2>1. PICK f : f = e + 1
    OBVIOUS
  <2>2. f \in Nat /\ d <= Min2(f, PoolSize) /\ Min2(f, PoolSize) - d = k + 1
    BY <2>1, <1>2, <1>3
  <2>3. y = PartOf(con2, f, d)
    BY <2>1, <1>4
  <2>4. PICK m : m = k + 1
    OBVIOUS
  <2>5. Span(y, con2, d, f, m, T)
    BY <2>2, <2>3, <2>4, PartIs
  <2>. QED BY <2>4, <2>5 DEF Span
<1>7. \A i \in 1 .. k : y[i] = x[i]
  <2>. SUFFICES ASSUME NEW i \in 1 .. k PROVE y[i] = x[i]
    OBVIOUS
  <2>1. i \in 1 .. (k + 1)
    OBVIOUS
  <2>. QED BY <2>1, <1>5, <1>6 DEF Alike
<1>8. y[k + 1] = con2[e]
  <2>1. k + 1 \in 1 .. (k + 1) /\ d + (k + 1) - 1 = e
    BY <1>2
  <2>. QED BY <2>1, <1>6
<1>9. PICK c : c = con2[e]
  OBVIOUS
<1>10. PICK z : z = Append(x, c)
  OBVIOUS
<1>11. c \in T
  <2>1. k + 1 \in 1 .. (k + 1)
    OBVIOUS
  <2>. QED BY <2>1, <1>6, <1>8, <1>9
<1>12. z \in Seq(T) /\ Len(z) = k + 1 /\ z[k + 1] = c /\ \A i \in 1 .. k : z[i] = x[i]
  BY <1>5, <1>10, <1>11
<1>13. \A i \in 1 .. (k + 1) : y[i] = z[i]
  <2>. SUFFICES ASSUME NEW i \in 1 .. (k + 1) PROVE y[i] = z[i]
    OBVIOUS
  <2>1. i \in 1 .. k \/ i = k + 1
    OBVIOUS
  <2>. QED BY <2>1, <1>7, <1>8, <1>9, <1>12
<1>14. IsSeq(y) /\ IsSeq(z)
  BY <1>6, <1>12, SeqIs
<1>15. y = z
  BY <1>6, <1>12, <1>13, <1>14, SameSeq
<1>. QED BY <1>4, <1>9, <1>10, <1>15

\* The oldest slot is consumed.
LEMMA PartTail ==
  ASSUME QueueAssumption, NEW T, NEW con, Maps(con, Slots, T), NEW con2, Maps(con2, Slots, T),
         NEW e \in Nat, NEW d \in Nat, d < e, d < PoolSize, Alike(con, con2, d + 1, e)
  PROVE  /\ PartOf(con, e, d) # <<>> /\ PartOf(con, e, d)[1] = con[d]
         /\ PartOf(con2, e, d + 1) = Tail(PartOf(con, e, d))
<1>1. PoolSize \in Nat
  BY DEF QueueAssumption
<1>2. d <= Min2(e, PoolSize) /\ d + 1 <= Min2(e, PoolSize) /\ Min2(e, PoolSize) \in Nat
  BY <1>1 DEF Min2
<1>3. PICK k \in Nat, f \in Nat : k = Min2(e, PoolSize) - f /\ f = d + 1
  BY <1>2
<1>4. PICK x, y : x = PartOf(con, e, d) /\ y = PartOf(con2, e, f)
  OBVIOUS
<1>5. x \in Seq(T) /\ Len(x) = k + 1 /\ \A i \in 1 .. (k + 1) : x[i] = con[d + i - 1]
  <2>1. Min2(e, PoolSize) - d = k + 1
    BY <1>2, <1>3
  <2>2. PICK m : m = k + 1
    OBVIOUS
  <2>3. Span(x, con, d, e, m, T)
    BY <2>1, <2>2, <1>2, <1>4, PartIs
  <2>. QED BY <2>2, <2>3 DEF Span
<1>6. y \in Seq(T) /\ Len(y) = k /\ \A i \in 1 .. k :
        f + i - 1 \in Slots /\ f <= f + i - 1 /\ f + i - 1 < e /\ y[i] = con2[f + i - 1]
  <2>1. f <= Min2(e, PoolSize)
    BY <1>2, <1>3
  <2>2. Span(y, con2, f, e, k, T)
    BY <2>1, <1>3, <1>4, PartIs
  <2>. QED BY <2>2 DEF Span
<1>7. PICK z : z = Tail(x)
  OBVIOUS
<1>8. x # <<>> /\ z \in Seq(T) /\ Len(z) = k /\ \A i \in 1 .. k : z[i] = x[i + 1]
  BY <1>5, <1>7
<1>9. \A i \in 1 .. k : y[i] = z[i]
  <2>. SUFFICES ASSUME NEW i \in 1 .. k PROVE y[i] = z[i]
    OBVIOUS
  <2>1. i + 1 \in 1 .. (k + 1) /\ d + (i + 1) - 1 = f + i - 1
    BY <1>3
  <2>2. z[i] = con[f + i - 1]
    BY <2>1, <1>5, <1>8
  <2>3. PICK p : p = f + i - 1
    OBVIOUS
  <2>4. p \in Slots /\ f <= p /\ p < e /\ y[i] = con2[p]
    BY <2>3, <1>6
  <2>5. con2[p] = con[p]
    BY <2>4, <1>3 DEF Alike
  <2>. QED BY <2>2, <2>3, <2>4, <2>5
<1>10. IsSeq(y) /\ IsSeq(z)
  BY <1>6, <1>8, SeqIs
<1>11. y = z
  BY <1>6, <1>8, <1>9, <1>10, SameSeq
<1>12. x[1] = con[d]
  <2>1. 1 \in 1 .. (k + 1) /\ d + 1 - 1 = d
    OBVIOUS
  <2>. QED BY <2>1, <1>5
<1>. QED BY <1>3, <1>4, <1>7, <1>8, <1>11, <1>12

\* One slot is changed.
LEMMA PartChanged ==
  ASSUME QueueAssumption, NEW T, NEW con, Maps(con, Slots, T), NEW con2, Maps(con2, Slots, T),
         NEW e \in Nat, NEW d \in Nat, NEW q \in Slots, d <= q, q < e,
         \A p \in Slots : p # q => con2[p] = con[p]
  PROVE  Changed(PartOf(con, e, d), PartOf(con2, e, d), con[q], con2[q])
<1>1. PoolSize \in Nat /\ q \in Nat /\ q < PoolSize
  BY DEF QueueAssumption, Slots
<1>2. d <= Min2(e, PoolSize) /\ q < Min2(e, PoolSize) /\ Min2(e, PoolSize) \in Nat
  BY <1>1 DEF Min2
<1>3. PICK k \in Nat, j \in Nat : k = Min2(e, PoolSize) - d /\ j = q - d + 1
  BY <1>1, <1>2
<1>4. PICK x, y, c : x = PartOf(con, e, d) /\ y = PartOf(con2, e, d) /\ c = con2[q]
  OBVIOUS
<1>5. x \in Seq(T) /\ Len(x) = k /\ \A i \in 1 .. k : d + i - 1 \in Slots /\ x[i] = con[d + i - 1]
  <2>1. Span(x, con, d, e, k, T)
    BY <1>2, <1>3, <1>4, PartIs
  <2>. QED BY <2>1 DEF Span
<1>6. y \in Seq(T) /\ Len(y) = k /\ \A i \in 1 .. k : y[i] = con2[d + i - 1]
  <2>1. Span(y, con2, d, e, k, T)
    BY <1>2, <1>3, <1>4, PartIs
  <2>. QED BY <2>1 DEF Span
<1>7. j \in 1 .. k /\ d + j - 1 = q /\ \A i \in 1 .. k : i # j => d + i - 1 # q
  BY <1>1, <1>2, <1>3
<1>8. x[j] = con[q] /\ y[j] = c /\ \A i \in 1 .. k : i # j => y[i] = x[i]
  BY <1>4, <1>5, <1>6, <1>7
<1>9. c \in T
  BY <1>4 DEF Maps
<1>10. PICK z : z = Put(x, j, c)
  OBVIOUS
<1>11. z \in Seq(T) /\ Len(z) = k /\ \A i \in 1 .. k : z[i] = IF i = j THEN c ELSE x[i]
  <2>1. z \in Seq(T)
    BY <1>5, <1>7, <1>9, <1>10 DEF Put
  <2>2. z = [x EXCEPT ![j] = c]
    BY <1>10 DEF Put
  <2>. QED BY <2>1, <2>2, <1>5, <1>7
<1>12. \A i \in 1 .. k : y[i] = z[i]
  BY <1>8, <1>11
<1>13. IsSeq(y) /\ IsSeq(z)
  BY <1>6, <1>11, SeqIs
<1>14. y = z
  BY <1>6, <1>11, <1>12, <1>13, SameSeq
<1>15. Changed(x, y, con[q], c)
  BY <1>5, <1>7, <1>8, <1>10, <1>14 DEF Changed
<1>. QED BY <1>4, <1>15

PlaceType == [item : Items \cup {None}, by : Threads \cup {None, Poison}]
Content   == [b \in Buckets |-> [p \in Slots |-> Place(b, p)]]
Skipped   == [item |-> None, by |-> Poison]
Held(i)   == [item |-> i, by |-> None]
Made(x)   == [item |-> reg[x].item, by |-> x]

\* What a slot is a place of: its producer's, or what was published there.
PlaceInv ==
  \A b \in Buckets, p \in Slots :
    /\ \A x \in Threads :
         MakesAt(x, b, p) /\ (\A y \in Threads : MakesAt(y, b, p) => y = x) => Content[b][p] = Made(x)
    /\ (\A x \in Threads : ~MakesAt(x, b, p)) =>
         Content[b][p] = IF committed[b][p] = "poisoned" THEN Skipped ELSE Held(data[b][p])

\* The parts of the chain ch of buckets in L, and what they are.
Layout(ch, con, e, d) == [n \in DOMAIN ch |-> PartOf(con[ch[n]], e[ch[n]], d[ch[n]])]
Laid(ch, L, con, e, d) ==
  /\ ch \in Seq(L) /\ L \subseteq Buckets
  /\ con \in [Buckets -> [Slots -> PlaceType]]
  /\ e \in [Buckets -> Nat] /\ d \in [Buckets -> Nat]
  /\ \A b \in L : d[b] <= Min2(e[b], PoolSize)
PlacesInv ==
  /\ Laid(Chain, live, Content, enqueuePos, dequeuePos)
  /\ Places = FlattenSeq(Layout(Chain, Content, enqueuePos, dequeuePos))
  /\ PlaceInv

\* The producers of a slot, and the place it is when there are none.
Makers(b, p) == {y \in Threads : /\ pc[y] \in {"construct", "publish"}
                                 /\ reg[y].bucket = b /\ reg[y].pos = p}

LEMMA PlaceMakers ==
  ASSUME NEW b, NEW p
  PROVE  /\ Makers(b, p) # {} => \E c \in Makers(b, p) : Place(b, p) = Made(c)
         /\ Makers(b, p) = {} =>
              Place(b, p) = IF committed[b][p] = "poisoned" THEN Skipped ELSE Held(data[b][p])
<1>1. PICK S : S = Makers(b, p)
  OBVIOUS
<1>2. PICK c : c = CHOOSE y \in S : TRUE
  OBVIOUS
<1>3. Place(b, p) = IF S # {} THEN [item |-> reg[c].item, by |-> c]
                    ELSE IF committed[b][p] = "poisoned" THEN [item |-> None, by |-> Poison]
                    ELSE [item |-> data[b][p], by |-> None]
  BY <1>1, <1>2, Zenon DEF Place, Makers
<1>4. S # {} => c \in S
  BY <1>2
<1>5. S # {} => Place(b, p) = Made(c)
  BY <1>3 DEF Made
<1>6. S = {} => Place(b, p) = IF committed[b][p] = "poisoned" THEN Skipped ELSE Held(data[b][p])
  BY <1>3 DEF Skipped, Held
<1>. QED BY <1>1, <1>4, <1>5, <1>6

LEMMA PlaceIs ==
  ASSUME NEW b, NEW p
  PROVE  /\ \A x \in Threads :
              MakesAt(x, b, p) /\ (\A y \in Threads : MakesAt(y, b, p) => y = x) => Place(b, p) = Made(x)
         /\ (\A x \in Threads : ~MakesAt(x, b, p)) =>
              Place(b, p) = IF committed[b][p] = "poisoned" THEN Skipped ELSE Held(data[b][p])
<1>1. \A x \in Threads : x \in Makers(b, p) <=> MakesAt(x, b, p)
  BY DEF MakesAt, Making, Makers
<1>2. Makers(b, p) \subseteq Threads
  BY DEF Makers
<1>3. ASSUME NEW x \in Threads, MakesAt(x, b, p), \A y \in Threads : MakesAt(y, b, p) => y = x
      PROVE  Place(b, p) = Made(x)
  <2>1. \A c \in Makers(b, p) : c = x
    BY <1>1, <1>2, <1>3
  <2>2. Makers(b, p) # {}
    BY <1>1, <1>3
  <2>. QED BY <2>1, <2>2, PlaceMakers
<1>4. ASSUME \A x \in Threads : ~MakesAt(x, b, p)
      PROVE  Place(b, p) = IF committed[b][p] = "poisoned" THEN Skipped ELSE Held(data[b][p])
  <2>1. Makers(b, p) = {}
    BY <1>1, <1>2, <1>4
  <2>. QED BY <2>1, PlaceMakers
<1>. QED BY <1>3, <1>4

LEMMA PlaceTyped ==
  ASSUME Shape, ItemInv, NEW b \in Buckets, NEW p \in Slots
  PROVE  Place(b, p) \in PlaceType
<1>1. CASE Makers(b, p) # {}
  <2>1. PICK c \in Makers(b, p) : Place(b, p) = Made(c)
    BY <1>1, PlaceMakers
  <2>2. c \in Threads /\ reg[c].item \in Items
    BY <2>1 DEF Makers, ItemInv
  <2>. QED BY <2>1, <2>2 DEF PlaceType, Made
<1>2. CASE Makers(b, p) = {}
  <2>1. data[b][p] \in Items \cup {None}
    BY DEF Shape
  <2>2. Place(b, p) = Skipped \/ Place(b, p) = Held(data[b][p])
    BY <1>2, PlaceMakers
  <2>3. Skipped \in PlaceType
    BY DEF Skipped, PlaceType
  <2>4. Held(data[b][p]) \in PlaceType
    BY <2>1 DEF Held, PlaceType
  <2>. QED BY <2>2, <2>3, <2>4
<1>. QED BY <1>1, <1>2

LEMMA PlacesAre == QueueAssumption /\ QueueInv => PlacesInv
<1>. SUFFICES ASSUME QueueAssumption, QueueInv PROVE PlacesInv
  OBVIOUS
<1>1. Shape /\ ChainInv /\ CursorInv /\ ItemInv
  BY DEF QueueInv
<1>2. \A b \in Buckets, p \in Slots : Content[b][p] = Place(b, p)
  BY DEF Content
<1>3. PlaceInv
  BY <1>2, PlaceIs DEF PlaceInv
<1>4. Content \in [Buckets -> [Slots -> PlaceType]]
  BY <1>1, PlaceTyped DEF Content
<1>5. Laid(Chain, live, Content, enqueuePos, dequeuePos)
  <2>1. \A b \in live : dequeuePos[b] <= Min2(enqueuePos[b], PoolSize)
    BY <1>1 DEF CursorInv, CursorOK, Min2
  <2>2. Chain \in Seq(live)
    BY <1>1 DEF ChainInv, Links
  <2>. QED BY <1>1, <1>4, <2>1, <2>2 DEF Laid, Shape
<1>6. Places = FlattenSeq(Layout(Chain, Content, enqueuePos, dequeuePos))
  <2>1. PICK ch, con : ch = Chain /\ con = Content
    OBVIOUS
  <2>2. InChain(con) = FlattenSeq([n \in DOMAIN ch |-> InBucket(con, ch[n])])
    BY <2>1 DEF InChain
  <2>3. \A b : InBucket(con, b) = PartOf(con[b], enqueuePos[b], dequeuePos[b])
    BY DEF InBucket, PartOf, Claimed
  <2>4. [n \in DOMAIN ch |-> InBucket(con, ch[n])] = Layout(ch, con, enqueuePos, dequeuePos)
    BY <2>3 DEF Layout
  <2>5. Places = InChain(con)
    BY <2>1 DEF Places, Content
  <2>. QED BY <2>1, <2>2, <2>4, <2>5
<1>. QED BY <1>3, <1>5, <1>6 DEF PlacesInv

\* The parts are sequences of places.
LEMMA LayoutIs ==
  ASSUME QueueAssumption, NEW ch, NEW L, NEW con, NEW e, NEW d, Laid(ch, L, con, e, d),
         NEW s, s = Layout(ch, con, e, d)
  PROVE  /\ s \in Seq(Seq(PlaceType)) /\ Len(s) = Len(ch) /\ Len(ch) \in Nat
         /\ \A n \in 1 .. Len(ch) : ch[n] \in L /\ s[n] = PartOf(con[ch[n]], e[ch[n]], d[ch[n]])
<1>1. PICK m : m = Len(ch)
  OBVIOUS
<1>2. m \in Nat /\ DOMAIN ch = 1 .. m /\ \A n \in 1 .. m : ch[n] \in L
  BY <1>1 DEF Laid
<1>3. s = [n \in 1 .. m |-> PartOf(con[ch[n]], e[ch[n]], d[ch[n]])]
  BY <1>2 DEF Layout
<1>4. \A b \in L : PartOf(con[b], e[b], d[b]) \in Seq(PlaceType)
  <2>. SUFFICES ASSUME NEW b \in L PROVE PartOf(con[b], e[b], d[b]) \in Seq(PlaceType)
    OBVIOUS
  <2>1. PICK cb, eb, db, z, k : /\ cb = con[b] /\ eb = e[b] /\ db = d[b] /\ z = PartOf(cb, eb, db)
                                /\ k = Min2(eb, PoolSize) - db
    OBVIOUS
  <2>2. Maps(cb, Slots, PlaceType) /\ eb \in Nat /\ db \in Nat /\ db <= Min2(eb, PoolSize)
    BY <2>1 DEF Laid, Maps
  <2>3. Span(z, cb, db, eb, k, PlaceType)
    BY <2>1, <2>2, PartIs
  <2>4. z \in Seq(PlaceType)
    BY <2>3 DEF Span
  <2>. QED BY <2>1, <2>4
<1>5. \A n \in 1 .. m : PartOf(con[ch[n]], e[ch[n]], d[ch[n]]) \in Seq(PlaceType)
  BY <1>2, <1>4
<1>6. s \in Seq(Seq(PlaceType)) /\ Len(s) = m
  BY <1>2, <1>3, <1>5
<1>. QED BY <1>1, <1>2, <1>3, <1>6

\* Every place is a slot's.
LEMMA PlacesElem ==
  ASSUME QueueAssumption, NEW ch, NEW L, NEW con, NEW e, NEW d, Laid(ch, L, con, e, d),
         NEW q, q = FlattenSeq(Layout(ch, con, e, d)), NEW j \in 1 .. Len(q)
  PROVE  \E b \in L, p \in Slots : d[b] <= p /\ p < e[b] /\ q[j] = con[b][p]
<1>1. PICK s : s = Layout(ch, con, e, d)
  OBVIOUS
<1>2. /\ s \in Seq(Seq(PlaceType)) /\ Len(s) = Len(ch)
      /\ \A n \in 1 .. Len(ch) : ch[n] \in L /\ s[n] = PartOf(con[ch[n]], e[ch[n]], d[ch[n]])
  BY <1>1, LayoutIs
<1>3. j \in 1 .. Len(FlattenSeq(s)) /\ q = FlattenSeq(s)
  BY <1>1
<1>4. \E n \in 1 .. Len(s) : \E i \in 1 .. Len(s[n]) : FlattenSeq(s)[j] = s[n][i]
  BY <1>2, <1>3, FlatElem
<1>5. PICK n \in 1 .. Len(s) : \E i \in 1 .. Len(s[n]) : q[j] = s[n][i]
  BY <1>3, <1>4
<1>6. PICK b \in L : b = ch[n] /\ s[n] = PartOf(con[b], e[b], d[b])
  BY <1>2, <1>5
<1>7. PICK cb, eb, db, z, k : /\ cb = con[b] /\ eb = e[b] /\ db = d[b] /\ z = s[n]
                              /\ k = Min2(eb, PoolSize) - db
  OBVIOUS
<1>8. Maps(cb, Slots, PlaceType) /\ eb \in Nat /\ db \in Nat /\ db <= Min2(eb, PoolSize)
  BY <1>7 DEF Laid, Maps
<1>9. z = PartOf(cb, eb, db)
  BY <1>6, <1>7
<1>10. Span(z, cb, db, eb, k, PlaceType)
  BY <1>7, <1>8, <1>9, PartIs
<1>11. PICK i \in 1 .. Len(z) : q[j] = z[i]
  BY <1>5, <1>7
<1>12. i \in 1 .. k
  BY <1>10, <1>11 DEF Span
<1>13. PICK p : p = db + i - 1
  OBVIOUS
<1>14. p \in Slots /\ db <= p /\ p < eb /\ q[j] = cb[p]
  BY <1>10, <1>11, <1>12, <1>13 DEF Span
<1>. QED BY <1>7, <1>14

\* Nothing changes.
LEMMA PlacesSame ==
  ASSUME QueueAssumption, NEW ch, NEW L, NEW con, NEW e, NEW d, Laid(ch, L, con, e, d),
         NEW con2, NEW e2, NEW d2, Laid(ch, L, con2, e2, d2),
         \A b \in L : /\ d2[b] = d[b] /\ Min2(e2[b], PoolSize) = Min2(e[b], PoolSize)
                      /\ Alike(con[b], con2[b], d[b], e[b])
  PROVE  Layout(ch, con2, e2, d2) = Layout(ch, con, e, d)
<1>1. \A b \in L : PartOf(con2[b], e2[b], d2[b]) = PartOf(con[b], e[b], d[b])
  <2>. SUFFICES ASSUME NEW b \in L PROVE PartOf(con2[b], e2[b], d2[b]) = PartOf(con[b], e[b], d[b])
    OBVIOUS
  <2>1. PICK cb, eb, db, cb2, eb2 : /\ cb = con[b] /\ eb = e[b] /\ db = d[b]
                                    /\ cb2 = con2[b] /\ eb2 = e2[b]
    OBVIOUS
  <2>2. eb \in Nat /\ eb2 \in Nat /\ db \in Nat /\ db <= Min2(eb, PoolSize)
    BY <2>1 DEF Laid
  <2>3. Min2(eb2, PoolSize) = Min2(eb, PoolSize) /\ Alike(cb, cb2, db, eb) /\ d2[b] = db
    BY <2>1
  <2>4. PartOf(cb2, eb2, db) = PartOf(cb, eb, db)
    BY <2>2, <2>3, PartSame
  <2>. QED BY <2>1, <2>3, <2>4
<1>2. \A n \in DOMAIN ch : ch[n] \in L
  BY DEF Laid
<1>. QED BY <1>1, <1>2 DEF Layout

\* The first part loses its first element; the last part gets one more.
LEMMA FlatTail ==
  ASSUME NEW T, NEW s \in Seq(Seq(T)), NEW t \in Seq(Seq(T)), Len(t) = Len(s), s # <<>>,
         s[1] # <<>>, t[1] = Tail(s[1]), \A n \in 2 .. Len(s) : t[n] = s[n]
  PROVE  /\ FlattenSeq(s) # <<>> /\ FlattenSeq(s)[1] = s[1][1]
         /\ FlattenSeq(t) = Tail(FlattenSeq(s))
<1>1. PICK n \in Nat : n = Len(s) /\ n >= 1
  OBVIOUS
<1>2. t # <<>>
  BY <1>1
<1>3. PICK r, u : r = Tail(s) /\ u = Tail(t)
  OBVIOUS
<1>4. r \in Seq(Seq(T)) /\ Len(r) = n - 1 /\ \A i \in 1 .. (n - 1) : r[i] = s[i + 1]
  BY <1>1, <1>3
<1>5. u \in Seq(Seq(T)) /\ Len(u) = n - 1 /\ \A i \in 1 .. (n - 1) : u[i] = t[i + 1]
  BY <1>1, <1>2, <1>3
<1>6. \A i \in 1 .. (n - 1) : u[i] = r[i]
  <2>. SUFFICES ASSUME NEW i \in 1 .. (n - 1) PROVE u[i] = r[i]
    OBVIOUS
  <2>1. i + 1 \in 2 .. Len(s)
    BY <1>1
  <2>2. t[i + 1] = s[i + 1]
    BY <2>1
  <2>. QED BY <2>2, <1>4, <1>5
<1>7. IsSeq(u) /\ IsSeq(r)
  BY <1>4, <1>5, SeqIs
<1>8. u = r
  BY <1>4, <1>5, <1>6, <1>7, SameSeq
<1>9. PICK f, a : f = FlattenSeq(r) /\ a = s[1]
  OBVIOUS
<1>10. f \in Seq(T)
  BY <1>4, <1>9, FlatType
<1>11. a \in Seq(T) /\ a # <<>>
  BY <1>1, <1>9
<1>12. FlattenSeq(s) = a \o f
  BY <1>3, <1>9, FlatCons
<1>13. FlattenSeq(t) = Tail(a) \o f
  <2>1. FlattenSeq(t) = t[1] \o FlattenSeq(Tail(t))
    BY <1>2, FlatCons
  <2>. QED BY <2>1, <1>3, <1>8, <1>9
<1>14. PICK x, y : x = a \o f /\ y = Tail(a) \o f
  OBVIOUS
<1>15. PICK k \in Nat, l \in Nat : k = Len(a) /\ l = Len(f) /\ k >= 1
  BY <1>10, <1>11
<1>16. x \in Seq(T) /\ Len(x) = k + l /\ \A i \in 1 .. (k + l) : x[i] = IF i <= k THEN a[i] ELSE f[i - k]
  BY <1>10, <1>11, <1>14, <1>15
<1>17. PICK b : b = Tail(a)
  OBVIOUS
<1>18. b \in Seq(T) /\ Len(b) = k - 1 /\ \A i \in 1 .. (k - 1) : b[i] = a[i + 1]
  BY <1>11, <1>15, <1>17
<1>19. PICK m \in Nat : m = k - 1
  <2>1. k >= 1
    BY <1>15
  <2>. QED BY <2>1
<1>20. y \in Seq(T) /\ Len(y) = m + l /\ \A i \in 1 .. (m + l) : y[i] = IF i <= m THEN b[i] ELSE f[i - m]
  BY <1>10, <1>14, <1>15, <1>17, <1>18, <1>19
<1>21. PICK z : z = Tail(x)
  OBVIOUS
<1>22. x # <<>> /\ z \in Seq(T) /\ Len(z) = m + l /\ \A i \in 1 .. (m + l) : z[i] = x[i + 1]
  <2>1. PICK h \in Nat : h = k + l /\ h # 0 /\ h - 1 = m + l
    <3>1. k >= 1
      BY <1>15
    <3>. QED BY <3>1, <1>19
  <2>2. x # <<>> /\ Len(x) = h
    BY <2>1, <1>16
  <2>3. z \in Seq(T) /\ Len(z) = h - 1 /\ \A i \in 1 .. (h - 1) : z[i] = x[i + 1]
    BY <2>1, <2>2, <1>16, <1>21
  <2>. QED BY <2>1, <2>2, <2>3
<1>23. \A i \in 1 .. (m + l) : y[i] = z[i]
  <2>. SUFFICES ASSUME NEW i \in 1 .. (m + l) PROVE y[i] = z[i]
    OBVIOUS
  <2>1. i + 1 \in 1 .. (k + l) /\ (i <= m <=> i + 1 <= k) /\ (i + 1) - k = i - m
    BY <1>15, <1>19
  <2>2. z[i] = IF i + 1 <= k THEN a[i + 1] ELSE f[i - m]
    BY <2>1, <1>16, <1>22
  <2>3. i <= m => b[i] = a[i + 1]
    BY <1>18, <1>19
  <2>. QED BY <2>1, <2>2, <2>3, <1>20
<1>24. IsSeq(y) /\ IsSeq(z)
  BY <1>20, <1>22, SeqIs
<1>25. y = z
  BY <1>20, <1>22, <1>23, <1>24, SameSeq
<1>26. x[1] = a[1]
  <2>1. 1 \in 1 .. (k + l) /\ 1 <= k
    BY <1>15
  <2>. QED BY <2>1, <1>16
<1>. QED BY <1>9, <1>12, <1>13, <1>14, <1>21, <1>22, <1>25, <1>26

\* t is s, its n-th part having x at the end.
Longer(s, t, n, x) == t[n] = Append(s[n], x) /\ \A m \in 1 .. (n - 1) : t[m] = s[m]

LEMMA FlatLast ==
  ASSUME NEW T, NEW s \in Seq(Seq(T)), NEW t \in Seq(Seq(T)), NEW n \in Nat \ {0},
         Len(s) = n, Len(t) = n, NEW x \in T, Longer(s, t, n, x)
  PROVE  FlattenSeq(t) = Append(FlattenSeq(s), x)
<1>0. t[n] = Append(s[n], x) /\ \A m \in 1 .. (n - 1) : t[m] = s[m]
  BY DEF Longer
<1>1. PICK k \in Nat : k = n - 1
  OBVIOUS
<1>2. PICK r : r = [i \in 1 .. k |-> s[i]]
  OBVIOUS
<1>3. r \in Seq(Seq(T)) /\ Len(r) = k /\ \A i \in 1 .. k : r[i] = s[i]
  <2>1. \A i \in 1 .. k : s[i] \in Seq(T)
    BY <1>1
  <2>. QED BY <2>1, <1>2
<1>4. PICK a, b : a = s[n] /\ b = t[n]
  OBVIOUS
<1>5. a \in Seq(T) /\ b \in Seq(T)
  BY <1>4
<1>6. s = Append(r, a)
  <2>1. PICK z : z = Append(r, a)
    OBVIOUS
  <2>2. z \in Seq(Seq(T)) /\ Len(z) = n /\ z[n] = a /\ \A i \in 1 .. k : z[i] = s[i]
    BY <2>1, <1>1, <1>3, <1>5
  <2>3. \A i \in 1 .. n : z[i] = s[i]
    <3>. SUFFICES ASSUME NEW i \in 1 .. n PROVE z[i] = s[i]
      OBVIOUS
    <3>1. i \in 1 .. k \/ i = n
      BY <1>1
    <3>. QED BY <3>1, <2>2, <1>4
  <2>4. IsSeq(z) /\ IsSeq(s)
    BY <2>2, SeqIs
  <2>. QED BY <2>1, <2>2, <2>3, <2>4, SameSeq
<1>7. t = Append(r, b)
  <2>1. PICK z : z = Append(r, b)
    OBVIOUS
  <2>2. z \in Seq(Seq(T)) /\ Len(z) = n /\ z[n] = b /\ \A i \in 1 .. k : z[i] = s[i]
    BY <2>1, <1>1, <1>3, <1>5
  <2>3. \A i \in 1 .. n : z[i] = t[i]
    <3>. SUFFICES ASSUME NEW i \in 1 .. n PROVE z[i] = t[i]
      OBVIOUS
    <3>1. i \in 1 .. k \/ i = n
      BY <1>1
    <3>. QED BY <3>1, <2>2, <1>0, <1>1, <1>4
  <2>4. IsSeq(z) /\ IsSeq(t)
    BY <2>2, SeqIs
  <2>. QED BY <2>1, <2>2, <2>3, <2>4, SameSeq
<1>8. FlattenSeq(s) = FlattenSeq(r) \o a
  BY <1>3, <1>5, <1>6, FlatSnoc
<1>9. FlattenSeq(t) = FlattenSeq(r) \o b
  BY <1>3, <1>5, <1>7, FlatSnoc
<1>10. PICK f : f = FlattenSeq(r)
  OBVIOUS
<1>11. f \in Seq(T)
  BY <1>3, <1>10, FlatType
<1>12. b = Append(a, x)
  BY <1>0, <1>4
<1>13. f \o Append(a, x) = Append(f \o a, x)
  <2>1. PICK y, z : y = f \o Append(a, x) /\ z = Append(f \o a, x)
    OBVIOUS
  <2>2. PICK j \in Nat, l \in Nat : j = Len(f) /\ l = Len(a)
    BY <1>5, <1>11
  <2>3. PICK c : c = f \o a
    OBVIOUS
  <2>4. c \in Seq(T) /\ Len(c) = j + l /\ \A i \in 1 .. (j + l) : c[i] = IF i <= j THEN f[i] ELSE a[i - j]
    BY <2>2, <2>3, <1>5, <1>11
  <2>5. z \in Seq(T) /\ Len(z) = j + l + 1 /\ z[j + l + 1] = x /\ \A i \in 1 .. (j + l) : z[i] = c[i]
    BY <2>1, <2>2, <2>3, <2>4
  <2>6. b \in Seq(T) /\ Len(b) = l + 1 /\ b[l + 1] = x /\ \A i \in 1 .. l : b[i] = a[i]
    BY <2>2, <1>5, <1>12
  <2>7. y = f \o b
    BY <2>1, <1>12
  <2>8. /\ y \in Seq(T) /\ Len(y) = j + (l + 1)
        /\ \A i \in 1 .. (j + (l + 1)) : y[i] = IF i <= j THEN f[i] ELSE b[i - j]
    <3>1. PICK h \in Nat : h = l + 1
      OBVIOUS
    <3>2. PICK g : g = f \o b
      OBVIOUS
    <3>3. Len(f) = j /\ Len(b) = h
      BY <2>2, <2>6, <3>1
    <3>4. g \in Seq(T) /\ Len(g) = j + h /\ \A i \in 1 .. (j + h) : g[i] = IF i <= j THEN f[i] ELSE b[i - j]
      <4>1. b \in Seq(T)
        BY <2>6
      <4>2. g \in Seq(T) /\ IsConcat(g, f, b)
        BY <3>2, <4>1, <1>11, ConcatIs
      <4>3. Len(g) = j + h
        BY <3>3, <4>2 DEF IsConcat
      <4>. QED BY <3>3, <4>2, <4>3 DEF IsConcat
    <3>. QED BY <2>7, <3>1, <3>2, <3>4
  <2>9. \A i \in 1 .. (j + l + 1) : y[i] = z[i]
    <3>. SUFFICES ASSUME NEW i \in 1 .. (j + l + 1) PROVE y[i] = z[i]
      OBVIOUS
    <3>1. y[i] = IF i <= j THEN f[i] ELSE b[i - j]
      <4>1. i \in 1 .. (j + (l + 1))
        OBVIOUS
      <4>. QED BY <2>8, <4>1
    <3>2. CASE i <= j
      <4>1. i \in 1 .. (j + l)
        BY <3>2
      <4>. QED BY <3>1, <3>2, <4>1, <2>4, <2>5
    <3>3. CASE j < i /\ i <= j + l
      <4>1. i \in 1 .. (j + l) /\ ~(i <= j) /\ i - j \in 1 .. l
        BY <3>3
      <4>2. y[i] = b[i - j] /\ b[i - j] = a[i - j]
        BY <3>1, <4>1, <2>6
      <4>. QED BY <4>1, <4>2, <2>4, <2>5
    <3>4. CASE i = j + l + 1
      <4>1. ~(i <= j) /\ i - j = l + 1
        BY <3>4
      <4>. QED BY <3>1, <3>4, <4>1, <2>5, <2>6
    <3>5. i <= j \/ (j < i /\ i <= j + l) \/ i = j + l + 1
      OBVIOUS
    <3>. QED BY <3>2, <3>3, <3>4, <3>5
  <2>10. Len(y) = j + l + 1 /\ IsSeq(y) /\ IsSeq(z)
    BY <2>5, <2>8, SeqIs
  <2>11. y = z
    BY <2>5, <2>9, <2>10, SameSeq
  <2>. QED BY <2>1, <2>11
<1>. QED BY <1>8, <1>9, <1>10, <1>12, <1>13

-----------------------------------------------------------------------------
(* Steps of the queue and of the abstract one.                             *)

LEMMA SameContent ==
  ASSUME MakeInv, MakeInv', PlaceInv, PlaceInv', NEW b \in Buckets, NEW p \in Slots,
         \A y \in Threads : MakesAt(y, b, p)' <=> MakesAt(y, b, p),
         \A y \in Threads : MakesAt(y, b, p) => reg'[y].item = reg[y].item,
         committed'[b][p] = committed[b][p],
         data'[b][p] = data[b][p] \/ \E y \in Threads : MakesAt(y, b, p)
  PROVE  Content'[b][p] = Content[b][p]
<1>1. CASE \E y \in Threads : MakesAt(y, b, p)
  <2>1. PICK x \in Threads : MakesAt(x, b, p)
    BY <1>1
  <2>2. \A y \in Threads : MakesAt(y, b, p) => y = x
    BY <2>1 DEF MakeInv, MakeAt
  <2>3. Content[b][p] = Made(x)
    BY <2>1, <2>2 DEF PlaceInv
  <2>4. MakesAt(x, b, p)' /\ \A y \in Threads : MakesAt(y, b, p)' => y = x
    BY <2>1, <2>2
  <2>5. Content'[b][p] = Made(x)'
    BY <2>4 DEF PlaceInv
  <2>. QED BY <2>1, <2>3, <2>5 DEF Made
<1>2. CASE ~\E y \in Threads : MakesAt(y, b, p)
  <2>1. Content[b][p] = IF committed[b][p] = "poisoned" THEN Skipped ELSE Held(data[b][p])
    BY <1>2 DEF PlaceInv
  <2>2. \A y \in Threads : ~MakesAt(y, b, p)'
    BY <1>2
  <2>3. Content'[b][p] = IF committed'[b][p] = "poisoned" THEN Skipped ELSE Held(data'[b][p])
    BY <2>2 DEF PlaceInv, Skipped, Held
  <2>. QED BY <2>1, <2>3, <1>2
<1>. QED BY <1>1, <1>2

LEMMA PlacesStay ==
  ASSUME QueueAssumption, PlacesInv, PlacesInv', UNCHANGED <<head, tail, live, next>>,
         \A b \in live : /\ dequeuePos'[b] = dequeuePos[b]
                         /\ Min2(enqueuePos'[b], PoolSize) = Min2(enqueuePos[b], PoolSize),
         \A b \in live : \A p \in Slots :
           dequeuePos[b] <= p /\ p < enqueuePos[b] => Content'[b][p] = Content[b][p]
  PROVE  Places' = Places
<1>1. PICK ch, L, con, e, d, con2, e2, d2 :
        /\ ch = Chain /\ L = live /\ con = Content /\ e = enqueuePos /\ d = dequeuePos
        /\ con2 = Content' /\ e2 = enqueuePos' /\ d2 = dequeuePos'
  OBVIOUS
<1>2. Chain' = ch /\ live' = L
  BY <1>1, SameChain DEF chain
<1>3. Laid(ch, L, con, e, d) /\ Places = FlattenSeq(Layout(ch, con, e, d))
  BY <1>1 DEF PlacesInv
<1>4. Laid(ch, L, con2, e2, d2) /\ Places' = FlattenSeq(Layout(ch, con2, e2, d2))
  BY <1>1, <1>2 DEF PlacesInv
<1>5. \A b \in L : /\ d2[b] = d[b] /\ Min2(e2[b], PoolSize) = Min2(e[b], PoolSize)
                   /\ Alike(con[b], con2[b], d[b], e[b])
  BY <1>1 DEF Alike
<1>6. Layout(ch, con2, e2, d2) = Layout(ch, con, e, d)
  BY <1>3, <1>4, <1>5, PlacesSame
<1>. QED BY <1>3, <1>4, <1>6

\* Nothing but the answer of one thread changes.
LEMMA AnswersKeep ==
  ASSUME NEW x \in Threads, Others(x),
         \A y \in Threads : y # x => answer'[y] = answer[y],
         \A y \in Threads : y # x => \A b, p : MovesAt(y, b, p) => data'[b][p] = data[b][p],
         NEW a, pc'[x] = "move" => a = <<data'[reg'[x].bucket][reg'[x].pos]>>,
         pc'[x] # "move" => a = answer'[x]
  PROVE  Answers' = [Answers EXCEPT ![x] = a]
<1>1. PICK g : g = Answers'
  OBVIOUS
<1>2. g = [y \in Threads |-> IF pc'[y] = "move" THEN <<data'[reg'[y].bucket][reg'[y].pos]>>
                             ELSE answer'[y]]
  BY <1>1 DEF Answers, At
<1>3. PICK f : f = Answers
  OBVIOUS
<1>4. f = [y \in Threads |-> IF pc[y] = "move" THEN <<data[reg[y].bucket][reg[y].pos]>> ELSE answer[y]]
  BY <1>3 DEF Answers, At
<1>5. g[x] = a
  BY <1>2
<1>6. \A y \in Threads : y # x => g[y] = f[y]
  <2>. SUFFICES ASSUME NEW y \in Threads, y # x PROVE g[y] = f[y]
    OBVIOUS
  <2>1. pc'[y] = pc[y] /\ reg'[y] = reg[y] /\ answer'[y] = answer[y]
    BY DEF Others
  <2>2. PICK b, p : b = reg[y].bucket /\ p = reg[y].pos
    OBVIOUS
  <2>3. pc[y] = "move" => data'[b][p] = data[b][p]
    BY <2>2 DEF MovesAt
  <2>4. f[y] = IF pc[y] = "move" THEN <<data[b][p]>> ELSE answer[y]
    BY <1>4, <2>2
  <2>5. g[y] = IF pc[y] = "move" THEN <<data'[b][p]>> ELSE answer[y]
    BY <1>2, <2>1, <2>2
  <2>. QED BY <2>3, <2>4, <2>5
<1>7. g = [f EXCEPT ![x] = a]
  BY <1>2, <1>4, <1>5, <1>6
<1>. QED BY <1>1, <1>3, <1>7

LEMMA AnswersStay ==
  ASSUME NEW x \in Threads, Others(x), answer' = answer,
         \A y \in Threads : \A b, p : MovesAt(y, b, p) => data'[b][p] = data[b][p],
         pc'[x] # "move" \/ pc[x] = "move", pc[x] # "move" \/ pc'[x] = "move",
         pc[x] = "move" => reg'[x] = reg[x]
  PROVE  Answers' = Answers
<1>1. PICK g : g = Answers'
  OBVIOUS
<1>2. g = [y \in Threads |-> IF pc'[y] = "move" THEN <<data'[reg'[y].bucket][reg'[y].pos]>>
                             ELSE answer'[y]]
  BY <1>1 DEF Answers, At
<1>3. PICK f : f = Answers
  OBVIOUS
<1>4. f = [y \in Threads |-> IF pc[y] = "move" THEN <<data[reg[y].bucket][reg[y].pos]>> ELSE answer[y]]
  BY <1>3 DEF Answers, At
<1>5. \A y \in Threads : g[y] = f[y]
  <2>. SUFFICES ASSUME NEW y \in Threads PROVE g[y] = f[y]
    OBVIOUS
  <2>1. (pc'[y] = "move" <=> pc[y] = "move") /\ (pc[y] = "move" => reg'[y] = reg[y])
    BY DEF Others
  <2>2. PICK b, p : b = reg[y].bucket /\ p = reg[y].pos
    OBVIOUS
  <2>3. pc[y] = "move" => data'[b][p] = data[b][p]
    BY <2>2 DEF MovesAt
  <2>4. f[y] = IF pc[y] = "move" THEN <<data[b][p]>> ELSE answer[y]
    BY <1>4, <2>2
  <2>5. g[y] = IF pc[y] = "move" THEN <<data'[b][p]>> ELSE answer[y]
    BY <1>2, <2>1, <2>2
  <2>. QED BY <2>3, <2>4, <2>5
<1>. QED BY <1>1, <1>2, <1>3, <1>4, <1>5

\* A thread that is not emplacing an element has no place.
LEMMA IdleIs ==
  ASSUME QueueAssumption, MakeInv, PlacesInv, NEW x \in Threads, ~Making(x)
  PROVE  Ticket!Idle(x)
<1>1. PICK ch, L, con, e, d, q :
        /\ ch = Chain /\ L = live /\ con = Content /\ e = enqueuePos /\ d = dequeuePos
        /\ q = Places
  OBVIOUS
<1>2. Laid(ch, L, con, e, d) /\ q = FlattenSeq(Layout(ch, con, e, d))
  BY <1>1 DEF PlacesInv
<1>3. q \in Seq(PlaceType)
  <2>1. PICK s : s = Layout(ch, con, e, d)
    OBVIOUS
  <2>2. s \in Seq(Seq(PlaceType))
    BY <2>1, <1>2, LayoutIs
  <2>. QED BY <2>1, <2>2, <1>2, FlatType
<1>4. ASSUME NEW j \in 1 .. Len(q), q[j].by = x PROVE FALSE
  <2>1. PICK b \in L, p \in Slots : q[j] = con[b][p]
    BY <1>2, PlacesElem
  <2>2. b \in Buckets
    BY <1>2 DEF Laid
  <2>3. CASE \E y \in Threads : MakesAt(y, b, p)
    <3>1. PICK y \in Threads : MakesAt(y, b, p)
      BY <2>3
    <3>2. \A z \in Threads : MakesAt(z, b, p) => z = y
      BY <3>1 DEF MakeInv, MakeAt
    <3>3. con[b][p] = Made(y)
      BY <1>1, <2>2, <3>1, <3>2 DEF PlacesInv, PlaceInv
    <3>. QED BY <1>4, <2>1, <3>1, <3>3 DEF Made, MakesAt
  <2>4. CASE ~\E y \in Threads : MakesAt(y, b, p)
    <3>1. con[b][p] = Skipped \/ con[b][p] = Held(data[b][p])
      BY <1>1, <2>2, <2>4 DEF PlacesInv, PlaceInv
    <3>2. x = Poison \/ x = None
      BY <1>4, <2>1, <3>1 DEF Skipped, Held
    <3>. QED BY <3>2 DEF QueueAssumption
  <2>. QED BY <2>3, <2>4
<1>5. \A p \in Ticket!ToSet(q) : p.by # x
  BY <1>3, <1>4 DEF Ticket!ToSet
<1>. QED BY <1>1, <1>5 DEF Ticket!Idle

LEMMA PartEmpty ==
  ASSUME NEW con, NEW e, NEW d \in Nat, d = Min2(e, PoolSize)
  PROVE  PartOf(con, e, d) = <<>>
<1>1. PartOf(con, e, d) = [i \in 1 .. 0 |-> con[d + i - 1]]
  <2>1. d - d = 0
    OBVIOUS
  <2>. QED BY <2>1 DEF PartOf
<1>. QED BY <1>1

LEMMA LinksAlone ==
  ASSUME NEW c, NEW h, NEW t, NEW L, NEW nx, Links(c, h, t, L, nx), None \notin L,
         h = t \/ nx[h] = None
  PROVE  c = <<h>>
<1>1. PICK n \in Nat : n = Len(c) /\ n >= 1 /\ \A m \in 1 .. n : c[m] \in L
  BY DEF Links
<1>2. CASE n = 1
  <2>1. PICK g : g = <<h>>
    OBVIOUS
  <2>2. Len(g) = 1 /\ g[1] = h /\ IsSeq(g)
    BY <2>1 DEF IsSeq
  <2>3. IsSeq(c) /\ Len(c) = 1 /\ c[1] = h
    BY <1>1, <1>2, SeqIs DEF Links
  <2>4. \A i \in 1 .. Len(c) : c[i] = g[i]
    BY <2>2, <2>3
  <2>5. c = g
    BY <2>2, <2>3, <2>4, SameSeq
  <2>. QED BY <2>1, <2>5
<1>3. CASE n > 1
  <2>1. 1 \in 1 .. n /\ n \in 1 .. n /\ 1 \in 1 .. (n - 1) /\ 1 + 1 \in 1 .. n /\ 1 # n
    BY <1>3
  <2>2. c[1] = h /\ c[n] = t /\ nx[c[1]] = c[1 + 1] /\ (c[1] = c[n] => 1 = n)
    BY <2>1, <1>1 DEF Links
  <2>3. c[1 + 1] \in L
    BY <2>1, <1>1
  <2>. QED BY <2>1, <2>2, <2>3
<1>. QED BY <1>1, <1>2, <1>3

\* The oldest place is the head's.
LEMMA HeadPlaces ==
  ASSUME QueueAssumption, QueueInv, PlacesInv,
         NEW z, z = PartOf(Content[head], enqueuePos[head], dequeuePos[head])
  PROVE  /\ z # <<>> => Places # <<>> /\ Places[1] = z[1]
         /\ z = <<>> /\ (head = tail \/ next[head] = None) => Places = <<>>
<1>1. PICK ch, L, con, e, d, q :
        /\ ch = Chain /\ L = live /\ con = Content /\ e = enqueuePos /\ d = dequeuePos
        /\ q = Places
  OBVIOUS
<1>2. Laid(ch, L, con, e, d) /\ q = FlattenSeq(Layout(ch, con, e, d))
  BY <1>1 DEF PlacesInv
<1>3. Links(ch, head, tail, L, next)
  BY <1>1 DEF QueueInv, ChainInv
<1>4. PICK s : s = Layout(ch, con, e, d)
  OBVIOUS
<1>5. /\ s \in Seq(Seq(PlaceType)) /\ Len(s) = Len(ch) /\ Len(ch) \in Nat
      /\ \A n \in 1 .. Len(ch) : ch[n] \in L /\ s[n] = PartOf(con[ch[n]], e[ch[n]], d[ch[n]])
  BY <1>2, <1>4, LayoutIs
<1>6. ch # <<>> /\ ch[1] = head /\ 1 \in 1 .. Len(ch)
  <2>1. ch # <<>> /\ ch[1] = head /\ ch \in Seq(L)
    BY <1>3 DEF Links
  <2>. QED BY <2>1
<1>7. s[1] = z /\ s # <<>> /\ z \in Seq(PlaceType)
  <2>1. s[1] = z
    BY <1>1, <1>5, <1>6
  <2>2. s # <<>> /\ s[1] \in Seq(PlaceType)
    BY <1>5, <1>6
  <2>. QED BY <2>1, <2>2
<1>8. ASSUME z # <<>> PROVE q # <<>> /\ q[1] = z[1]
  <2>1. q = z \o FlattenSeq(Tail(s))
    BY <1>2, <1>4, <1>5, <1>7, FlatCons
  <2>2. PICK f, g : g = Tail(s) /\ f = FlattenSeq(g)
    OBVIOUS
  <2>3. g \in Seq(Seq(PlaceType))
    BY <2>2, <1>5, <1>7
  <2>4. f \in Seq(PlaceType)
    BY <2>2, <2>3, FlatType
  <2>5. q = z \o f
    BY <2>1, <2>2
  <2>. QED BY <2>4, <2>5, <1>7, <1>8
<1>9. ASSUME z = <<>>, head = tail \/ next[head] = None PROVE q = <<>>
  <2>1. None \notin L
    BY <1>2 DEF Laid, QueueAssumption
  <2>2. ch = <<head>>
    BY <2>1, <1>3, <1>9, LinksAlone
  <2>3. Len(s) = 1
    BY <2>2, <1>5
  <2>4. s = <<z>>
    <3>1. IsSeq(s) /\ IsSeq(<<z>>)
      BY <1>5, SeqIs DEF IsSeq
    <3>. QED BY <3>1, <2>3, <1>7, SameSeq
  <2>5. FlattenSeq(<<z>>) = z
    BY <1>7, FlatOne
  <2>. QED BY <2>4, <2>5, <1>2, <1>4, <1>9
<1>. QED BY <1>1, <1>8, <1>9

LEMMA OtherContent ==
  ASSUME MakeInv, MakeInv', PlaceInv, PlaceInv', NEW x \in Threads, Others(x),
         NEW b \in Buckets, NEW p \in Slots, ~MakesAt(x, b, p), ~MakesAt(x, b, p)',
         committed'[b][p] = committed[b][p],
         data'[b][p] = data[b][p] \/ \E y \in Threads : MakesAt(y, b, p)
  PROVE  Content'[b][p] = Content[b][p]
<1>1. \A y \in Threads : MakesAt(y, b, p)' <=> MakesAt(y, b, p)
  <2>. SUFFICES ASSUME NEW y \in Threads PROVE MakesAt(y, b, p)' <=> MakesAt(y, b, p)
    OBVIOUS
  <2>1. CASE y = x
    BY <2>1
  <2>2. CASE y # x
    BY <2>2 DEF MakesAt, Making, Others
  <2>. QED BY <2>1, <2>2
<1>2. \A y \in Threads : MakesAt(y, b, p) => reg'[y].item = reg[y].item
  BY DEF Others
<1>. QED BY <1>1, <1>2, SameContent

\* A step of a thread that emplaces nothing, which leaves the cursors of the consumers alone.
LEMMA PlacesQuiet ==
  ASSUME QueueAssumption, QueueInv, QueueInv', PlacesInv, PlacesInv', NEW x \in Threads, Others(x),
         ~Making(x), ~Making(x)',
         UNCHANGED <<head, tail, live, next, dequeuePos, committed>>,
         \A b \in live : Min2(enqueuePos'[b], PoolSize) = Min2(enqueuePos[b], PoolSize),
         \A b \in live : \A p \in Slots : dequeuePos[b] <= p => data'[b][p] = data[b][p]
  PROVE  Places' = Places
<1>1. MakeInv /\ MakeInv' /\ PlaceInv /\ PlaceInv' /\ live \subseteq Buckets
  BY DEF QueueInv, PlacesInv, Shape
<1>2. ASSUME NEW b \in live, NEW p \in Slots, dequeuePos[b] <= p
      PROVE  Content'[b][p] = Content[b][p]
  <2>1. ~MakesAt(x, b, p) /\ ~MakesAt(x, b, p)'
    BY DEF MakesAt
  <2>2. b \in Buckets /\ data'[b][p] = data[b][p] /\ committed'[b][p] = committed[b][p]
    BY <1>1, <1>2
  <2>. QED BY <2>1, <2>2, <1>1, OtherContent
<1>3. \A b \in live : /\ dequeuePos'[b] = dequeuePos[b]
                      /\ Min2(enqueuePos'[b], PoolSize) = Min2(enqueuePos[b], PoolSize)
  OBVIOUS
<1>. QED BY <1>2, <1>3, PlacesStay

\* What the steps have to show.
Mapped == Ticket!Next \/ UNCHANGED <<Places, Answers>>

LEMMA ClaimMaps ==
  ASSUME QueueAssumption, QueueInv, QueueInv', PlacesInv, PlacesInv', NEW x \in Threads,
         NEW i \in Items, ClaimSlot(x, i), pc[x] \in {"idle", "emplace"}
  PROVE  Mapped
<1>1. Shape /\ ChainInv /\ CursorInv /\ MakeInv /\ MakeInv' /\ PlaceInv /\ PlaceInv'
  BY DEF QueueInv, PlacesInv
<1>2. ClaimFacts(x, i)
  BY <1>1, ClaimIs
<1>3. /\ \A b \in Buckets : enqueuePos'[b] = IF b = tail THEN enqueuePos[tail] + 1 ELSE enqueuePos[b]
      /\ Others(x) /\ reg'[x].bucket = tail /\ reg'[x].pos = enqueuePos[tail] /\ reg'[x].item = i
      /\ \/ enqueuePos[tail] < PoolSize /\ pc'[x] = "construct"
         \/ ~(enqueuePos[tail] < PoolSize) /\ pc'[x] = "grow"
      /\ UNCHANGED <<head, tail, live, next, dequeuePos, committed, data, answer>>
  BY <1>2 DEF ClaimFacts
<1>4. tail \in live /\ live \subseteq Buckets /\ enqueuePos \in [Buckets -> Nat] /\ PoolSize \in Nat
  BY <1>1 DEF Shape, QueueAssumption
<1>5. ~Making(x)
  BY DEF Making
<1>6. Answers' = Answers
  BY <1>3, AnswersStay
<1>7. CASE ~(enqueuePos[tail] < PoolSize) /\ pc'[x] = "grow"
  <2>1. ~Making(x)'
    BY <1>7 DEF Making
  <2>2. \A b \in live : Min2(enqueuePos'[b], PoolSize) = Min2(enqueuePos[b], PoolSize)
    BY <1>3, <1>4, <1>7 DEF Min2
  <2>3. Places' = Places
    BY <2>1, <2>2, <1>3, <1>5, PlacesQuiet
  <2>. QED BY <2>3, <1>6 DEF Mapped
<1>8. CASE enqueuePos[tail] < PoolSize /\ pc'[x] = "construct"
  <2>1. PICK ch, L, con, e, d, con2, e2, c, w :
          /\ ch = Chain /\ L = live /\ con = Content /\ e = enqueuePos /\ d = dequeuePos
          /\ con2 = Content' /\ e2 = enqueuePos' /\ c = tail /\ w = enqueuePos[tail]
    OBVIOUS
  <2>2. Chain' = ch /\ live' = L /\ dequeuePos' = d
    BY <2>1, <1>3, SameChain DEF chain
  <2>3. Laid(ch, L, con, e, d) /\ Places = FlattenSeq(Layout(ch, con, e, d))
    BY <2>1 DEF PlacesInv
  <2>4. Laid(ch, L, con2, e2, d) /\ Places' = FlattenSeq(Layout(ch, con2, e2, d))
    BY <2>1, <2>2 DEF PlacesInv
  <2>5. Links(ch, head, c, L, next)
    BY <1>1, <2>1 DEF ChainInv
  <2>6. PICK s, s2 : s = Layout(ch, con, e, d) /\ s2 = Layout(ch, con2, e2, d)
    OBVIOUS
  <2>7. PICK n : n = Len(ch)
    OBVIOUS
  <2>8. /\ s \in Seq(Seq(PlaceType)) /\ Len(s) = n /\ n \in Nat
        /\ \A m \in 1 .. n : ch[m] \in L /\ s[m] = PartOf(con[ch[m]], e[ch[m]], d[ch[m]])
    BY <2>3, <2>6, <2>7, LayoutIs
  <2>9. /\ s2 \in Seq(Seq(PlaceType)) /\ Len(s2) = n
        /\ \A m \in 1 .. n : s2[m] = PartOf(con2[ch[m]], e2[ch[m]], d[ch[m]])
    BY <2>4, <2>6, <2>7, LayoutIs
  <2>10. n \in Nat \ {0} /\ ch[n] = c /\ n \in 1 .. n /\ \A m \in 1 .. (n - 1) : ch[m] # c /\ m \in 1 .. n
    <3>1. ch \in Seq(L) /\ ch # <<>> /\ ch[n] = c
      BY <2>5, <2>7 DEF Links
    <3>2. n \in Nat \ {0}
      BY <3>1, <2>7
    <3>3. n \in 1 .. n /\ \A m \in 1 .. (n - 1) : m \in 1 .. n /\ m # n
      BY <3>2
    <3>4. \A m, k \in 1 .. n : ch[m] = ch[k] => m = k
      BY <2>5, <2>7 DEF Links
    <3>. QED BY <3>1, <3>2, <3>3, <3>4
  <2>11. w \in Nat /\ w < PoolSize /\ w \in Slots /\ c \in L /\ c \in Buckets /\ e[c] = w /\ e2[c] = w + 1
    BY <1>3, <1>4, <1>8, <2>1 DEF Slots
  <2>12. MakesAt(x, c, w)'
    BY <1>3, <1>8, <2>1 DEF MakesAt, Making
  <2>13. \A b, p : MakesAt(x, b, p)' => b = c /\ p = w
    BY <1>3, <2>1 DEF MakesAt
  <2>14. ASSUME NEW b \in L, NEW p \in Slots, ~(b = c /\ p = w) PROVE con2[b][p] = con[b][p]
    <3>1. b \in Buckets /\ ~MakesAt(x, b, p)' /\ ~MakesAt(x, b, p)
      BY <1>4, <1>5, <2>1, <2>13, <2>14 DEF MakesAt
    <3>2. Content'[b][p] = Content[b][p]
      BY <3>1, <1>1, <1>3, OtherContent
    <3>. QED BY <3>2, <2>1
  <2>15. PICK o : o = con2[c][w]
    OBVIOUS
  <2>16. o = [item |-> i, by |-> x]
    <3>1. \A y \in Threads : MakesAt(y, c, w)' => y = x
      BY <1>1, <2>12 DEF MakeInv, MakeAt
    <3>2. Content'[c][w] = Made(x)'
      BY <1>1, <2>11, <2>12, <3>1 DEF PlaceInv
    <3>. QED BY <3>2, <1>3, <2>1, <2>15 DEF Made
  <2>17. o \in PlaceType
    BY <2>4, <2>11, <2>15 DEF Laid
  <2>18. \A m \in 1 .. (n - 1) : s2[m] = s[m]
    <3>. SUFFICES ASSUME NEW m \in 1 .. (n - 1) PROVE s2[m] = s[m]
      OBVIOUS
    <3>1. PICK b \in L : b = ch[m] /\ b # c /\ m \in 1 .. n
      BY <2>8, <2>10
    <3>2. PICK cb, cb2, eb, db : cb = con[b] /\ cb2 = con2[b] /\ eb = e[b] /\ db = d[b]
      OBVIOUS
    <3>3. eb \in Nat /\ db \in Nat /\ db <= Min2(eb, PoolSize) /\ e2[b] = eb
      BY <2>1, <2>3, <3>1, <3>2, <1>3, <1>4 DEF Laid
    <3>4. Alike(cb, cb2, db, eb)
      BY <2>14, <3>1, <3>2 DEF Alike
    <3>5. PartOf(cb2, eb, db) = PartOf(cb, eb, db)
      BY <3>3, <3>4, PartSame
    <3>. QED BY <2>8, <2>9, <3>1, <3>2, <3>3, <3>5
  <2>19. s2[n] = Append(s[n], o)
    <3>1. PICK cb, cb2, db : cb = con[c] /\ cb2 = con2[c] /\ db = d[c]
      OBVIOUS
    <3>2. Maps(cb, Slots, PlaceType) /\ Maps(cb2, Slots, PlaceType) /\ db \in Nat
      BY <2>3, <2>4, <2>11, <3>1 DEF Laid, Maps
    <3>3. db <= w
      <4>1. db <= Min2(w, PoolSize)
        BY <2>3, <2>11, <3>1 DEF Laid
      <4>. QED BY <4>1, <2>11 DEF Min2
    <3>4. Alike(cb, cb2, db, w)
      <4>1. \A p \in Slots : p < w => p # w
        BY <2>11 DEF Slots
      <4>. QED BY <4>1, <2>11, <2>14, <3>1 DEF Alike
    <3>5. PartOf(cb2, w + 1, db) = Append(PartOf(cb, w, db), cb2[w])
      BY <2>11, <3>2, <3>3, <3>4, PartSnoc
    <3>. QED BY <2>8, <2>9, <2>10, <2>11, <2>15, <3>1, <3>5
  <2>20. FlattenSeq(s2) = Append(FlattenSeq(s), o)
    <3>1. Longer(s, s2, n, o)
      BY <2>18, <2>19 DEF Longer
    <3>. QED BY <2>8, <2>9, <2>10, <2>17, <3>1, FlatLast
  <2>21. Places' = Append(Places, [item |-> i, by |-> x])
    BY <2>3, <2>4, <2>6, <2>16, <2>20
  <2>22. Ticket!Claim(x)
    BY <1>1, <1>5, <1>6, <2>21, IdleIs DEF Ticket!Claim
  <2>. QED BY <2>22 DEF Mapped, Ticket!Next
<1>. QED BY <1>3, <1>7, <1>8

\* One claimed slot becomes another place.
LEMMA PlacesChanged ==
  ASSUME QueueAssumption, QueueInv, PlacesInv, PlacesInv',
         UNCHANGED <<head, tail, live, next, enqueuePos, dequeuePos>>,
         NEW c \in live, NEW q \in Slots, dequeuePos[c] <= q, q < enqueuePos[c],
         NEW old, old = Content[c][q], NEW new, new = Content'[c][q],
         \A b \in live : \A p \in Slots : ~(b = c /\ p = q) => Content'[b][p] = Content[b][p]
  PROVE  Changed(Places, Places', old, new) /\ Places \in Seq(PlaceType)
<1>1. PICK ch, L, con, e, d, con2 :
        /\ ch = Chain /\ L = live /\ con = Content /\ e = enqueuePos /\ d = dequeuePos
        /\ con2 = Content'
  OBVIOUS
<1>2. Chain' = ch /\ live' = L /\ enqueuePos' = e /\ dequeuePos' = d
  BY <1>1, SameChain DEF chain
<1>3. Laid(ch, L, con, e, d) /\ Places = FlattenSeq(Layout(ch, con, e, d))
  BY <1>1 DEF PlacesInv
<1>4. Laid(ch, L, con2, e, d) /\ Places' = FlattenSeq(Layout(ch, con2, e, d))
  BY <1>1, <1>2 DEF PlacesInv
<1>5. Links(ch, head, tail, L, next)
  BY <1>1 DEF QueueInv, ChainInv
<1>6. PICK s, s2 : s = Layout(ch, con, e, d) /\ s2 = Layout(ch, con2, e, d)
  OBVIOUS
<1>7. /\ s \in Seq(Seq(PlaceType)) /\ Len(s) = Len(ch)
      /\ \A m \in 1 .. Len(ch) : ch[m] \in L /\ s[m] = PartOf(con[ch[m]], e[ch[m]], d[ch[m]])
  BY <1>3, <1>6, LayoutIs
<1>8. /\ s2 \in Seq(Seq(PlaceType)) /\ Len(s2) = Len(ch)
      /\ \A m \in 1 .. Len(ch) : s2[m] = PartOf(con2[ch[m]], e[ch[m]], d[ch[m]])
  BY <1>4, <1>6, LayoutIs
<1>9. PICK k \in 1 .. Len(ch) : ch[k] = c /\ \A m \in 1 .. Len(ch) : m # k => ch[m] # c
  <2>1. \E k \in 1 .. Len(ch) : ch[k] = c
    BY <1>1, <1>5 DEF Links
  <2>2. \A m, n \in 1 .. Len(ch) : ch[m] = ch[n] => m = n
    BY <1>5 DEF Links
  <2>. QED BY <2>1, <2>2
<1>10. c \in L /\ c \in Buckets /\ q \in Slots /\ d[c] <= q /\ q < e[c] /\ old = con[c][q] /\ new = con2[c][q]
  BY <1>1, <1>3 DEF Laid
<1>11. \A b \in L : \A p \in Slots : ~(b = c /\ p = q) => con2[b][p] = con[b][p]
  BY <1>1
<1>12. Changed(s[k], s2[k], old, new)
  <2>1. PICK cb, cb2, eb, db : cb = con[c] /\ cb2 = con2[c] /\ eb = e[c] /\ db = d[c]
    OBVIOUS
  <2>2. Maps(cb, Slots, PlaceType) /\ Maps(cb2, Slots, PlaceType) /\ eb \in Nat /\ db \in Nat
    BY <1>3, <1>4, <1>10, <2>1 DEF Laid, Maps
  <2>3. db <= q /\ q < eb /\ \A p \in Slots : p # q => cb2[p] = cb[p]
    BY <1>10, <1>11, <2>1
  <2>4. Changed(PartOf(cb, eb, db), PartOf(cb2, eb, db), cb[q], cb2[q])
    BY <2>2, <2>3, PartChanged
  <2>. QED BY <1>7, <1>8, <1>9, <1>10, <2>1, <2>4
<1>13. \A m \in 1 .. Len(s) : m # k => s2[m] = s[m]
  <2>. SUFFICES ASSUME NEW m \in 1 .. Len(ch), m # k PROVE s2[m] = s[m]
    BY <1>7
  <2>1. PICK b \in L : b = ch[m] /\ b # c
    BY <1>7, <1>9
  <2>2. PICK cb, cb2, eb, db : cb = con[b] /\ cb2 = con2[b] /\ eb = e[b] /\ db = d[b]
    OBVIOUS
  <2>3. eb \in Nat /\ db \in Nat /\ db <= Min2(eb, PoolSize)
    BY <1>3, <2>1, <2>2 DEF Laid
  <2>4. Alike(cb, cb2, db, eb)
    BY <1>11, <2>1, <2>2 DEF Alike
  <2>5. PartOf(cb2, eb, db) = PartOf(cb, eb, db)
    BY <2>3, <2>4, PartSame
  <2>. QED BY <1>7, <1>8, <2>1, <2>2, <2>5
<1>14. new \in PlaceType
  BY <1>4, <1>10 DEF Laid
<1>15. k \in 1 .. Len(s) /\ Len(s2) = Len(s)
  BY <1>7, <1>8
<1>16. Changed(FlattenSeq(s), FlattenSeq(s2), old, new)
  BY <1>7, <1>8, <1>12, <1>13, <1>14, <1>15, FlatUpdate
<1>17. FlattenSeq(s) \in Seq(PlaceType)
  BY <1>7, FlatType
<1>. QED BY <1>3, <1>4, <1>6, <1>16, <1>17

\* The oldest slot of the head is consumed.
LEMMA PlacesTail ==
  ASSUME QueueAssumption, QueueInv, PlacesInv, PlacesInv',
         UNCHANGED <<head, tail, live, next, enqueuePos>>, Content' = Content,
         NEW p \in Slots, p = dequeuePos[head], p < enqueuePos[head],
         dequeuePos' = [dequeuePos EXCEPT ![head] = p + 1]
  PROVE  Places # <<>> /\ Places[1] = Content[head][p] /\ Places' = Tail(Places)
<1>1. PICK ch, L, con, e, d, d2 :
        /\ ch = Chain /\ L = live /\ con = Content /\ e = enqueuePos /\ d = dequeuePos
        /\ d2 = dequeuePos'
  OBVIOUS
<1>2. Chain' = ch /\ live' = L /\ enqueuePos' = e /\ Content' = con
  BY <1>1, SameChain DEF chain
<1>3. Laid(ch, L, con, e, d) /\ Places = FlattenSeq(Layout(ch, con, e, d))
  BY <1>1 DEF PlacesInv
<1>4. Laid(ch, L, con, e, d2) /\ Places' = FlattenSeq(Layout(ch, con, e, d2))
  BY <1>1, <1>2 DEF PlacesInv
<1>5. Links(ch, head, tail, L, next)
  BY <1>1 DEF QueueInv, ChainInv
<1>6. PICK s, s2 : s = Layout(ch, con, e, d) /\ s2 = Layout(ch, con, e, d2)
  OBVIOUS
<1>7. /\ s \in Seq(Seq(PlaceType)) /\ Len(s) = Len(ch) /\ Len(ch) \in Nat
      /\ \A m \in 1 .. Len(ch) : ch[m] \in L /\ s[m] = PartOf(con[ch[m]], e[ch[m]], d[ch[m]])
  BY <1>3, <1>6, LayoutIs
<1>8. /\ s2 \in Seq(Seq(PlaceType)) /\ Len(s2) = Len(ch)
      /\ \A m \in 1 .. Len(ch) : s2[m] = PartOf(con[ch[m]], e[ch[m]], d2[ch[m]])
  BY <1>4, <1>6, LayoutIs
<1>9. /\ ch # <<>> /\ ch[1] = head /\ 1 \in 1 .. Len(ch)
      /\ \A m \in 2 .. Len(ch) : ch[m] # head /\ m \in 1 .. Len(ch)
  <2>1. ch # <<>> /\ ch[1] = head /\ ch \in Seq(L)
    BY <1>5 DEF Links
  <2>2. 1 \in 1 .. Len(ch) /\ \A m \in 2 .. Len(ch) : m \in 1 .. Len(ch) /\ m # 1
    BY <2>1
  <2>3. \A m, n \in 1 .. Len(ch) : ch[m] = ch[n] => m = n
    BY <1>5 DEF Links
  <2>. QED BY <2>1, <2>2, <2>3
<1>10. /\ head \in L /\ head \in Buckets /\ d \in [Buckets -> Nat] /\ p = d[head]
       /\ d2 = [d EXCEPT ![head] = p + 1] /\ d2[head] = p + 1
  <2>1. head \in L /\ L \subseteq Buckets
    BY <1>1, <1>3 DEF Laid, QueueInv, Shape
  <2>2. d \in [Buckets -> Nat]
    BY <1>3 DEF Laid
  <2>. QED BY <1>1, <2>1, <2>2
<1>11. s[1] # <<>> /\ s[1][1] = con[head][p] /\ s2[1] = Tail(s[1])
  <2>1. PICK cb, eb : cb = con[head] /\ eb = e[head]
    OBVIOUS
  <2>2. Maps(cb, Slots, PlaceType) /\ eb \in Nat /\ p < eb
    BY <1>1, <1>3, <1>10, <2>1 DEF Laid, Maps
  <2>a. p \in Nat /\ p < PoolSize
    BY DEF QueueAssumption, Slots
  <2>3. Alike(cb, cb, p + 1, eb)
    BY DEF Alike
  <2>4. /\ PartOf(cb, eb, p) # <<>> /\ PartOf(cb, eb, p)[1] = cb[p]
        /\ PartOf(cb, eb, p + 1) = Tail(PartOf(cb, eb, p))
    BY <2>2, <2>a, <2>3, PartTail
  <2>. QED BY <1>7, <1>8, <1>9, <1>10, <2>1, <2>4
<1>12. \A m \in 2 .. Len(s) : s2[m] = s[m]
  <2>. SUFFICES ASSUME NEW m \in 2 .. Len(ch) PROVE s2[m] = s[m]
    BY <1>7
  <2>1. PICK b \in L : b = ch[m] /\ b # head /\ m \in 1 .. Len(ch)
    BY <1>7, <1>9
  <2>2. d2[b] = d[b]
    BY <1>3, <1>10, <2>1 DEF Laid
  <2>. QED BY <1>7, <1>8, <2>1, <2>2
<1>13. s # <<>> /\ Len(s2) = Len(s)
  BY <1>7, <1>8, <1>9
<1>14. /\ FlattenSeq(s) # <<>> /\ FlattenSeq(s)[1] = s[1][1]
       /\ FlattenSeq(s2) = Tail(FlattenSeq(s))
  BY <1>7, <1>8, <1>11, <1>12, <1>13, FlatTail
<1>. QED BY <1>1, <1>3, <1>4, <1>6, <1>11, <1>14

LEMMA TryDequeueMaps ==
  ASSUME QueueAssumption, QueueInv, QueueInv', PlacesInv, PlacesInv', NEW x \in Threads, TryDequeue(x)
  PROVE  Mapped
<1>1. /\ pc[x] \in {"dequeue", "idle"} /\ pc' = [pc EXCEPT ![x] = "look"]
      /\ reg' = [reg EXCEPT ![x].bucket = head, ![x].pos = dequeuePos[head]]
      /\ UNCHANGED <<head, tail, live, next, enqueuePos, dequeuePos, committed, data, answer>>
  BY DEF TryDequeue, At, Goto, Lock, chain
<1>2. reg \in [Threads -> Registers] /\ pc \in [Threads -> Labels]
  BY DEF QueueInv, Shape
<1>3. pc'[x] = "look" /\ Others(x)
  BY <1>1, <1>2 DEF Others
<1>4. ~Making(x) /\ ~Making(x)' /\ pc[x] # "move" /\ pc'[x] # "move"
  BY <1>1, <1>3 DEF Making
<1>5. Places' = Places
  BY <1>1, <1>3, <1>4, PlacesQuiet
<1>6. Answers' = Answers
  BY <1>1, <1>3, <1>4, AnswersStay
<1>. QED BY <1>5, <1>6 DEF Mapped

LEMMA ConstructMaps ==
  ASSUME QueueAssumption, QueueInv, QueueInv', PlacesInv, PlacesInv', NEW x \in Threads, Construct(x)
  PROVE  Mapped
<1>1. /\ Shape /\ MakeInv /\ MakeInv' /\ PlaceInv /\ PlaceInv' /\ ReadInv
  BY DEF QueueInv, PlacesInv
<1>2. PICK c, q, i : c = reg[x].bucket /\ q = reg[x].pos /\ i = reg[x].item
  OBVIOUS
<1>3. /\ pc[x] = "construct" /\ pc' = [pc EXCEPT ![x] = "publish"] /\ reg' = reg
      /\ data' = data \/ data' = [data EXCEPT ![c][q] = i]
      /\ UNCHANGED <<head, tail, live, next, enqueuePos, dequeuePos, committed, answer>>
  BY <1>2 DEF Construct, At, Goto, chain
<1>4. pc \in [Threads -> Labels] /\ data \in [Buckets -> [Slots -> Items \cup {None}]]
  BY <1>1 DEF Shape
<1>5. pc'[x] = "publish" /\ Others(x) /\ \A y \in Threads : y # x => pc'[y] = pc[y]
  BY <1>3, <1>4 DEF Others
<1>6. MakesAt(x, c, q) /\ MakeAt(x, c, q)
  BY <1>1, <1>2, <1>3 DEF MakeInv, MakesAt, Making
<1>7. c \in live /\ c \in Buckets /\ q \in Slots /\ dequeuePos[c] <= q
  BY <1>1, <1>6 DEF MakeAt, Shape
<1>8. \A y \in Threads : \A b, s : MakesAt(y, b, s)' <=> MakesAt(y, b, s)
  BY <1>3, <1>5 DEF MakesAt, Making
<1>9. \A b \in Buckets : \A s \in Slots : ~(b = c /\ s = q) => data'[b][s] = data[b][s]
  <2>1. CASE data' = data
    BY <2>1
  <2>2. CASE data' = [data EXCEPT ![c][q] = i]
    BY <2>2, <1>4, <1>7
  <2>. QED BY <2>1, <2>2, <1>3
<1>10. ASSUME NEW b \in live, NEW p \in Slots PROVE Content'[b][p] = Content[b][p]
  <2>1. b \in Buckets
    BY <1>1 DEF Shape
  <2>2. data'[b][p] = data[b][p] \/ \E y \in Threads : MakesAt(y, b, p)
    BY <2>1, <1>6, <1>9
  <2>3. committed'[b][p] = committed[b][p] /\ \A y \in Threads : reg'[y].item = reg[y].item
    BY <1>3
  <2>4. \A y \in Threads : MakesAt(y, b, p)' <=> MakesAt(y, b, p)
    BY <1>8
  <2>. QED BY <1>1, <2>1, <2>2, <2>3, <2>4, SameContent
<1>11. Places' = Places
  BY <1>3, <1>10, PlacesStay
<1>12. \A y \in Threads : \A b, s : MovesAt(y, b, s) => data'[b][s] = data[b][s]
  <2>. SUFFICES ASSUME NEW y \in Threads, NEW b, NEW s, MovesAt(y, b, s) PROVE data'[b][s] = data[b][s]
    OBVIOUS
  <2>1. ReadsAt(y, s) /\ pc[y] = "move" /\ reg[y].bucket = b
    BY DEF MovesAt, ReadsAt, Reading
  <2>2. b = head /\ s \in Slots /\ s < dequeuePos[head]
    BY <1>1, <2>1 DEF ReadInv, ReadAt
  <2>3. head \in Buckets /\ dequeuePos \in [Buckets -> Nat]
    BY <1>1 DEF Shape
  <2>4. ~(b = c /\ s = q)
    BY <1>7, <2>2, <2>3 DEF Slots
  <2>. QED BY <1>9, <2>2, <2>3, <2>4
<1>13. Answers' = Answers
  BY <1>3, <1>5, <1>12, AnswersStay
<1>. QED BY <1>11, <1>13 DEF Mapped

\* A place that is x's is published.
LEMMA SettleIs ==
  ASSUME QueueAssumption, NEW x \in Threads, NEW i, NEW q \in Seq(PlaceType), q = Places, NEW q2, q2 = Places',
         NEW new, Changed(q, q2, [item |-> i, by |-> x], new),
         \/ new = Held(i) /\ Answers' = [Answers EXCEPT ![x] = <<i>>]
         \/ new = Skipped /\ Answers' = [Answers EXCEPT ![x] = None]
  PROVE  Ticket!Settle(x)
<1>1. PICK n \in 1 .. Len(q) : q[n] = [item |-> i, by |-> x] /\ q2 = Put(q, n, new)
  BY DEF Changed
<1>2. n \in DOMAIN q
  OBVIOUS
<1>3. q[n].by = x /\ q[n].item = i
  BY <1>1
<1>4. q2 = [q EXCEPT ![n] = new]
  BY <1>1 DEF Put
<1>5. CASE new = Held(i) /\ Answers' = [Answers EXCEPT ![x] = <<i>>]
  <2>1. PICK g : g = q[n]
    OBVIOUS
  <2>2. g = [item |-> i, by |-> x]
    BY <1>1, <2>1
  <2>3. [g EXCEPT !.by = None] = [item |-> i, by |-> None]
    BY <2>2
  <2>4. q2 = [q EXCEPT ![n].by = None]
    BY <1>4, <1>5, <2>1, <2>3 DEF Held
  <2>. QED BY <1>2, <1>3, <1>5, <2>4 DEF Ticket!Settle, Ticket!Returns
<1>6. CASE new = Skipped /\ Answers' = [Answers EXCEPT ![x] = None]
  BY <1>2, <1>3, <1>4, <1>6 DEF Ticket!Settle, Ticket!Returns, Skipped
<1>. QED BY <1>5, <1>6

LEMMA PublishMaps ==
  ASSUME QueueAssumption, QueueInv, QueueInv', PlacesInv, PlacesInv', NEW x \in Threads, Publish(x)
  PROVE  Mapped
<1>1. /\ Shape /\ Outer /\ MakeInv /\ MakeInv' /\ PlaceInv /\ PlaceInv' /\ ItemInv
  BY DEF QueueInv, PlacesInv
<1>2. PICK c, q, i, m : /\ c = reg[x].bucket /\ q = reg[x].pos /\ i = reg[x].item
                        /\ m = IF i \in Throws THEN "poisoned" ELSE "ready"
  OBVIOUS
<1>3. /\ pc[x] = "publish" /\ pc' = [pc EXCEPT ![x] = "idle"] /\ reg' = [reg EXCEPT ![x] = NoReg]
      /\ committed' = [committed EXCEPT ![c][q] = m]
      /\ answer' = [answer EXCEPT ![x] = IF i \in Throws THEN None ELSE <<i>>]
      /\ UNCHANGED <<head, tail, live, next, enqueuePos, dequeuePos, data>>
  BY <1>2 DEF Publish, At, Goto, Return, Unlock, chain
<1>4. /\ pc \in [Threads -> Labels] /\ committed \in [Buckets -> [Slots -> Marks]]
      /\ reg \in [Threads -> Registers] /\ answer \in [Threads -> Seq(Items) \cup {None}]
  BY <1>1 DEF Shape, Outer
<1>5. /\ pc'[x] = "idle" /\ Others(x) /\ reg'[x] = NoReg
      /\ answer'[x] = (IF i \in Throws THEN None ELSE <<i>>)
      /\ \A y \in Threads : y # x => answer'[y] = answer[y]
  BY <1>3, <1>4 DEF Others
<1>6. MakesAt(x, c, q) /\ MakeAt(x, c, q)
  BY <1>1, <1>2, <1>3 DEF MakeInv, MakesAt, Making
<1>7. /\ c \in live /\ c \in Buckets /\ q \in Slots /\ dequeuePos[c] <= q /\ q < enqueuePos[c]
      /\ data[c][q] = (IF i \in Throws THEN None ELSE i)
      /\ \A y \in Threads : MakesAt(y, c, q) => y = x
  BY <1>1, <1>2, <1>3, <1>6 DEF MakeAt, Shape
<1>8. /\ \A b \in Buckets : \A s \in Slots : ~(b = c /\ s = q) => committed'[b][s] = committed[b][s]
      /\ committed'[c][q] = m
  BY <1>3, <1>4, <1>7
<1>9. ~Making(x)' /\ \A b, s : ~MakesAt(x, b, s)'
  BY <1>5 DEF MakesAt, Making
<1>10. \A b, s : MakesAt(x, b, s) => b = c /\ s = q
  BY <1>2 DEF MakesAt
<1>11. ASSUME NEW b \in live, NEW p \in Slots, ~(b = c /\ p = q) PROVE Content'[b][p] = Content[b][p]
  <2>1. b \in Buckets
    BY <1>1 DEF Shape
  <2>2. ~MakesAt(x, b, p) /\ ~MakesAt(x, b, p)'
    BY <1>9, <1>10, <1>11
  <2>3. committed'[b][p] = committed[b][p] /\ data'[b][p] = data[b][p]
    BY <2>1, <1>3, <1>8, <1>11
  <2>. QED BY <1>1, <1>5, <2>1, <2>2, <2>3, OtherContent
<1>12. PICK old, new : old = Content[c][q] /\ new = Content'[c][q]
  OBVIOUS
<1>13. old = [item |-> i, by |-> x]
  <2>1. Content[c][q] = Made(x)
    BY <1>1, <1>6, <1>7 DEF PlaceInv
  <2>. QED BY <1>2, <1>12, <2>1 DEF Made
<1>14. new = IF i \in Throws THEN Skipped ELSE Held(i)
  <2>1. \A y \in Threads : ~MakesAt(y, c, q)'
    <3>. SUFFICES ASSUME NEW y \in Threads, MakesAt(y, c, q)' PROVE FALSE
      OBVIOUS
    <3>1. y # x
      BY <1>9
    <3>2. MakesAt(y, c, q)
      BY <3>1, <1>5 DEF MakesAt, Making, Others
    <3>. QED BY <3>1, <3>2, <1>7
  <2>2. Content'[c][q] = IF committed'[c][q] = "poisoned" THEN Skipped ELSE Held(data'[c][q])
    BY <1>1, <1>7, <2>1 DEF PlaceInv, Skipped, Held
  <2>3. (m = "poisoned" <=> i \in Throws) /\ data'[c][q] = (IF i \in Throws THEN None ELSE i)
    BY <1>2, <1>3, <1>7
  <2>. QED BY <1>8, <1>12, <2>2, <2>3
<1>15. PICK qs, qs2 : qs = Places /\ qs2 = Places'
  OBVIOUS
<1>16. Changed(qs, qs2, old, new) /\ qs \in Seq(PlaceType)
  <2>1. UNCHANGED <<head, tail, live, next, enqueuePos, dequeuePos>>
    BY <1>3
  <2>2. Changed(Places, Places', old, new) /\ Places \in Seq(PlaceType)
    BY <1>7, <1>11, <1>12, <2>1, PlacesChanged
  <2>. QED BY <1>15, <2>2
<1>17. PICK a : a = IF i \in Throws THEN None ELSE <<i>>
  OBVIOUS
<1>18. Answers' = [Answers EXCEPT ![x] = a]
  <2>1. \A b, p : data'[b][p] = data[b][p]
    BY <1>3
  <2>. QED BY <1>5, <1>17, <2>1, AnswersKeep
<1>19. \/ new = Held(i) /\ Answers' = [Answers EXCEPT ![x] = <<i>>]
       \/ new = Skipped /\ Answers' = [Answers EXCEPT ![x] = None]
  BY <1>14, <1>17, <1>18
<1>20. Changed(qs, qs2, [item |-> i, by |-> x], new)
  BY <1>13, <1>16
<1>21. Ticket!Settle(x)
  BY <1>15, <1>16, <1>19, <1>20, SettleIs
<1>. QED BY <1>21 DEF Mapped, Ticket!Next

\* A dequeue that fails finds the oldest place not published, if there is one.
LEMMA NoneIsFirst ==
  ASSUME QueueAssumption, QueueInv, PlacesInv, NEW p \in Nat, p <= dequeuePos[head],
         \/ p >= PoolSize /\ next[head] = None
         \/ p < PoolSize /\ committed[head][p] = "empty"
  PROVE  Places = <<>> \/ Ticket!First(Threads)
<1>1. /\ Shape /\ CursorInv /\ SlotInv /\ MakeInv /\ PlaceInv
  BY DEF QueueInv, PlacesInv
<1>2. /\ head \in live /\ head \in Buckets /\ PoolSize \in Nat
      /\ enqueuePos \in [Buckets -> Nat] /\ dequeuePos \in [Buckets -> Nat]
  BY <1>1 DEF Shape, QueueAssumption
<1>3. PICK e \in Nat, d \in Nat : e = enqueuePos[head] /\ d = dequeuePos[head]
  BY <1>2
<1>4. d <= e /\ d <= PoolSize /\ (head # tail => e >= PoolSize)
  BY <1>1, <1>2, <1>3 DEF CursorInv, CursorOK
<1>5. PICK cb, z : cb = Content[head] /\ z = PartOf(cb, e, d)
  OBVIOUS
<1>6. z = PartOf(Content[head], enqueuePos[head], dequeuePos[head])
  BY <1>3, <1>5
<1>7. ASSUME d = Min2(e, PoolSize), head = tail \/ next[head] = None PROVE Places = <<>>
  <2>1. z = <<>>
    BY <1>5, <1>7, PartEmpty
  <2>. QED BY <2>1, <1>6, <1>7, HeadPlaces
<1>8. CASE p >= PoolSize /\ next[head] = None
  <2>1. d = PoolSize
    BY <1>2, <1>3, <1>4, <1>8
  <2>2. d = Min2(e, PoolSize)
    BY <1>2, <1>4, <2>1 DEF Min2
  <2>. QED BY <2>2, <1>7, <1>8
<1>9. CASE p < PoolSize /\ committed[head][p] = "empty"
  <2>1. p \in Slots
    BY <1>2, <1>9 DEF Slots
  <2>2. SlotOK(head, p)
    BY <2>1, <1>1, <1>2 DEF SlotInv
  <2>3. ~(p < d)
    BY <2>2, <1>3, <1>9 DEF SlotOK
  <2>4. p = d
    BY <2>3, <1>3
  <2>5. CASE p < e
    <3>1. PICK y \in Threads : MakesAt(y, head, p)
      BY <2>2, <2>5, <1>3, <1>9 DEF SlotOK
    <3>2. \A v \in Threads : MakesAt(v, head, p) => v = y
      BY <3>1, <1>1 DEF MakeInv, MakeAt
    <3>3. Content[head][p] = Made(y)
      BY <3>1, <3>2, <2>1, <1>1, <1>2 DEF PlaceInv
    <3>4. Maps(cb, Slots, PlaceType)
      BY <1>2, <1>5 DEF PlacesInv, Laid, Maps
    <3>5. Alike(cb, cb, d + 1, e)
      BY DEF Alike
    <3>6. z # <<>> /\ z[1] = cb[d]
      BY <3>4, <3>5, <2>4, <2>5, <1>5, <1>9, PartTail
    <3>7. Places # <<>> /\ Places[1] = z[1]
      BY <3>6, <1>6, HeadPlaces
    <3>8. Places[1] = Made(y)
      BY <3>3, <3>6, <3>7, <2>4, <1>5
    <3>. QED BY <3>7, <3>8 DEF Ticket!First, Made
  <2>6. CASE ~(p < e)
    <3>1. d = e /\ e < PoolSize
      BY <2>4, <2>6, <1>4, <1>9
    <3>2. d = Min2(e, PoolSize) /\ head = tail
      BY <3>1, <1>2, <1>4 DEF Min2
    <3>. QED BY <3>2, <1>7
  <2>. QED BY <2>5, <2>6
<1>. QED BY <1>8, <1>9

LEMMA LookMaps ==
  ASSUME QueueAssumption, QueueInv, QueueInv', PlacesInv, PlacesInv', NEW x \in Threads, Look(x)
  PROVE  Mapped
<1>1. /\ Shape /\ Outer /\ ReadInv /\ MakeInv
  BY DEF QueueInv
<1>2. PICK b, p : b = reg[x].bucket /\ p = reg[x].pos
  OBVIOUS
<1>3. /\ pc[x] = "look"
      /\ UNCHANGED <<head, tail, live, next, enqueuePos, dequeuePos, committed, data>>
      /\ \/ Goto(x, "retire") /\ UNCHANGED <<reg, answer>>
         \/ /\ \/ p >= PoolSize /\ next[b] = None
               \/ p < PoolSize /\ committed[b][p] = "empty"
            /\ Return(x, None)
         \/ /\ reg' = [reg EXCEPT ![x].state = committed[b][p]]
            /\ Goto(x, "cas") /\ UNCHANGED answer
  BY <1>2 DEF Look, At, Unlock, chain
<1>4. /\ reg \in [Threads -> Registers] /\ pc \in [Threads -> Labels]
      /\ answer \in [Threads -> Seq(Items) \cup {None}]
  BY <1>1 DEF Shape, Outer
<1>5. ~Making(x) /\ Reading(x) /\ pc[x] # "move"
  BY <1>3 DEF Making, Reading
<1>6. b = head /\ p <= dequeuePos[head] /\ p \in Nat
  <2>1. ReadAt(x, p)
    BY <1>1, <1>2, <1>5 DEF ReadInv, ReadsAt
  <2>2. p \in Nat
    BY <1>2, <1>4 DEF Registers
  <2>. QED BY <1>2, <2>1, <2>2 DEF ReadAt
<1>7. CASE Goto(x, "retire") /\ UNCHANGED <<reg, answer>>
  <2>1. pc'[x] = "retire" /\ Others(x)
    BY <1>4, <1>7 DEF Goto, Others
  <2>2. ~Making(x)' /\ pc'[x] # "move"
    BY <2>1 DEF Making
  <2>3. Places' = Places
    BY <1>3, <1>5, <2>1, <2>2, PlacesQuiet
  <2>4. Answers' = Answers
    BY <1>3, <1>5, <1>7, <2>1, <2>2, AnswersStay
  <2>. QED BY <2>3, <2>4 DEF Mapped
<1>8. CASE /\ reg' = [reg EXCEPT ![x].state = committed[b][p]]
           /\ Goto(x, "cas") /\ UNCHANGED answer
  <2>1. pc'[x] = "cas" /\ Others(x)
    BY <1>4, <1>8 DEF Goto, Others
  <2>2. ~Making(x)' /\ pc'[x] # "move"
    BY <2>1 DEF Making
  <2>3. Places' = Places
    BY <1>3, <1>5, <2>1, <2>2, PlacesQuiet
  <2>4. Answers' = Answers
    BY <1>3, <1>5, <1>8, <2>1, <2>2, AnswersStay
  <2>. QED BY <2>3, <2>4 DEF Mapped
<1>9. CASE /\ \/ p >= PoolSize /\ next[b] = None
              \/ p < PoolSize /\ committed[b][p] = "empty"
           /\ Return(x, None)
  <2>1. /\ pc'[x] = "idle" /\ Others(x) /\ answer'[x] = None
        /\ \A y \in Threads : y # x => answer'[y] = answer[y]
    BY <1>4, <1>9 DEF Return, Goto, Others
  <2>2. ~Making(x)' /\ pc'[x] # "move"
    BY <2>1 DEF Making
  <2>3. Places' = Places
    BY <1>3, <1>5, <2>1, <2>2, PlacesQuiet
  <2>4. PICK a : a = None
    OBVIOUS
  <2>5. \A u, s : data'[u][s] = data[u][s]
    BY <1>3
  <2>6. Answers' = [Answers EXCEPT ![x] = a]
    BY <2>1, <2>2, <2>4, <2>5, AnswersKeep
  <2>7. Places = <<>> \/ Ticket!First(Threads)
    BY <1>6, <1>9, NoneIsFirst
  <2>8. Ticket!Idle(x)
    BY <1>1, <1>5, IdleIs
  <2>9. Ticket!Fail(x)
    BY <2>3, <2>4, <2>6, <2>7, <2>8 DEF Ticket!Fail, Ticket!Returns
  <2>. QED BY <2>9 DEF Mapped, Ticket!Next
<1>. QED BY <1>3, <1>7, <1>8, <1>9

\* The producers, the flags and the elements are as they were: so are the places.
LEMMA ContentSame ==
  ASSUME MakeInv, MakeInv', PlacesInv, PlacesInv', NEW x \in Threads, Others(x), ~Making(x), ~Making(x)',
         UNCHANGED <<committed, data>>
  PROVE  Content' = Content
<1>1. PICK f, g : f = Content /\ g = Content'
  OBVIOUS
<1>2. f \in [Buckets -> [Slots -> PlaceType]] /\ g \in [Buckets -> [Slots -> PlaceType]]
  BY <1>1 DEF PlacesInv, Laid
<1>3. ASSUME NEW b \in Buckets, NEW p \in Slots PROVE g[b][p] = f[b][p]
  <2>1. ~MakesAt(x, b, p) /\ ~MakesAt(x, b, p)'
    BY DEF MakesAt
  <2>2. committed'[b][p] = committed[b][p] /\ data'[b][p] = data[b][p]
    OBVIOUS
  <2>3. PlaceInv /\ PlaceInv'
    BY DEF PlacesInv
  <2>4. Content'[b][p] = Content[b][p]
    BY <2>1, <2>2, <2>3, OtherContent
  <2>. QED BY <2>4, <1>1
<1>4. \A b \in Buckets : g[b] = f[b]
  BY <1>2, <1>3
<1>5. g = f
  BY <1>2, <1>4
<1>. QED BY <1>1, <1>5

LEMMA CasMaps ==
  ASSUME QueueAssumption, QueueInv, QueueInv', PlacesInv, PlacesInv', NEW x \in Threads, Cas(x)
  PROVE  Mapped
<1>1. /\ Shape /\ MakeInv /\ MakeInv' /\ SlotInv /\ PlaceInv
  BY DEF QueueInv, PlacesInv
<1>2. PICK p, m : p = reg[x].pos /\ m = reg[x].state
  OBVIOUS
<1>3. CasFacts(x, p, m)
  BY <1>2, CasIs
<1>4. /\ pc[x] = "cas"
      /\ UNCHANGED <<head, tail, live, next, enqueuePos, committed, data, answer>>
      /\ reg[x].bucket = head /\ p \in Slots /\ p <= dequeuePos[head]
      /\ committed[head][p] = m /\ m # "empty"
      /\ Others(x) /\ reg'[x].bucket = head
      /\ \/ pc'[x] = "look" /\ dequeuePos' = dequeuePos
         \/ /\ dequeuePos[head] = p /\ dequeuePos' = [dequeuePos EXCEPT ![head] = p + 1]
            /\ \/ pc'[x] = "move" /\ reg'[x].pos = p /\ m = "ready"
               \/ pc'[x] = "look" /\ m # "ready"
  BY <1>3 DEF CasFacts
<1>5. ~Making(x) /\ pc[x] # "move" /\ ~Making(x)'
  BY <1>4 DEF Making
<1>6. Ticket!Idle(x)
  BY <1>1, <1>5, IdleIs
<1>7. CASE pc'[x] = "look" /\ dequeuePos' = dequeuePos
  <2>1. Places' = Places
    BY <1>4, <1>5, <1>7, PlacesQuiet
  <2>2. Answers' = Answers
    BY <1>4, <1>5, <1>7, AnswersStay
  <2>. QED BY <2>1, <2>2 DEF Mapped
<1>8. CASE dequeuePos[head] = p /\ dequeuePos' = [dequeuePos EXCEPT ![head] = p + 1]
  <2>1. head \in live /\ head \in Buckets /\ enqueuePos \in [Buckets -> Nat] /\ p \in Nat
    BY <1>1, <1>4 DEF Shape, Slots
  <2>2. p < enqueuePos[head]
    <3>1. SlotOK(head, p)
      BY <1>1, <1>4, <2>1 DEF SlotInv
    <3>2. ~(p >= enqueuePos[head])
      BY <3>1, <1>4 DEF SlotOK
    <3>. QED BY <3>2, <2>1
  <2>3. Content' = Content
    BY <1>1, <1>4, <1>5, ContentSame
  <2>4. /\ Places # <<>> /\ Places[1] = Content[head][p] /\ Places' = Tail(Places)
    <3>1. UNCHANGED <<head, tail, live, next, enqueuePos>> /\ p = dequeuePos[head]
      BY <1>4, <1>8
    <3>. QED BY <3>1, <2>2, <2>3, <1>4, <1>8, PlacesTail
  <2>5. Content[head][p] = IF m = "poisoned" THEN Skipped ELSE Held(data[head][p])
    <3>1. \A y \in Threads : ~MakesAt(y, head, p)
      BY <1>1, <1>4 DEF MakeInv, MakeAt
    <3>. QED BY <3>1, <1>1, <1>4, <2>1 DEF PlaceInv, Skipped, Held
  <2>6. PICK q : q = Places
    OBVIOUS
  <2>7. CASE pc'[x] = "move" /\ reg'[x].pos = p /\ m = "ready"
    <3>1. q[1] = Held(data[head][p])
      BY <2>4, <2>5, <2>6, <2>7
    <3>2. q[1].by = None /\ Head(q) = q[1] /\ q[1].item = data[head][p]
      BY <3>1 DEF Held
    <3>3. PICK a : a = <<data[head][p]>>
      OBVIOUS
    <3>4. /\ pc'[x] = "move" => a = <<data'[reg'[x].bucket][reg'[x].pos]>>
          /\ pc'[x] # "move" => a = answer'[x]
      BY <1>4, <2>7, <3>3
    <3>5. \A b, s : data'[b][s] = data[b][s]
      BY <1>4
    <3>6. \A y \in Threads : answer'[y] = answer[y]
      BY <1>4
    <3>7. Answers' = [Answers EXCEPT ![x] = a]
      BY <1>4, <3>4, <3>5, <3>6, AnswersKeep
    <3>8. Ticket!First({None})
      BY <2>4, <2>6, <3>2 DEF Ticket!First
    <3>9. Ticket!Returns(x, <<Head(Places).item>>)
      BY <2>6, <3>2, <3>3, <3>7 DEF Ticket!Returns
    <3>10. Ticket!Take(x)
      BY <1>6, <2>4, <3>8, <3>9 DEF Ticket!Take
    <3>. QED BY <3>10 DEF Mapped, Ticket!Next
  <2>8. CASE pc'[x] = "look" /\ m # "ready"
    <3>1. m = "poisoned"
      <4>1. m \in Marks
        BY <1>1, <1>4, <2>1 DEF Shape
      <4>. QED BY <4>1, <1>4, <2>8 DEF Marks
    <3>2. q[1].by = Poison
      BY <3>1, <2>4, <2>5, <2>6 DEF Skipped
    <3>3. Answers' = Answers
      BY <1>4, <1>5, <2>8, AnswersStay
    <3>4. Ticket!First({Poison})
      BY <2>4, <2>6, <3>2 DEF Ticket!First
    <3>5. Ticket!Skip(x)
      BY <1>6, <2>4, <3>3, <3>4 DEF Ticket!Skip
    <3>. QED BY <3>5 DEF Mapped, Ticket!Next
  <2>. QED BY <1>4, <1>5, <2>7, <2>8, <1>8, <1>7
<1>. QED BY <1>4, <1>7, <1>8

LEMMA MoveMaps ==
  ASSUME QueueAssumption, QueueInv, QueueInv', PlacesInv, PlacesInv', NEW x \in Threads, Move(x)
  PROVE  Mapped
<1>1. /\ Shape /\ Outer /\ ReadInv
  BY DEF QueueInv
<1>2. PICK p : p = reg[x].pos
  OBVIOUS
<1>3. /\ reg \in [Threads -> Registers] /\ pc \in [Threads -> Labels]
      /\ head \in live /\ live \subseteq Buckets /\ dequeuePos \in [Buckets -> Nat] /\ Slots \subseteq Nat
      /\ data \in [Buckets -> [Slots -> Items \cup {None}]]
      /\ answer \in [Threads -> Seq(Items) \cup {None}]
  BY <1>1 DEF Shape, Slots, Outer
<1>4. /\ pc[x] = "move" /\ Return(x, <<data[reg[x].bucket][p]>>)
      /\ data' = [data EXCEPT ![reg[x].bucket][p] = None]
      /\ UNCHANGED <<head, tail, live, next, enqueuePos, dequeuePos, committed>>
  BY <1>2 DEF Move, At, Unlock, chain
<1>5. ~Making(x) /\ Reading(x)
  BY <1>4 DEF Making, Reading
<1>6. /\ reg[x].bucket = head /\ p \in Slots /\ p < dequeuePos[head]
      /\ \A y \in Threads : MovesAt(y, head, p) => y = x
  <2>1. ReadsAt(x, p) /\ ReadAt(x, p)
    BY <1>1, <1>2, <1>5 DEF ReadInv, ReadsAt
  <2>. QED BY <1>4, <2>1 DEF ReadAt
<1>7. PICK a : a = <<data[head][p]>>
  OBVIOUS
<1>8. /\ pc'[x] = "idle" /\ Others(x) /\ answer'[x] = a
      /\ \A y \in Threads : y # x => answer'[y] = answer[y]
  BY <1>3, <1>4, <1>6, <1>7 DEF Return, Goto, Others
<1>9. \A b \in Buckets : \A s \in Slots : ~(b = head /\ s = p) => data'[b][s] = data[b][s]
  <2>1. data' = [data EXCEPT ![head][p] = None]
    BY <1>4, <1>6
  <2>. QED BY <2>1, <1>3, <1>6
<1>10. ~Making(x)' /\ pc'[x] # "move"
  BY <1>8 DEF Making
<1>11. Places' = Places
  <2>1. \A b \in live : \A s \in Slots : dequeuePos[b] <= s => data'[b][s] = data[b][s]
    <3>. SUFFICES ASSUME NEW b \in live, NEW s \in Slots, dequeuePos[b] <= s PROVE data'[b][s] = data[b][s]
      OBVIOUS
    <3>1. b \in Buckets /\ ~(b = head /\ s = p)
      BY <1>3, <1>6
    <3>. QED BY <3>1, <1>9
  <2>2. UNCHANGED <<head, tail, live, next, dequeuePos, committed>> /\ enqueuePos' = enqueuePos
    BY <1>4
  <2>. QED BY <2>1, <2>2, <1>5, <1>8, <1>10, PlacesQuiet
<1>12. Answers' = [Answers EXCEPT ![x] = a]
  <2>1. ASSUME NEW y \in Threads, y # x, NEW b, NEW s, MovesAt(y, b, s) PROVE data'[b][s] = data[b][s]
    <3>1. ReadsAt(y, s) /\ pc[y] = "move" /\ reg[y].bucket = b
      BY <2>1 DEF MovesAt, ReadsAt, Reading
    <3>2. b = head /\ s \in Slots
      BY <1>1, <3>1 DEF ReadInv, ReadAt
    <3>3. s # p
      BY <1>6, <2>1, <3>2
    <3>. QED BY <1>3, <1>9, <3>2, <3>3
  <2>. QED BY <2>1, <1>8, <1>10, AnswersKeep
<1>13. PICK f : f = Answers
  OBVIOUS
<1>14. f[x] = a
  BY <1>2, <1>4, <1>6, <1>7, <1>13 DEF Answers, At
<1>15. f = [f EXCEPT ![x] = a]
  <2>1. f = [y \in Threads |-> f[y]]
    BY <1>13 DEF Answers
  <2>. QED BY <2>1, <1>14
<1>. QED BY <1>11, <1>12, <1>13, <1>15 DEF Mapped

LEMMA RetireMaps ==
  ASSUME QueueAssumption, QueueInv, QueueInv', PlacesInv, PlacesInv', NEW x \in Threads, RetireHead(x)
  PROVE  Mapped
<1>1. /\ Shape /\ ChainInv /\ ChainInv' /\ CursorInv /\ MakeInv /\ MakeInv'
  BY DEF QueueInv
<1>2. /\ pc[x] = "retire" /\ pc' = [pc EXCEPT ![x] = "dequeue"]
      /\ UNCHANGED <<enqueuePos, dequeuePos, committed, data, reg, answer>>
      /\ \/ UNCHANGED <<head, tail, live, next>>
         \/ /\ ~(dequeuePos[head] < PoolSize) /\ next[head] # None
            /\ head' = next[head] /\ live' = live \ {head} /\ UNCHANGED <<tail, next>>
  BY DEF RetireHead, At, Goto, Exclusive, chain
<1>3. pc'[x] = "dequeue" /\ Others(x)
  BY <1>1, <1>2 DEF Shape, Others
<1>4. ~Making(x) /\ ~Making(x)' /\ pc[x] # "move" /\ pc'[x] # "move"
  BY <1>2, <1>3 DEF Making
<1>5. Answers' = Answers
  BY <1>2, <1>3, <1>4, AnswersStay
<1>6. CASE UNCHANGED <<head, tail, live, next>>
  <2>1. Places' = Places
    BY <1>2, <1>3, <1>4, <1>6, PlacesQuiet
  <2>. QED BY <2>1, <1>5 DEF Mapped
<1>7. CASE /\ ~(dequeuePos[head] < PoolSize) /\ next[head] # None
           /\ head' = next[head] /\ live' = live \ {head} /\ UNCHANGED <<tail, next>>
  <2>1. PICK ch, L, nx, con, e, d :
          /\ ch = Chain /\ L = live /\ nx = next /\ con = Content /\ e = enqueuePos /\ d = dequeuePos
    OBVIOUS
  <2>2. Links(ch, head, tail, L, nx)
    BY <1>1, <2>1 DEF ChainInv
  <2>3. PICK h, L2, ch2 : h = head' /\ L2 = L \ {head} /\ ch2 = Chain'
    OBVIOUS
  <2>4. h = nx[head] /\ live' = L2 /\ tail' = tail /\ next' = nx
    BY <1>7, <2>1, <2>3
  <2>5. Links(Tail(ch), h, tail, L2, nx)
    BY <1>7, <2>1, <2>2, <2>3, <2>4, LinksRetire
  <2>6. Links(ch2, h, tail, L2, nx)
    BY <1>1, <2>3, <2>4 DEF ChainInv
  <2>7. None \notin L2
    BY <1>1, <2>1, <2>3 DEF QueueAssumption, Shape
  <2>8. ch2 = Tail(ch)
    <3>1. Path(h, L2, nx) = Tail(ch)
      BY <2>5, <2>7, LinksPath
    <3>2. Path(h, L2, nx) = ch2
      BY <2>6, <2>7, LinksPath
    <3>. QED BY <3>1, <3>2
  <2>9. Content' = con
    BY <1>1, <1>2, <1>3, <1>4, <2>1, ContentSame
  <2>10. Laid(ch, L, con, e, d) /\ Places = FlattenSeq(Layout(ch, con, e, d))
    BY <2>1 DEF PlacesInv
  <2>11. Laid(ch2, L2, con, e, d) /\ Places' = FlattenSeq(Layout(ch2, con, e, d))
    BY <1>2, <2>1, <2>3, <2>4, <2>9 DEF PlacesInv
  <2>12. PICK s, s2 : s = Layout(ch, con, e, d) /\ s2 = Layout(ch2, con, e, d)
    OBVIOUS
  <2>13. PICK n : n = Len(ch)
    OBVIOUS
  <2>14. /\ s \in Seq(Seq(PlaceType)) /\ Len(s) = n /\ n \in Nat
         /\ \A m \in 1 .. n : s[m] = PartOf(con[ch[m]], e[ch[m]], d[ch[m]])
    BY <2>10, <2>12, <2>13, LayoutIs
  <2>15. /\ s2 \in Seq(Seq(PlaceType)) /\ Len(s2) = Len(ch2)
         /\ \A m \in 1 .. Len(ch2) : s2[m] = PartOf(con[ch2[m]], e[ch2[m]], d[ch2[m]])
    BY <2>11, <2>12, LayoutIs
  <2>16. /\ n >= 1 /\ ch[1] = head /\ Len(ch2) = n - 1
         /\ \A m \in 1 .. (n - 1) : ch2[m] = ch[m + 1] /\ m + 1 \in 1 .. n
    <3>1. ch \in Seq(L) /\ ch # <<>> /\ ch[1] = head
      BY <2>2 DEF Links
    <3>2. n >= 1 /\ n \in Nat
      BY <3>1, <2>13
    <3>3. Len(ch2) = n - 1 /\ \A m \in 1 .. (n - 1) : ch2[m] = ch[m + 1]
      BY <3>1, <2>8, <2>13
    <3>. QED BY <3>1, <3>2, <3>3
  <2>17. s # <<>> /\ 1 \in 1 .. n
    BY <2>14, <2>16
  <2>18. s[1] = <<>>
    <3>1. PICK cb, eh, dh : cb = con[head] /\ eh = e[head] /\ dh = d[head]
      OBVIOUS
    <3>2. dh \in Nat /\ eh \in Nat /\ PoolSize \in Nat /\ dh <= eh /\ dh <= PoolSize /\ ~(dh < PoolSize)
      BY <1>1, <1>7, <2>1, <3>1 DEF Shape, CursorInv, CursorOK, QueueAssumption
    <3>3. dh = Min2(eh, PoolSize)
      BY <3>2 DEF Min2
    <3>4. PartOf(cb, eh, dh) = <<>>
      BY <3>2, <3>3, PartEmpty
    <3>. QED BY <3>1, <3>4, <2>14, <2>16, <2>17
  <2>19. PICK r : r = Tail(s)
    OBVIOUS
  <2>20. r \in Seq(Seq(PlaceType)) /\ Len(r) = n - 1 /\ \A m \in 1 .. (n - 1) : r[m] = s[m + 1]
    BY <2>14, <2>17, <2>19
  <2>21. s2 = r
    <3>1. \A m \in 1 .. Len(s2) : s2[m] = r[m]
      BY <2>14, <2>15, <2>16, <2>20
    <3>2. IsSeq(s2) /\ IsSeq(r)
      BY <2>15, <2>20, SeqIs
    <3>3. Len(s2) = Len(r)
      BY <2>15, <2>16, <2>20
    <3>. QED BY <3>1, <3>2, <3>3, SameSeq
  <2>22. FlattenSeq(s) = s[1] \o FlattenSeq(r)
    BY <2>14, <2>17, <2>19, FlatCons
  <2>23. FlattenSeq(r) \in Seq(PlaceType)
    BY <2>20, FlatType
  <2>24. FlattenSeq(s) = FlattenSeq(r)
    <3>1. PICK f : f = FlattenSeq(r)
      OBVIOUS
    <3>2. f \in Seq(PlaceType)
      BY <2>23, <3>1
    <3>3. <<>> \o f = f
      BY <3>2
    <3>. QED BY <3>1, <3>3, <2>18, <2>22
  <2>25. Places' = Places
    BY <2>10, <2>11, <2>12, <2>21, <2>24
  <2>. QED BY <2>25, <1>5 DEF Mapped
<1>. QED BY <1>2, <1>6, <1>7

LEMMA GrowMaps ==
  ASSUME QueueAssumption, QueueInv, QueueInv', PlacesInv, PlacesInv', NEW x \in Threads, GrowTail(x)
  PROVE  Mapped
<1>1. /\ Shape /\ ChainInv /\ ChainInv' /\ MakeInv /\ MakeInv' /\ PlaceInv /\ PlaceInv'
  BY DEF QueueInv, PlacesInv
<1>2. /\ pc[x] = "grow" /\ pc' = [pc EXCEPT ![x] = "emplace"]
      /\ UNCHANGED <<data, reg, answer>>
  BY DEF GrowTail, At, Goto
<1>3. pc'[x] = "emplace" /\ Others(x)
  BY <1>1, <1>2 DEF Shape, Others
<1>4. ~Making(x) /\ ~Making(x)' /\ pc[x] # "move" /\ pc'[x] # "move"
  BY <1>2, <1>3 DEF Making
<1>5. Answers' = Answers
  BY <1>2, <1>3, <1>4, AnswersStay
<1>6. CASE UNCHANGED <<chain, enqueuePos, dequeuePos, committed>>
  <2>1. UNCHANGED <<head, tail, live, next, dequeuePos, committed>> /\ enqueuePos' = enqueuePos
    BY <1>6 DEF chain
  <2>2. Places' = Places
    BY <2>1, <1>2, <1>3, <1>4, PlacesQuiet
  <2>. QED BY <2>2, <1>5 DEF Mapped
<1>7. CASE head' = head /\ \E b \in Buckets \ live : Fresh(b)
  <2>1. PICK b \in Buckets \ live : Fresh(b)
    BY <1>7
  <2>2. FreshFacts(b)
    BY <1>1, <2>1, FreshIs
  <2>3. PICK ch, L, ny, con, e, d, ch2, con2, e2, d2 :
          /\ ch = Chain /\ L = live /\ ny = next' /\ con = Content /\ e = enqueuePos /\ d = dequeuePos
          /\ ch2 = Chain' /\ con2 = Content' /\ e2 = enqueuePos' /\ d2 = dequeuePos'
    OBVIOUS
  <2>4. PICK L2 : L2 = L \cup {b}
    OBVIOUS
  <2>5. /\ L \subseteq Buckets /\ live' = L2 /\ tail' = b /\ b \notin L /\ tail \in L
        /\ e2[b] = 0 /\ d2[b] = 0 /\ ny[tail] = b /\ ny[b] = None
        /\ \A a \in Buckets : a # b => e2[a] = e[a] /\ d2[a] = d[a] /\ committed'[a] = committed[a]
        /\ \A a \in Buckets : a # b /\ a # tail => ny[a] = next[a]
    BY <2>1, <2>2, <2>3, <2>4 DEF FreshFacts
  <2>6. Links(ch, head, tail, L, next)
    BY <1>1, <2>3 DEF ChainInv
  <2>7. Links(Append(ch, b), head, b, L2, ny)
    <3>1. \A a \in L \ {tail} : ny[a] = next[a]
      BY <2>5
    <3>. QED BY <2>4, <2>5, <2>6, <3>1, LinksGrow
  <2>8. Links(ch2, head, b, L2, ny)
    BY <1>1, <1>7, <2>3, <2>5 DEF ChainInv
  <2>9. None \notin L2
    BY <2>1, <2>4, <2>5 DEF QueueAssumption
  <2>10. ch2 = Append(ch, b)
    <3>1. Path(head, L2, ny) = Append(ch, b)
      BY <2>7, <2>9, LinksPath
    <3>2. Path(head, L2, ny) = ch2
      BY <2>8, <2>9, LinksPath
    <3>. QED BY <3>1, <3>2
  <2>11. Laid(ch, L, con, e, d) /\ Places = FlattenSeq(Layout(ch, con, e, d))
    BY <2>3 DEF PlacesInv
  <2>12. Laid(ch2, L2, con2, e2, d2) /\ Places' = FlattenSeq(Layout(ch2, con2, e2, d2))
    BY <2>3, <2>5 DEF PlacesInv
  <2>13. PICK s, s2, n : s = Layout(ch, con, e, d) /\ s2 = Layout(ch2, con2, e2, d2) /\ n = Len(ch)
    OBVIOUS
  <2>14. /\ s \in Seq(Seq(PlaceType)) /\ Len(s) = n /\ n \in Nat
         /\ \A m \in 1 .. n : ch[m] \in L /\ s[m] = PartOf(con[ch[m]], e[ch[m]], d[ch[m]])
    BY <2>11, <2>13, LayoutIs
  <2>15. /\ s2 \in Seq(Seq(PlaceType)) /\ Len(s2) = Len(ch2)
         /\ \A m \in 1 .. Len(ch2) : s2[m] = PartOf(con2[ch2[m]], e2[ch2[m]], d2[ch2[m]])
    BY <2>12, <2>13, LayoutIs
  <2>16. Len(ch2) = n + 1 /\ ch2[n + 1] = b /\ \A m \in 1 .. n : ch2[m] = ch[m]
    <3>1. ch \in Seq(L)
      BY <2>6 DEF Links
    <3>. QED BY <3>1, <2>10, <2>13
  <2>17. \A m \in 1 .. n : s2[m] = s[m]
    <3>. SUFFICES ASSUME NEW m \in 1 .. n PROVE s2[m] = s[m]
      OBVIOUS
    <3>1. PICK a \in L : a = ch[m] /\ a # b /\ a \in Buckets
      BY <2>5, <2>14
    <3>2. m \in 1 .. Len(ch2)
      BY <2>14, <2>16
    <3>3. s2[m] = PartOf(con2[a], e2[a], d2[a])
      BY <3>1, <3>2, <2>15, <2>16
    <3>4. e2[a] = e[a] /\ d2[a] = d[a]
      BY <3>1, <2>5
    <3>5. PICK cb, cb2, ea, da : cb = con[a] /\ cb2 = con2[a] /\ ea = e[a] /\ da = d[a]
      OBVIOUS
    <3>6. Alike(cb, cb2, da, ea)
      <4>. SUFFICES ASSUME NEW p \in Slots PROVE cb2[p] = cb[p]
        BY DEF Alike
      <4>1. ~MakesAt(x, a, p) /\ ~MakesAt(x, a, p)'
        BY <1>4 DEF MakesAt
      <4>2. committed'[a][p] = committed[a][p] /\ data'[a][p] = data[a][p]
        BY <1>2, <2>5, <3>1
      <4>3. Content'[a][p] = Content[a][p]
        BY <1>1, <1>3, <3>1, <4>1, <4>2, OtherContent
      <4>. QED BY <4>3, <2>3, <3>5
    <3>7. ea \in Nat /\ da \in Nat /\ da <= Min2(ea, PoolSize)
      BY <2>11, <3>1, <3>5 DEF Laid
    <3>8. PartOf(cb2, ea, da) = PartOf(cb, ea, da)
      BY <3>6, <3>7, PartSame
    <3>. QED BY <2>14, <3>1, <3>3, <3>4, <3>5, <3>8
  <2>18. s2[n + 1] = <<>>
    <3>1. PICK cb, eb, db : cb = con2[b] /\ eb = e2[b] /\ db = d2[b]
      OBVIOUS
    <3>2. db \in Nat /\ db = Min2(eb, PoolSize)
      BY <2>5, <3>1 DEF Min2, QueueAssumption
    <3>3. PartOf(cb, eb, db) = <<>>
      BY <3>2, PartEmpty
    <3>4. n + 1 \in 1 .. Len(ch2)
      BY <2>14, <2>16
    <3>. QED BY <3>1, <3>3, <3>4, <2>15, <2>16
  <2>19. s2 = Append(s, <<>>)
    <3>1. PICK y : y = <<>>
      OBVIOUS
    <3>2. y \in Seq(PlaceType)
      BY <3>1
    <3>3. PICK z : z = Append(s, y)
      OBVIOUS
    <3>4. z \in Seq(Seq(PlaceType)) /\ Len(z) = n + 1 /\ z[n + 1] = y /\ \A m \in 1 .. n : z[m] = s[m]
      BY <3>2, <3>3, <2>14
    <3>5. \A m \in 1 .. (n + 1) : s2[m] = z[m]
      <4>. SUFFICES ASSUME NEW m \in 1 .. (n + 1) PROVE s2[m] = z[m]
        OBVIOUS
      <4>1. m \in 1 .. n \/ m = n + 1
        BY <2>14
      <4>. QED BY <4>1, <3>1, <3>4, <2>17, <2>18
    <3>6. IsSeq(s2) /\ IsSeq(z)
      BY <3>4, <2>15, SeqIs
    <3>7. Len(s2) = n + 1
      BY <2>15, <2>16
    <3>8. s2 = z
      BY <3>4, <3>5, <3>6, <3>7, SameSeq
    <3>. QED BY <3>1, <3>3, <3>8
  <2>20. FlattenSeq(s2) = FlattenSeq(s)
    <3>1. PICK y, f : y = <<>> /\ f = FlattenSeq(s)
      OBVIOUS
    <3>2. y \in Seq(PlaceType) /\ s2 = Append(s, y)
      BY <3>1, <2>19
    <3>3. FlattenSeq(s2) = f \o y
      BY <3>1, <3>2, <2>14, FlatSnoc
    <3>4. f \in Seq(PlaceType)
      BY <3>1, <2>14, FlatType
    <3>5. f \o <<>> = f
      BY <3>4
    <3>. QED BY <3>1, <3>3, <3>5
  <2>21. Places' = Places
    BY <2>11, <2>12, <2>13, <2>20
  <2>. QED BY <2>21, <1>5 DEF Mapped
<1>8. \/ UNCHANGED <<chain, enqueuePos, dequeuePos, committed>>
      \/ next[tail] # None
      \/ head' = head /\ \E b \in Buckets \ live : Fresh(b)
  BY DEF GrowTail
<1>9. next[tail] = None
  BY <1>1 DEF ChainInv, Links
<1>. QED BY <1>6, <1>7, <1>8, <1>9

\* for_each sees what is published, in order.
LEMMA ForEachMaps ==
  ASSUME QueueAssumption, QueueInv, QueueInv', PlacesInv, PlacesInv', NEW x \in Threads, ForEach(x)
  PROVE  Mapped
<1>1. /\ Shape /\ Outer /\ SlotInv /\ MakeInv /\ PlaceInv /\ ChainInv
  BY DEF QueueInv, PlacesInv
<1>2. PICK seen : seen = [b \in Buckets |-> [p \in Slots |->
                            IF committed[b][p] = "ready" THEN <<data[b][p]>> ELSE <<>>]]
  OBVIOUS
<1>3. /\ AllIdle /\ Return(x, FlattenSeq(InChain(seen)))
      /\ UNCHANGED <<head, tail, live, next, enqueuePos, dequeuePos, committed, data>>
  BY <1>2 DEF ForEach, chain
<1>4. PICK a : a = FlattenSeq(InChain(seen))
  OBVIOUS
<1>5. /\ pc'[x] = "idle" /\ Others(x) /\ answer'[x] = a
      /\ \A y \in Threads : y # x => answer'[y] = answer[y]
  BY <1>1, <1>3, <1>4 DEF Return, Goto, Others, Shape, Outer
<1>6. ~Making(x) /\ ~Making(x)' /\ pc'[x] # "move" /\ \A y \in Threads : ~Making(y)
  BY <1>3, <1>5 DEF AllIdle, At, Making
<1>7. Places' = Places
  BY <1>3, <1>5, <1>6, PlacesQuiet
<1>8. Answers' = [Answers EXCEPT ![x] = a]
  <2>1. \A b, s : data'[b][s] = data[b][s]
    BY <1>3
  <2>2. \A y \in Threads : y # x => \A b, p : MovesAt(y, b, p) => data'[b][p] = data[b][p]
    BY <2>1
  <2>3. /\ pc'[x] = "move" => a = <<data'[reg'[x].bucket][reg'[x].pos]>>
        /\ pc'[x] # "move" => a = answer'[x]
    BY <1>5, <1>6
  <2>. QED BY <2>2, <2>3, <1>5, AnswersKeep
<1>9. \A y \in Threads : Ticket!Idle(y)
  BY <1>1, <1>6, IdleIs
<1>10. PICK ch, L, con, e, d, q, s, t, w, U :
         /\ ch = Chain /\ L = live /\ con = Content /\ e = enqueuePos /\ d = dequeuePos /\ q = Places
         /\ s = Layout(ch, con, e, d) /\ t = Layout(ch, seen, e, d)
         /\ w = [o \in PlaceType |-> IF o.by = None THEN <<o.item>> ELSE <<>>]
         /\ U = Seq(Items \cup {None})
  OBVIOUS
<1>11. Laid(ch, L, con, e, d) /\ q = FlattenSeq(s)
  BY <1>10 DEF PlacesInv
<1>12. PICK n : n = Len(ch)
  OBVIOUS
<1>13. /\ s \in Seq(Seq(PlaceType)) /\ Len(s) = n /\ n \in Nat
       /\ \A m \in 1 .. n : ch[m] \in L /\ s[m] = PartOf(con[ch[m]], e[ch[m]], d[ch[m]])
  BY <1>10, <1>11, <1>12, LayoutIs
<1>14. Maps(w, PlaceType, U)
  <2>. SUFFICES ASSUME NEW o \in PlaceType
                PROVE  (IF o.by = None THEN <<o.item>> ELSE <<>>) \in Seq(Items \cup {None})
    BY <1>10 DEF Maps
  <2>1. PICK i \in Items \cup {None} : i = o.item
    BY DEF PlaceType
  <2>2. <<i>> \in Seq(Items \cup {None}) /\ <<>> \in Seq(Items \cup {None})
    OBVIOUS
  <2>. QED BY <2>1, <2>2
<1>15. seen \in [Buckets -> [Slots -> U]]
  <2>1. ASSUME NEW b \in Buckets, NEW p \in Slots
        PROVE  (IF committed[b][p] = "ready" THEN <<data[b][p]>> ELSE <<>>) \in Seq(Items \cup {None})
    <3>1. PICK i \in Items \cup {None} : i = data[b][p]
      BY <1>1 DEF Shape
    <3>2. <<i>> \in Seq(Items \cup {None}) /\ <<>> \in Seq(Items \cup {None})
      OBVIOUS
    <3>. QED BY <3>1, <3>2
  <2>. QED BY <2>1, <1>2, <1>10
<1>16. ASSUME NEW b \in L, NEW p \in Slots, d[b] <= p, p < e[b] PROVE seen[b][p] = w[con[b][p]]
  <2>1. b \in Buckets /\ con[b][p] \in PlaceType /\ d[b] \in Nat /\ e[b] \in Nat
    BY <1>11 DEF Laid
  <2>0. p \in Nat
    BY DEF Slots, QueueAssumption
  <2>2. con[b][p] = IF committed[b][p] = "poisoned" THEN Skipped ELSE Held(data[b][p])
    <3>1. \A y \in Threads : ~MakesAt(y, b, p)
      BY <1>6 DEF MakesAt
    <3>. QED BY <3>1, <2>1, <1>1, <1>10 DEF PlaceInv, Skipped, Held
  <2>3. committed[b][p] \in {"ready", "poisoned"}
    <3>1. SlotOK(b, p)
      BY <1>1, <1>10 DEF SlotInv
    <3>2. committed[b][p] # "empty"
      BY <3>1, <2>0, <2>1, <1>6, <1>10, <1>16 DEF SlotOK, MakesAt
    <3>3. committed[b][p] \in Marks
      BY <2>1, <1>1 DEF Shape
    <3>. QED BY <3>2, <3>3 DEF Marks
  <2>4. seen[b][p] = IF committed[b][p] = "ready" THEN <<data[b][p]>> ELSE <<>>
    BY <1>2, <2>1
  <2>5. PICK o \in PlaceType : o = con[b][p]
    BY <2>1
  <2>6. w[o] = IF o.by = None THEN <<o.item>> ELSE <<>>
    BY <1>10
  <2>7. CASE committed[b][p] = "ready"
    <3>1. o.by = None /\ o.item = data[b][p]
      BY <2>2, <2>5, <2>7 DEF Held
    <3>. QED BY <2>4, <2>5, <2>6, <2>7, <3>1
  <2>8. CASE committed[b][p] = "poisoned"
    <3>1. o.by # None
      BY <2>2, <2>5, <2>8 DEF Skipped, QueueAssumption
    <3>. QED BY <2>4, <2>5, <2>6, <2>8, <3>1
  <2>. QED BY <2>3, <2>7, <2>8
<1>17. t = [m \in 1 .. n |-> PartOf(seen[ch[m]], e[ch[m]], d[ch[m]])]
  <2>1. DOMAIN ch = 1 .. n
    BY <1>11, <1>12 DEF Laid
  <2>. QED BY <2>1, <1>10 DEF Layout
<1>18. ASSUME NEW m \in 1 .. n PROVE t[m] \in Seq(U) /\ t[m] = Image(w, s[m])
  <2>1. PICK b \in L : b = ch[m]
    BY <1>13
  <2>2. PICK cb, sb, eb, db, y, z, k :
          /\ cb = con[b] /\ sb = seen[b] /\ eb = e[b] /\ db = d[b]
          /\ y = PartOf(cb, eb, db) /\ z = PartOf(sb, eb, db) /\ k = Min2(eb, PoolSize) - db
    OBVIOUS
  <2>3. /\ Maps(cb, Slots, PlaceType) /\ Maps(sb, Slots, U) /\ eb \in Nat /\ db \in Nat
        /\ db <= Min2(eb, PoolSize)
    BY <1>11, <1>15, <2>2 DEF Laid, Maps
  <2>4. Span(y, cb, db, eb, k, PlaceType)
    BY <2>2, <2>3, PartIs
  <2>5. Span(z, sb, db, eb, k, U)
    BY <2>2, <2>3, PartIs
  <2>6. y \in Seq(PlaceType) /\ z \in Seq(U) /\ Len(y) = k /\ Len(z) = k
    BY <2>4, <2>5 DEF Span
  <2>7. PICK v : v = Image(w, y)
    OBVIOUS
  <2>8. v \in Seq(U) /\ Len(v) = k /\ \A i \in 1 .. k : v[i] = w[y[i]]
    BY <1>14, <2>6, <2>7, ImageType
  <2>9. \A i \in 1 .. k : z[i] = v[i]
    <3>. SUFFICES ASSUME NEW i \in 1 .. k PROVE z[i] = v[i]
      OBVIOUS
    <3>1. PICK p : p = db + i - 1
      OBVIOUS
    <3>2. p \in Slots /\ db <= p /\ p < eb /\ y[i] = cb[p]
      BY <2>4, <3>1 DEF Span
    <3>3. z[i] = sb[p]
      BY <2>5, <3>1 DEF Span
    <3>4. sb[p] = w[cb[p]]
      BY <1>16, <2>2, <3>2
    <3>. QED BY <2>8, <3>2, <3>3, <3>4
  <2>10. IsSeq(z) /\ IsSeq(v)
    BY <2>6, <2>8, SeqIs
  <2>11. z = v
    BY <2>6, <2>8, <2>9, <2>10, SameSeq
  <2>12. s[m] = y /\ t[m] = z
    BY <1>13, <1>17, <2>1, <2>2
  <2>. QED BY <2>6, <2>7, <2>11, <2>12
<1>19. t \in Seq(Seq(U)) /\ Len(t) = Len(s)
  <2>1. \A m \in 1 .. n : t[m] \in Seq(U)
    BY <1>18
  <2>2. t = [m \in 1 .. n |-> t[m]]
    BY <1>17
  <2>3. [m \in 1 .. n |-> t[m]] \in Seq(Seq(U)) /\ Len([m \in 1 .. n |-> t[m]]) = n
    BY <1>13, <2>1
  <2>. QED BY <1>13, <2>2, <2>3
<1>20. FlattenSeq(t) = Image(w, FlattenSeq(s))
  <2>1. \A m \in 1 .. Len(s) : t[m] = Image(w, s[m])
    BY <1>13, <1>18
  <2>. QED BY <2>1, <1>13, <1>14, <1>19, FlatImage
<1>21. InChain(seen) = FlattenSeq(t)
  <2>1. InChain(seen) = FlattenSeq([m \in DOMAIN ch |-> InBucket(seen, ch[m])])
    BY <1>10 DEF InChain
  <2>2. \A b : InBucket(seen, b) = PartOf(seen[b], e[b], d[b])
    BY <1>10 DEF InBucket, PartOf, Claimed
  <2>3. [m \in DOMAIN ch |-> InBucket(seen, ch[m])] = t
    BY <2>2, <1>10 DEF Layout
  <2>. QED BY <2>1, <2>3
<1>22. a = FlattenSeq(Image(w, q))
  BY <1>4, <1>11, <1>20, <1>21
<1>23. Image(w, q) = [m \in DOMAIN q |-> IF q[m].by = None THEN <<q[m].item>> ELSE <<>>]
  <2>1. q \in Seq(PlaceType)
    BY <1>11, <1>13, FlatType
  <2>2. \A m \in DOMAIN q : q[m] \in PlaceType
    BY <2>1
  <2>3. \A m \in DOMAIN q : w[q[m]] = IF q[m].by = None THEN <<q[m].item>> ELSE <<>>
    BY <2>2, <1>10
  <2>. QED BY <2>3 DEF Image
<1>24. Ticket!Published = a
  <2>1. \A r : Ticket!FlattenSeq(r) = FlattenSeq(r)
    BY DEF Ticket!FlattenSeq, FlattenSeq
  <2>2. Ticket!Published
          = Ticket!FlattenSeq([m \in DOMAIN q |-> IF q[m].by = None THEN <<q[m].item>> ELSE <<>>])
    BY <1>10 DEF Ticket!Published
  <2>. QED BY <2>1, <2>2, <1>22, <1>23
<1>25. Ticket!ForEach(x)
  BY <1>7, <1>8, <1>9, <1>24 DEF Ticket!ForEach, Ticket!Returns
<1>. QED BY <1>25 DEF Mapped, Ticket!Next

\* One bucket without claimed slots.
LEMMA OneEmpty ==
  ASSUME QueueAssumption, NEW ch, NEW h, NEW L, NEW nx, NEW con, NEW e, NEW d,
         Links(ch, h, h, L, nx), Laid(ch, L, con, e, d), h \in L, e[h] = 0, d[h] = 0
  PROVE  FlattenSeq(Layout(ch, con, e, d)) = <<>>
<1>1. ch = <<h>>
  <2>1. None \notin L
    BY DEF Laid, QueueAssumption
  <2>. QED BY <2>1, LinksAlone
<1>2. PICK s : s = Layout(ch, con, e, d)
  OBVIOUS
<1>3. /\ s \in Seq(Seq(PlaceType)) /\ Len(s) = Len(ch)
      /\ \A n \in 1 .. Len(ch) : s[n] = PartOf(con[ch[n]], e[ch[n]], d[ch[n]])
  BY <1>2, LayoutIs
<1>4. Len(ch) = 1 /\ ch[1] = h
  BY <1>1
<1>5. PICK cb, eb, db, z : cb = con[h] /\ eb = e[h] /\ db = d[h] /\ z = PartOf(cb, eb, db)
  OBVIOUS
<1>6. z = <<>>
  <2>1. db \in Nat /\ db = Min2(eb, PoolSize)
    BY <1>5 DEF Min2, QueueAssumption
  <2>. QED BY <2>1, <1>5, PartEmpty
<1>7. s[1] = z
  <2>1. 1 \in 1 .. Len(ch)
    BY <1>4
  <2>. QED BY <2>1, <1>3, <1>4, <1>5
<1>8. PICK g : g = <<z>>
  OBVIOUS
<1>9. s = g
  <2>1. IsSeq(g) /\ Len(g) = 1 /\ g[1] = z
    BY <1>8 DEF IsSeq
  <2>2. IsSeq(s) /\ Len(s) = 1
    BY <1>3, <1>4, SeqIs
  <2>3. \A i \in 1 .. Len(s) : s[i] = g[i]
    BY <2>1, <2>2, <1>7
  <2>. QED BY <2>1, <2>2, <2>3, SameSeq
<1>10. z \in Seq(PlaceType)
  BY <1>6
<1>11. FlattenSeq(<<z>>) = z
  BY <1>10, FlatOne
<1>. QED BY <1>2, <1>6, <1>8, <1>9, <1>11

LEMMA ClearMaps ==
  ASSUME QueueAssumption, QueueInv, QueueInv', PlacesInv, PlacesInv', Clear
  PROVE  Mapped
<1>1. /\ AllIdle /\ tail' = head /\ head' = head
      /\ enqueuePos' = [enqueuePos EXCEPT ![head] = 0]
      /\ dequeuePos' = [dequeuePos EXCEPT ![head] = 0]
      /\ UNCHANGED <<pc, reg, answer>>
  BY DEF Clear
<1>2. Shape /\ Shape' /\ ChainInv' /\ MakeInv
  BY DEF QueueInv
<1>3. \A y \in Threads : Ticket!Idle(y)
  <2>1. \A y \in Threads : ~Making(y)
    BY <1>1 DEF AllIdle, At, Making
  <2>. QED BY <2>1, <1>2, IdleIs
<1>4. PICK ch, h, L, nx, con, e, d :
        /\ ch = Chain' /\ h = head /\ L = live' /\ nx = next' /\ con = Content'
        /\ e = enqueuePos' /\ d = dequeuePos'
  OBVIOUS
<1>5. Links(ch, h, h, L, nx)
  BY <1>1, <1>2, <1>4 DEF ChainInv
<1>6. Laid(ch, L, con, e, d) /\ Places' = FlattenSeq(Layout(ch, con, e, d))
  BY <1>4 DEF PlacesInv
<1>7. h \in L /\ e[h] = 0 /\ d[h] = 0
  BY <1>1, <1>2, <1>4 DEF Shape
<1>8. Places' = <<>>
  BY <1>5, <1>6, <1>7, OneEmpty
<1>9. Answers' = Answers
  <2>1. Answers = [y \in Threads |-> answer[y]]
    BY <1>1 DEF Answers, AllIdle, At
  <2>2. Answers' = [y \in Threads |-> answer[y]]
    BY <1>1 DEF Answers, AllIdle, At
  <2>. QED BY <2>1, <2>2
<1>10. Ticket!Clear
  BY <1>3, <1>8, <1>9 DEF Ticket!Clear
<1>. QED BY <1>10 DEF Mapped, Ticket!Next

LEMMA StutterMaps ==
  ASSUME QueueAssumption, QueueInv, QueueInv', PlacesInv, PlacesInv', UNCHANGED vars
  PROVE  Mapped
<1>1. UNCHANGED <<head, tail, live, next, enqueuePos, dequeuePos, committed, data, pc, reg, answer>>
  BY DEF vars, chain
<1>2. ASSUME NEW b \in live, NEW p \in Slots PROVE Content'[b][p] = Content[b][p]
  <2>1. b \in Buckets /\ MakeInv /\ MakeInv' /\ PlaceInv /\ PlaceInv'
    BY DEF QueueInv, Shape, PlacesInv
  <2>2. /\ \A y \in Threads : MakesAt(y, b, p)' <=> MakesAt(y, b, p)
        /\ \A y \in Threads : reg'[y].item = reg[y].item
    BY <1>1 DEF MakesAt, Making
  <2>3. committed'[b][p] = committed[b][p] /\ data'[b][p] = data[b][p]
    BY <1>1
  <2>. QED BY <2>1, <2>2, <2>3, SameContent
<1>3. Places' = Places
  BY <1>1, <1>2, PlacesStay
<1>4. Answers' = Answers
  BY <1>1 DEF Answers, At
<1>. QED BY <1>3, <1>4 DEF Mapped

LEMMA NextMaps ==
  ASSUME QueueAssumption, QueueInv, QueueInv', PlacesInv, PlacesInv', [Next]_vars
  PROVE  Mapped
<1>1. ASSUME NEW x \in Threads, Step(x) PROVE Mapped
  <2>1. CASE Emplace(x)
    <3>1. PICK i : i = emplaced + 1
      OBVIOUS
    <3>2. ClaimSlot(x, i) /\ pc[x] \in {"idle", "emplace"} /\ i \in Items
      <4>1. emplaced \in 0 .. EmplaceBound /\ EmplaceBound \in Nat
        BY DEF QueueInv, Outer, QueueAssumption
      <4>. QED BY <2>1, <3>1, <4>1 DEF Emplace, At, Items
    <3>. QED BY <3>2, ClaimMaps
  <2>2. CASE Again(x)
    <3>1. PICK i : i = reg[x].item
      OBVIOUS
    <3>2. ClaimSlot(x, i) /\ pc[x] \in {"idle", "emplace"} /\ i \in Items
      BY <2>2, <3>1 DEF Again, At, QueueInv, ItemInv
    <3>. QED BY <3>2, ClaimMaps
  <2>. QED BY <1>1, <2>1, <2>2, ConstructMaps, PublishMaps, GrowMaps, TryDequeueMaps, LookMaps,
              CasMaps, MoveMaps, RetireMaps, ForEachMaps DEF Step
<1>. QED BY <1>1, ClearMaps, StutterMaps DEF Next

LEMMA InitMaps ==
  ASSUME QueueAssumption, Init, QueueInv, PlacesInv
  PROVE  Ticket!Init
<1>1. PICK h \in Buckets : head = h /\ tail = h /\ live = {h}
  BY DEF Init
<1>2. PICK ch, L, con, e, d :
        /\ ch = Chain /\ L = live /\ con = Content /\ e = enqueuePos /\ d = dequeuePos
  OBVIOUS
<1>3. Links(ch, h, h, L, next)
  BY <1>1, <1>2 DEF QueueInv, ChainInv
<1>4. Laid(ch, L, con, e, d) /\ Places = FlattenSeq(Layout(ch, con, e, d))
  BY <1>2 DEF PlacesInv
<1>5. h \in L /\ e[h] = 0 /\ d[h] = 0
  BY <1>1, <1>2 DEF Init
<1>6. Places = <<>>
  BY <1>3, <1>4, <1>5, OneEmpty
<1>7. Answers = [x \in Threads |-> None]
  BY DEF Init, Answers, At
<1>. QED BY <1>6, <1>7 DEF Ticket!Init

\* The chain of buckets implements a queue without bound that is first in first out in the
\* order of the claims, loses and duplicates nothing, skips what was not constructed, and lets
\* a dequeue fail only when the oldest element is not there yet.
THEOREM ImplementsTheorem == QueueAssumption => (Spec => Implements)
<1>. SUFFICES ASSUME QueueAssumption PROVE Spec => Implements
  OBVIOUS
<1>1. QueueInv => PlacesInv
  BY PlacesAre
<1>2. Init /\ QueueInv /\ PlacesInv => Ticket!Init
  BY InitMaps
<1>3. QueueInv /\ QueueInv' /\ PlacesInv /\ PlacesInv' /\ [Next]_vars => [Ticket!Next]_Ticket!vars
  <2>. SUFFICES ASSUME QueueInv, QueueInv', PlacesInv, PlacesInv', [Next]_vars
                PROVE  [Ticket!Next]_Ticket!vars
    OBVIOUS
  <2>1. Mapped
    BY NextMaps
  <2>. QED BY <2>1 DEF Mapped, Ticket!vars
<1>. QED BY <1>1, <1>2, <1>3, QueueCorrect, PTL DEF Spec, Implements, Ticket!Spec
=============================================================================
