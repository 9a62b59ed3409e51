---------------------------- MODULE PriorityProofs ----------------------------
(***************************************************************************)
(* What holds of the locks, semaphores and lists of src/CS439/Project1 for *)
(* any number of threads, locks and priorities, and any mix of calls:      *)
(* every thread is in one list of the scheduler, locks exclude, no wakeup  *)
(* is lost, sleepers wake at their tick, the running thread is the most    *)
(* urgent where no lock is used, and priority donation works where it is   *)
(* plain.  First, what the operations on lists do to the set of elements,  *)
(* then how threads move between the lists, then the inductive invariant,  *)
(* and each step; last, what the operations do to the order of the lists,  *)
(* and the three invariants that need it.                                  *)
(***************************************************************************)
EXTENDS Priority, FiniteSetTheorems, SequenceTheorems, NaturalsInduction, WellFoundedInduction,
        TLAPS

----------------------------------------------------------------------------
(* Lists *)

\* A non-empty set of natural numbers has a least one.
LEMMA NatMin ==
  ASSUME NEW T \in SUBSET Nat, T # {}
  PROVE  \E n \in T : \A m \in T : ~ (m < n)
<1>1. \E n \in T : \A m \in T : ~ (<<m, n>> \in OpToRel(<, Nat))
  BY NatLessThanWellFounded, WFMin
<1> QED BY <1>1 DEF OpToRel

\* Induction, for a set instead of a predicate.
LEMMA NatInd ==
  ASSUME NEW S, 0 \in S, \A n \in Nat : n \in S => n + 1 \in S
  PROVE  \A n \in Nat : n \in S
<1> DEFINE T == {n \in Nat : n \notin S}
<1> SUFFICES ASSUME T # {} PROVE FALSE
  OBVIOUS
<1>1. PICK n \in T : \A m \in T : ~ (m < n)
  BY NatMin
<1>2. n \in Nat /\ n # 0
  OBVIOUS
<1>3. n - 1 \in Nat /\ n - 1 < n /\ n - 1 \in S
  BY <1>1, <1>2
<1> QED BY <1>1, <1>2, <1>3

\* q has the elements of A, each once.
Lists(q, A) == q \in Seq(A) /\ ToSet(q) = A /\ IsInjective(q)

\* A list, index by index.
LEMMA ListIndices ==
  ASSUME NEW A, NEW q, Lists(q, A)
  PROVE  /\ Len(q) \in Nat /\ DOMAIN q = 1 .. Len(q)
         /\ \A i \in 1 .. Len(q) : q[i] \in A
         /\ \A a \in A : \E i \in 1 .. Len(q) : q[i] = a
         /\ \A i, j \in 1 .. Len(q) : q[i] = q[j] => i = j
  BY DEF Lists, ToSet, IsInjective

\* What makes a sequence a list of A.
LEMMA ListsBy ==
  ASSUME NEW A, NEW q \in Seq(A),
         \A a \in A : \E i \in 1 .. Len(q) : q[i] = a,
         \A i, j \in 1 .. Len(q) : q[i] = q[j] => i = j
  PROVE  Lists(q, A)
<1>1. DOMAIN q = 1 .. Len(q) /\ \A i \in 1 .. Len(q) : q[i] \in A
  BY LenProperties
<1> QED BY <1>1 DEF Lists, ToSet, IsInjective

\* A sequence that repeats nothing is a list of its elements.
LEMMA SeqLists ==
  ASSUME NEW S, NEW q \in Seq(S), IsInjective(q)
  PROVE  Lists(q, ToSet(q)) /\ ToSet(q) \subseteq S
<1>1. /\ Len(q) \in Nat /\ DOMAIN q = 1 .. Len(q) /\ q \in [1 .. Len(q) -> ToSet(q)]
      /\ ToSet(q) \subseteq S
  BY LenProperties DEF ToSet
<1>2. q \in Seq(ToSet(q))
  BY <1>1, SeqDef
<1> QED BY <1>1, <1>2 DEF Lists

\* A list is a sequence that repeats nothing.
LEMMA ListsSeq ==
  ASSUME NEW S, NEW A \in SUBSET S, NEW q, Lists(q, A)
  PROVE  q \in Seq(S) /\ IsInjective(q) /\ ToSet(q) = A
  BY SeqMonotonic DEF Lists

\* The empty list lists nothing, and only it does.
LEMMA EmptyLists ==
  /\ Lists(<<>>, {})
  /\ \A q, A : Lists(q, A) => (q = <<>> <=> A = {})
  BY DEF Lists, ToSet, IsInjective

\* r is q with x as its i-th element.
Inserted(r, q, i, x) ==
  /\ Len(r) = Len(q) + 1
  /\ \A j \in 1 .. Len(q) + 1 : r[j] = IF j < i THEN q[j] ELSE IF j = i THEN x ELSE q[j - 1]

\* The list after an insertion, index by index.
LEMMA InsertAtProperties ==
  ASSUME NEW S, NEW q \in Seq(S), NEW x \in S, NEW i \in 1 .. Len(q) + 1
  PROVE  InsertAt(q, i, x) \in Seq(S) /\ Inserted(InsertAt(q, i, x), q, i, x)
<1> DEFINE a == SubSeq(q, 1, i - 1)
           b == SubSeq(q, i, Len(q))
<1>1. Len(q) \in Nat /\ \A j \in 1 .. Len(q) : q[j] \in S
  BY LenProperties
<1>2. a \in Seq(S) /\ Len(a) = i - 1 /\ \A j \in 1 .. i - 1 : a[j] = q[j]
  BY <1>1, SubSeqProperties
<1>3. /\ b \in Seq(S) /\ Len(b) = Len(q) - i + 1
      /\ \A j \in 1 .. Len(q) - i + 1 : b[j] = q[i + j - 1]
  BY <1>1, SubSeqProperties
<1>4. <<x>> \in Seq(S) /\ Len(<<x>>) = 1 /\ <<x>>[1] = x
  OBVIOUS
<1> HIDE DEF a, b
<1>5. /\ a \o <<x>> \in Seq(S) /\ Len(a \o <<x>>) = i
      /\ \A j \in 1 .. i : (a \o <<x>>)[j] = IF j < i THEN q[j] ELSE x
  BY <1>1, <1>2, <1>4, ConcatProperties
<1>6. /\ (a \o <<x>>) \o b \in Seq(S) /\ Len((a \o <<x>>) \o b) = Len(q) + 1
      /\ \A j \in 1 .. Len(q) + 1 : ((a \o <<x>>) \o b)[j] =
           IF j <= i THEN (a \o <<x>>)[j] ELSE b[j - i]
  <2> DEFINE c == a \o <<x>>
  <2> HIDE DEF c
  <2>1. c \in Seq(S) /\ Len(c) = i
    BY <1>5 DEF c
  <2>2. /\ c \o b \in Seq(S) /\ Len(c \o b) = Len(c) + Len(b)
        /\ \A j \in 1 .. Len(c) + Len(b) :
             (c \o b)[j] = IF j <= Len(c) THEN c[j] ELSE b[j - Len(c)]
    BY <1>3, <2>1, ConcatProperties
  <2>3. Len(c) + Len(b) = Len(q) + 1
    BY <1>1, <1>3, <2>1
  <2> QED BY <2>1, <2>2, <2>3 DEF c
<1>7. InsertAt(q, i, x) = (a \o <<x>>) \o b
  BY DEF InsertAt, a, b
<1>8. \A j \in 1 .. Len(q) + 1 : j > i => b[j - i] = q[j - 1]
  BY <1>1, <1>3
<1>9. /\ InsertAt(q, i, x) \in Seq(S) /\ Len(InsertAt(q, i, x)) = Len(q) + 1
      /\ \A j \in 1 .. Len(q) + 1 :
           InsertAt(q, i, x)[j] = IF j < i THEN q[j] ELSE IF j = i THEN x ELSE q[j - 1]
  BY <1>1, <1>5, <1>6, <1>7, <1>8
<1> QED BY <1>9 DEF Inserted

\* A list with a new element put anywhere.
LEMMA InsertAtLists ==
  ASSUME NEW A, NEW q, Lists(q, A), NEW x, x \notin A, NEW i \in 1 .. Len(q) + 1
  PROVE  Lists(InsertAt(q, i, x), A \cup {x})
<1> DEFINE r == InsertAt(q, i, x)
           B == A \cup {x}
<1>1. /\ Len(q) \in Nat
      /\ \A j \in 1 .. Len(q) : q[j] \in A
      /\ \A a \in A : \E j \in 1 .. Len(q) : q[j] = a
      /\ \A j, k \in 1 .. Len(q) : q[j] = q[k] => j = k
  BY ListIndices
<1>2. q \in Seq(B) /\ x \in B
  BY SeqMonotonic DEF Lists
<1>3. /\ r \in Seq(B) /\ Len(r) = Len(q) + 1
      /\ \A j \in 1 .. Len(q) + 1 :
           r[j] = IF j < i THEN q[j] ELSE IF j = i THEN x ELSE q[j - 1]
  <2> HIDE DEF B
  <2>1. r \in Seq(B) /\ Inserted(r, q, i, x)
    BY <1>2, InsertAtProperties
  <2> HIDE DEF r
  <2> QED BY <2>1 DEF Inserted
<1> HIDE DEF r
<1>4. ASSUME NEW a \in B PROVE \E j \in 1 .. Len(r) : r[j] = a
  <2>1. CASE a = x
    BY <1>1, <1>3, <2>1
  <2>2. CASE a \in A
    <3>1. PICK j \in 1 .. Len(q) : q[j] = a
      BY <1>1, <2>2
    <3>2. CASE j < i
      <4>1. j \in 1 .. Len(q) + 1
        BY <1>1
      <4>2. r[j] = q[j]
        BY <1>3, <3>2, <4>1
      <4> QED BY <1>3, <3>1, <4>1, <4>2
    <3>3. CASE ~(j < i)
      <4>1. j + 1 \in 1 .. Len(q) + 1 /\ ~(j + 1 < i) /\ j + 1 # i /\ (j + 1) - 1 = j
        BY <1>1, <3>3
      <4>2. r[j + 1] = q[j]
        BY <1>3, <4>1
      <4> QED BY <1>3, <3>1, <4>1, <4>2
    <3> QED BY <3>2, <3>3
  <2> QED BY <2>1, <2>2
<1>5. ASSUME NEW j \in 1 .. Len(r), NEW k \in 1 .. Len(r), r[j] = r[k] PROVE j = k
  <2> DEFINE At0(n) == IF n < i THEN n ELSE n - 1
  <2>1. \A n \in 1 .. Len(r) : n # i => /\ At0(n) \in 1 .. Len(q)
                                       /\ r[n] = q[At0(n)] /\ r[n] # x
    <3> TAKE n \in 1 .. Len(r)
    <3> HAVE n # i
    <3>1. At0(n) \in 1 .. Len(q)
      BY <1>1, <1>3
    <3>2. r[n] = q[At0(n)]
      BY <1>3
    <3> HIDE DEF At0
    <3>3. q[At0(n)] \in A
      BY <1>1, <3>1
    <3> QED BY <3>1, <3>2, <3>3
  <2>2. r[i] = x
    BY <1>1, <1>3
  <2>3. CASE j = i \/ k = i
    BY <1>5, <2>1, <2>2, <2>3
  <2>4. CASE j # i /\ k # i
    <3> HIDE DEF At0
    <3>1. At0(j) = At0(k)
      BY <1>1, <1>5, <2>1, <2>4
    <3> QED BY <1>1, <1>3, <2>4, <3>1 DEF At0
  <2> QED BY <2>3, <2>4
<1>6. Lists(r, B)
  <2> HIDE DEF B
  <2> QED BY <1>3, <1>4, <1>5, ListsBy
<1> QED BY <1>6 DEF r

\* A list with a new element put last.
LEMMA AppendLists ==
  ASSUME NEW A, NEW q, Lists(q, A), NEW x, x \notin A
  PROVE  Lists(Append(q, x), A \cup {x})
<1> DEFINE B == A \cup {x}
           r == Append(q, x)
<1>1. /\ Len(q) \in Nat
      /\ \A j \in 1 .. Len(q) : q[j] \in A
      /\ \A a \in A : \E j \in 1 .. Len(q) : q[j] = a
      /\ \A j, k \in 1 .. Len(q) : q[j] = q[k] => j = k
  BY ListIndices
<1>2. q \in Seq(B) /\ x \in B
  BY SeqMonotonic DEF Lists
<1>3. /\ r \in Seq(B) /\ Len(r) = Len(q) + 1
      /\ \A j \in 1 .. Len(q) : r[j] = q[j]
      /\ r[Len(q) + 1] = x
  <2> HIDE DEF B
  <2> QED BY <1>2, AppendProperties
<1> HIDE DEF r
<1>4. \A j \in 1 .. Len(r) : j \in 1 .. Len(q) \/ j = Len(q) + 1
  BY <1>1, <1>3
<1>5. ASSUME NEW a \in B PROVE \E j \in 1 .. Len(r) : r[j] = a
  <2>1. CASE a = x
    <3>1. Len(q) + 1 \in 1 .. Len(r)
      BY <1>1, <1>3
    <3> QED BY <1>3, <2>1, <3>1
  <2>2. CASE a \in A
    <3>1. PICK j \in 1 .. Len(q) : q[j] = a
      BY <1>1, <2>2
    <3>2. j \in 1 .. Len(r)
      BY <1>1, <1>3
    <3> QED BY <1>3, <3>1, <3>2
  <2> QED BY <2>1, <2>2
<1>6. ASSUME NEW j \in 1 .. Len(r), NEW k \in 1 .. Len(r), r[j] = r[k] PROVE j = k
  BY <1>1, <1>3, <1>4, <1>6
<1>7. Lists(r, B)
  <2> HIDE DEF B
  <2> QED BY <1>3, <1>5, <1>6, ListsBy
<1> QED BY <1>7 DEF r

\* list_insert_ordered adds the element and disturbs no other.
LEMMA InsertDescLists ==
  ASSUME NEW A, NEW q, Lists(q, A), NEW x, x \notin A, NEW key
  PROVE  Lists(InsertDesc(q, x, key), A \cup {x})
<1> DEFINE before == {i \in DOMAIN q : \A j \in 1 .. i : key[q[j]] >= key[x]}
<1>1. Len(q) \in Nat /\ DOMAIN q = 1 .. Len(q)
  BY ListIndices
<1>2. IsFiniteSet(DOMAIN q) /\ Cardinality(DOMAIN q) = Len(q)
  <2>1. /\ IsFiniteSet(1 .. Len(q))
        /\ Cardinality(1 .. Len(q)) = IF 1 > Len(q) THEN 0 ELSE Len(q) - 1 + 1
    BY <1>1, FS_Interval
  <2> QED BY <1>1, <2>1
<1>3. Cardinality(before) \in 0 .. Len(q)
  BY <1>1, <1>2, FS_Subset, FS_CardinalityType
<1>4. Cardinality(before) + 1 \in 1 .. Len(q) + 1
  BY <1>1, <1>3
<1> QED BY <1>4, InsertAtLists DEF InsertDesc

\* The loop of thread_tick, turn by turn: f[i] is the list after i turns.
Turns(f, q, new, chosen, key) ==
  /\ f[0] = q
  /\ \A i \in 1 .. Len(new) :
       f[i] = IF new[i] \in chosen THEN InsertDesc(f[i - 1], new[i], key) ELSE f[i - 1]

\* InsertAll has the list after the last turn.
LEMMA InsertAllBy ==
  ASSUME NEW q, NEW new, Len(new) \in Nat, NEW chosen, NEW key
  PROVE  \E f : Turns(f, q, new, chosen, key) /\ InsertAll(q, new, chosen, key) = f[Len(new)]
<1> DEFINE D == 0 .. Len(new)
           Body(g, i) == IF i = 0 THEN q
                         ELSE IF new[i] \in chosen THEN InsertDesc(g[i - 1], new[i], key)
                         ELSE g[i - 1]
           f == CHOOSE g : g = [i \in D |-> Body(g, i)]
<1>1. InsertAll(q, new, chosen, key) = f[Len(new)]
  BY DEF InsertAll
<1>2. Len(new) \in Nat
  OBVIOUS
<1>3. \E g : g = [i \in D |-> Body(g, i)]
  <2> DEFINE T == {n \in Nat : \E g : g = [i \in 0 .. n |-> Body(g, i)]}
  <2>1. 0 \in T
    <3> DEFINE g == [i \in 0 .. 0 |-> q]
    <3>1. g = [i \in 0 .. 0 |-> Body(g, i)]
      OBVIOUS
    <3> QED BY <3>1
  <2>2. ASSUME NEW n \in Nat, n \in T PROVE n + 1 \in T
    <3>1. PICK g : g = [i \in 0 .. n |-> Body(g, i)]
      BY <2>2
    <3> DEFINE h == [i \in 0 .. n + 1 |-> IF i = n + 1
             THEN IF new[n + 1] \in chosen THEN InsertDesc(g[n], new[n + 1], key) ELSE g[n]
             ELSE g[i]]
    <3>2. \A i \in 0 .. n : h[i] = g[i]
      OBVIOUS
    <3>3. \A i \in 0 .. n + 1 : h[i] = Body(h, i)
      <4> TAKE i \in 0 .. n + 1
      <4>1. CASE i = 0
        <5>1. h[i] = g[i] /\ g[0] = q
          BY <3>1, <3>2, <4>1
        <5> QED BY <5>1, <4>1
      <4>2. CASE i = n + 1
        <5>1. h[i - 1] = g[n] /\ i # 0
          BY <4>2, <3>2
        <5> QED BY <5>1, <4>2
      <4>3. CASE i \in 1 .. n
        <5>1. h[i] = g[i] /\ h[i - 1] = g[i - 1]
          BY <4>3, <3>2
        <5>2. g[i] = IF new[i] \in chosen THEN InsertDesc(g[i - 1], new[i], key) ELSE g[i - 1]
          BY <4>3, <3>1
        <5> QED BY <5>1, <5>2, <4>3
      <4> QED BY <4>1, <4>2, <4>3
    <3>4. h = [i \in 0 .. n + 1 |-> Body(h, i)]
      <4> HIDE DEF h
      <4>0. PICK w : w = [i \in 0 .. n + 1 |-> Body(h, i)]
        OBVIOUS
      <4>1. h = [i \in 0 .. n + 1 |-> h[i]]
        BY DEF h
      <4>2. w = [i \in 0 .. n + 1 |-> w[i]]
        BY <4>0
      <4>3. \A i \in 0 .. n + 1 : h[i] = w[i]
        BY <3>3, <4>0
      <4>4. h = w
        BY <4>1, <4>2, <4>3
      <4> QED BY <4>0, <4>4
    <3> HIDE DEF h
    <3>5. n + 1 \in Nat
      OBVIOUS
    <3> QED BY <3>4, <3>5
  <2> HIDE DEF T
  <2>3. \A n \in Nat : n \in T
    BY <2>1, <2>2, NatInd
  <2> QED BY <1>2, <2>3 DEF T
<1>4. f = [i \in D |-> Body(f, i)]
  BY <1>3
<1> HIDE DEF f
<1>5. /\ f[0] = q
      /\ \A i \in 1 .. Len(new) :
           f[i] = IF new[i] \in chosen THEN InsertDesc(f[i - 1], new[i], key) ELSE f[i - 1]
  <2>1. \A i \in D : f[i] = Body(f, i)
    BY <1>4
  <2>2. 0 \in D /\ \A i \in 1 .. Len(new) : i \in D /\ i # 0
    BY <1>2
  <2> HIDE DEF D
  <2> QED BY <2>1, <2>2
<1>6. Turns(f, q, new, chosen, key)
  BY <1>5 DEF Turns
<1> QED BY <1>1, <1>6

\* All chosen elements of a list come in, once.
LEMMA InsertAllLists ==
  ASSUME NEW A, NEW q, Lists(q, A), NEW B, NEW new, Lists(new, B), NEW chosen, NEW key,
         A \cap B \cap chosen = {}
  PROVE  Lists(InsertAll(q, new, chosen, key), A \cup (B \cap chosen))
<1> DEFINE Upto(n) == {new[i] : i \in 1 .. n} \cap chosen
<1>1. Len(new) \in Nat
  BY ListIndices
<1>2. PICK f : Turns(f, q, new, chosen, key) /\ InsertAll(q, new, chosen, key) = f[Len(new)]
  BY <1>1, InsertAllBy
<1>3. InsertAll(q, new, chosen, key) = f[Len(new)]
  BY <1>2
<1>4. /\ f[0] = q
      /\ \A i \in 1 .. Len(new) :
           f[i] = IF new[i] \in chosen THEN InsertDesc(f[i - 1], new[i], key) ELSE f[i - 1]
  BY <1>2 DEF Turns
<1> DEFINE S == {n \in Nat : n <= Len(new) => Lists(f[n], A \cup Upto(n))}
<1>5. 0 \in S
  <2>1. Upto(0) = {}
    OBVIOUS
  <2> QED BY <2>1, <1>4
<1>6. ASSUME NEW n \in Nat, n \in S PROVE n + 1 \in S
  <2> SUFFICES ASSUME n + 1 <= Len(new) PROVE Lists(f[n + 1], A \cup Upto(n + 1))
    OBVIOUS
  <2>1. Lists(f[n], A \cup Upto(n)) /\ n + 1 \in 1 .. Len(new) /\ (n + 1) - 1 = n
    BY <1>1, <1>6
  <2>2. f[n + 1] = IF new[n + 1] \in chosen THEN InsertDesc(f[n], new[n + 1], key) ELSE f[n]
    BY <2>1, <1>4
  <2>3. Upto(n + 1) = IF new[n + 1] \in chosen THEN Upto(n) \cup {new[n + 1]} ELSE Upto(n)
    <3>1. 1 .. n + 1 = (1 .. n) \cup {n + 1}
      OBVIOUS
    <3>2. {new[i] : i \in 1 .. n + 1} = {new[i] : i \in 1 .. n} \cup {new[n + 1]}
      BY <3>1
    <3> QED BY <3>2
  <2>4. CASE new[n + 1] \in chosen
    <3>1. new[n + 1] \in B /\ new[n + 1] \notin A
      BY <2>1, <2>4, ListIndices
    <3>2. new[n + 1] \notin {new[i] : i \in 1 .. n}
      <4> SUFFICES ASSUME NEW i \in 1 .. n, new[i] = new[n + 1] PROVE FALSE
        OBVIOUS
      <4>1. i \in 1 .. Len(new) /\ i # n + 1
        BY <1>1, <2>1
      <4> QED BY <4>1, <2>1, ListIndices
    <3>3. new[n + 1] \notin A \cup Upto(n)
      BY <3>1, <3>2
    <3>4. Lists(InsertDesc(f[n], new[n + 1], key), (A \cup Upto(n)) \cup {new[n + 1]})
      BY <2>1, <3>3, InsertDescLists
    <3>5. (A \cup Upto(n)) \cup {new[n + 1]} = A \cup Upto(n + 1)
      BY <2>3, <2>4
    <3> HIDE DEF Upto
    <3> QED BY <2>2, <2>4, <3>4, <3>5
  <2>5. CASE new[n + 1] \notin chosen
    <3> HIDE DEF Upto
    <3> QED BY <2>1, <2>2, <2>3, <2>5
  <2> QED BY <2>4, <2>5
<1>7. Lists(f[Len(new)], A \cup Upto(Len(new)))
  <2>1. Len(new) \in S
    <3> HIDE DEF S
    <3> QED BY <1>1, <1>5, <1>6, NatInd
  <2>2. Len(new) <= Len(new)
    BY <1>1
  <2> HIDE DEF Upto
  <2> QED BY <2>1, <2>2
<1>8. Upto(Len(new)) = B \cap chosen
  <2>1. {new[i] : i \in 1 .. Len(new)} = B
    BY ListIndices
  <2> QED BY <2>1
<1> HIDE DEF Upto
<1> QED BY <1>3, <1>1, <1>7, <1>8

\* list_sort keeps the elements.
LEMMA SortLists ==
  ASSUME NEW A, NEW q, Lists(q, A), NEW key
  PROVE  Lists(SortDesc(q, key), A)
<1>1. Range(q) = A
  BY DEF Range, Lists, ToSet
<1>2. Lists(InsertAll(<<>>, q, A, key), {} \cup (A \cap A))
  BY InsertAllLists, EmptyLists
<1> QED BY <1>1, <1>2 DEF SortDesc

\* list_pop_front takes one element out.
LEMMA HeadTailLists ==
  ASSUME NEW A, NEW q, Lists(q, A), q # <<>>
  PROVE  Head(q) \in A /\ Lists(Tail(q), A \ {Head(q)})
<1>1. /\ Head(q) \in A /\ Len(q) \in Nat \ {0} /\ Head(q) = q[1] /\ Tail(q) \in Seq(A)
      /\ Len(Tail(q)) = Len(q) - 1
      /\ \A i \in 1 .. Len(q) - 1 : Tail(q)[i] = q[i + 1]
  BY HeadTailProperties, LenProperties DEF Lists
<1>2. /\ \A i \in 1 .. Len(q) : q[i] \in A
      /\ \A a \in A : \E i \in 1 .. Len(q) : q[i] = a
      /\ \A i, j \in 1 .. Len(q) : q[i] = q[j] => i = j
  BY ListIndices
<1> DEFINE r == Tail(q)
<1> HIDE DEF r
<1>3. \A i \in 1 .. Len(r) : i + 1 \in 1 .. Len(q) /\ i + 1 # 1 /\ r[i] = q[i + 1]
  BY <1>1 DEF r
<1>4. \A i \in 1 .. Len(r) : r[i] \in A \ {Head(q)}
  BY <1>1, <1>2, <1>3
<1>5. r \in Seq(A \ {Head(q)})
  <2>1. r \in [1 .. Len(r) -> A \ {Head(q)}] /\ Len(r) \in Nat
    BY <1>1, <1>4, LenProperties DEF r
  <2> QED BY <2>1, SeqDef
<1>6. ASSUME NEW a \in A \ {Head(q)} PROVE \E i \in 1 .. Len(r) : r[i] = a
  <2>1. PICK i \in 1 .. Len(q) : q[i] = a
    BY <1>2
  <2>2. i # 1 /\ i - 1 \in 1 .. Len(r) /\ (i - 1) + 1 = i
    BY <1>1, <2>1 DEF r
  <2> QED BY <2>1, <2>2, <1>3
<1>7. \A i, j \in 1 .. Len(r) : r[i] = r[j] => i = j
  BY <1>1, <1>2, <1>3
<1> QED BY <1>1, <1>5, <1>6, <1>7, ListsBy DEF r

\* A list cut in two.
LEMMA CutLists ==
  ASSUME NEW A, NEW q, Lists(q, A), NEW n \in 0 .. Len(q)
  PROVE  /\ Lists(SubSeq(q, 1, n), ToSet(SubSeq(q, 1, n)))
         /\ ToSet(SubSeq(q, 1, n)) \subseteq A
         /\ Lists(SubSeq(q, n + 1, Len(q)), A \ ToSet(SubSeq(q, 1, n)))
<1> DEFINE a == SubSeq(q, 1, n)
           b == SubSeq(q, n + 1, Len(q))
           T == {q[i] : i \in 1 .. n}
<1>1. /\ Len(q) \in Nat
      /\ \A i \in 1 .. Len(q) : q[i] \in A
      /\ \A x \in A : \E i \in 1 .. Len(q) : q[i] = x
      /\ \A i, j \in 1 .. Len(q) : q[i] = q[j] => i = j
  BY ListIndices
<1>2. a \in Seq(T) /\ Len(a) = n /\ \A i \in 1 .. n : a[i] = q[i]
  BY <1>1, SubSeqProperties
<1>3. \A i \in n + 1 .. Len(q) : q[i] \in A \ T
  BY <1>1
<1>4. /\ b \in Seq(A \ T) /\ Len(b) = Len(q) - n
      /\ \A i \in 1 .. Len(q) - n : b[i] = q[i + n]
  <2> HIDE DEF T
  <2>1. /\ b \in Seq(A \ T) /\ Len(b) = IF n + 1 <= Len(q) THEN Len(q) - (n + 1) + 1 ELSE 0
        /\ \A i \in 1 .. Len(q) - (n + 1) + 1 : b[i] = q[n + 1 + i - 1]
    BY <1>1, <1>3, SubSeqProperties
  <2> QED BY <1>1, <2>1
<1> HIDE DEF a, b
<1>5. Lists(a, T)
  <2>1. \A x \in T : \E i \in 1 .. Len(a) : a[i] = x
    BY <1>1, <1>2
  <2>2. ASSUME NEW i \in 1 .. Len(a), NEW j \in 1 .. Len(a), a[i] = a[j] PROVE i = j
    <3>1. i \in 1 .. Len(q) /\ j \in 1 .. Len(q) /\ a[i] = q[i] /\ a[j] = q[j]
      BY <1>1, <1>2
    <3> QED BY <1>1, <2>2, <3>1
  <2> HIDE DEF T
  <2> QED BY <1>2, <2>1, <2>2, ListsBy
<1>6. Lists(b, A \ T)
  <2>1. ASSUME NEW x \in A \ T PROVE \E i \in 1 .. Len(b) : b[i] = x
    <3>1. PICK i \in 1 .. Len(q) : q[i] = x
      BY <1>1
    <3>2. ~(i <= n)
      BY <3>1
    <3>3. i - n \in 1 .. Len(b) /\ i - n + n = i
      BY <1>1, <1>4, <3>2
    <3> QED BY <3>1, <3>3, <1>4
  <2>2. ASSUME NEW i \in 1 .. Len(b), NEW j \in 1 .. Len(b), b[i] = b[j] PROVE i = j
    <3>1. i + n \in 1 .. Len(q) /\ j + n \in 1 .. Len(q) /\ b[i] = q[i + n] /\ b[j] = q[j + n]
      BY <1>1, <1>4
    <3>2. i + n = j + n
      BY <1>1, <2>2, <3>1
    <3> QED BY <3>2, <1>4, <1>1
  <2> HIDE DEF T
  <2> QED BY <1>4, <2>1, <2>2, ListsBy
<1>7. ToSet(a) = T
  BY <1>5 DEF Lists
<1>8. T \subseteq A
  BY <1>1
<1> HIDE DEF T
<1> QED BY <1>5, <1>6, <1>7, <1>8 DEF a, b

\* list_remove takes that element out.
LEMMA WithoutLists ==
  ASSUME NEW A, NEW q, Lists(q, A), NEW x \in A
  PROVE  Lists(Without(q, x), A \ {x})
<1> DEFINE k == CHOOSE i \in DOMAIN q : q[i] = x
           a == SubSeq(q, 1, k - 1)
           b == SubSeq(q, k + 1, Len(q))
           r == a \o b
<1>1. /\ Len(q) \in Nat /\ DOMAIN q = 1 .. Len(q)
      /\ \A i \in 1 .. Len(q) : q[i] \in A
      /\ \A y \in A : \E i \in 1 .. Len(q) : q[i] = y
      /\ \A i, j \in 1 .. Len(q) : q[i] = q[j] => i = j
  BY ListIndices
<1>2. k \in 1 .. Len(q) /\ q[k] = x
  BY <1>1
<1>3. Without(q, x) = r
  BY DEF Without, RemoveAt
<1> HIDE DEF k
<1>0. k \in Nat /\ k - 1 \in Int /\ k + 1 \in Int
  BY <1>2
<1>4. \A i \in 1 .. Len(q) : i # k => q[i] \in A \ {x}
  BY <1>1, <1>2
<1>5. a \in Seq(A \ {x}) /\ Len(a) = k - 1 /\ \A i \in 1 .. k - 1 : a[i] = q[i]
  BY <1>1, <1>2, <1>4, SubSeqProperties
<1>6. /\ b \in Seq(A \ {x}) /\ Len(b) = Len(q) - k
      /\ \A i \in 1 .. Len(q) - k : b[i] = q[i + k]
  <2>0. \A i \in k + 1 .. Len(q) : q[i] \in A \ {x}
    BY <1>0, <1>1, <1>4
  <2>1. /\ b \in Seq(A \ {x}) /\ Len(b) = IF k + 1 <= Len(q) THEN Len(q) - (k + 1) + 1 ELSE 0
        /\ \A i \in 1 .. Len(q) - (k + 1) + 1 : b[i] = q[k + 1 + i - 1]
    BY <1>0, <1>1, <2>0, SubSeqProperties
  <2>5. b \in Seq(A \ {x})
    BY <2>1
  <2> USE <1>2
  <2> HIDE DEF b
  <2>2. Len(q) - (k + 1) + 1 = Len(q) - k
    BY <1>0, <1>1
  <2>3. \A i \in 1 .. Len(q) - k : k + 1 + i - 1 = i + k
    BY <1>0, <1>1
  <2>4. Len(b) = Len(q) - k
    <3>1. Len(b) = IF k + 1 <= Len(q) THEN Len(q) - (k + 1) + 1 ELSE 0
      BY <2>1
    <3>2. CASE k + 1 <= Len(q)
      BY <1>0, <1>1, <2>2, <3>1, <3>2
    <3>3. CASE ~(k + 1 <= Len(q))
      <4>0. Len(q) \in Nat
        BY <1>1
      <4>1. k = Len(q)
        BY <1>0, <1>2, <3>3, <4>0
      <4> QED BY <1>1, <3>1, <3>3, <4>1
    <3> QED BY <3>2, <3>3
  <2> QED BY <2>1, <2>2, <2>3, <2>4
<1> HIDE DEF a, b
<1>7. /\ r \in Seq(A \ {x}) /\ Len(r) = Len(q) - 1
      /\ \A i \in 1 .. Len(q) - 1 : r[i] = IF i < k THEN q[i] ELSE q[i + 1]
  <2>1. /\ r \in Seq(A \ {x}) /\ Len(r) = Len(a) + Len(b)
        /\ \A i \in 1 .. Len(a) + Len(b) : r[i] = IF i <= Len(a) THEN a[i] ELSE b[i - Len(a)]
    BY <1>5, <1>6, ConcatProperties
  <2> HIDE DEF r
  <2>2. \A i \in 1 .. Len(q) - 1 : ~(i < k) => i - (k - 1) \in 1 .. Len(q) - k
                                              /\ b[i - (k - 1)] = q[i + 1]
    <3> TAKE i \in 1 .. Len(q) - 1
    <3> HAVE ~(i < k)
    <3>1. i - (k - 1) \in 1 .. Len(q) - k /\ i - (k - 1) + k = i + 1
      BY <1>0, <1>1, <1>2
    <3> QED BY <3>1, <1>6
  <2>3. Len(r) = Len(q) - 1
    BY <1>0, <1>1, <1>5, <1>6, <2>1
  <2>4. ASSUME NEW i \in 1 .. Len(q) - 1 PROVE r[i] = IF i < k THEN q[i] ELSE q[i + 1]
    <3>1. r[i] = IF i <= k - 1 THEN a[i] ELSE b[i - (k - 1)]
      BY <2>1, <2>3, <1>5
    <3>2. CASE i < k
      <4>1. i <= k - 1 /\ i \in 1 .. k - 1
        BY <1>0, <1>1, <3>2
      <4> QED BY <3>1, <3>2, <4>1, <1>5
    <3>3. CASE ~(i < k)
      <4>1. ~(i <= k - 1)
        BY <1>0, <1>1, <3>3
      <4> QED BY <3>1, <3>3, <4>1, <2>2
    <3> QED BY <3>2, <3>3
  <2> QED BY <2>1, <2>3, <2>4
<1> HIDE DEF r
<1>8. ASSUME NEW y \in A \ {x} PROVE \E i \in 1 .. Len(r) : r[i] = y
  <2>1. PICK i \in 1 .. Len(q) : q[i] = y
    BY <1>1
  <2>2. CASE i < k
    BY <1>1, <1>2, <1>7, <2>1, <2>2
  <2>3. CASE i > k
    <3>1. i - 1 \in 1 .. Len(r) /\ ~(i - 1 < k) /\ i - 1 + 1 = i
      BY <1>1, <1>2, <1>7, <2>3
    <3> QED BY <3>1, <1>7, <2>1
  <2> QED BY <1>2, <2>1, <2>2, <2>3
<1>9. ASSUME NEW i \in 1 .. Len(r), NEW j \in 1 .. Len(r), r[i] = r[j] PROVE i = j
  <2> DEFINE From(n) == IF n < k THEN n ELSE n + 1
  <2>1. \A n \in 1 .. Len(r) : From(n) \in 1 .. Len(q) /\ r[n] = q[From(n)]
    <3> TAKE n \in 1 .. Len(r)
    <3>1. n \in 1 .. Len(q) - 1 /\ From(n) \in 1 .. Len(q)
      BY <1>0, <1>1, <1>2, <1>7
    <3> QED BY <3>1, <1>7
  <2> HIDE DEF From
  <2>2. From(i) = From(j)
    BY <1>1, <1>9, <2>1
  <2> QED BY <1>0, <1>1, <1>7, <2>2 DEF From
<1> QED BY <1>3, <1>7, <1>8, <1>9, ListsBy

----------------------------------------------------------------------------
(* The lists of the scheduler share the threads out *)

\* c runs and q is ready, and together they are A.
Sched(c, q, A) == c \in A \cup {Idle} /\ Lists(q, A \ {c})

\* The threads of R are running or ready, those of W[s] wait in s.
Partition(c, q, sm, R, W) ==
  /\ R \in SUBSET Thread /\ Sched(c, q, R)
  /\ W \in [Sema -> SUBSET Thread]
  /\ \A s \in Sema : Lists(sm[s].waiters, W[s]) /\ W[s] \cap R = {}
  /\ \A s, r \in Sema : s # r => W[s] \cap W[r] = {}
  /\ \A t \in Thread : t \in R \/ \E s \in Sema : t \in W[s]

Runnable == (ToSet(ready) \cup {cur}) \ {Idle}
Waiting == [s \in Sema |-> ToSet(sem[s].waiters)]

\* OnePlace says that the lists partition the threads.
LEMMA PlacesPartition ==
  ASSUME OnePlace
  PROVE  Partition(cur, ready, sem, Runnable, Waiting)
<1>1. Lists(ready, ToSet(ready)) /\ ToSet(ready) \subseteq Thread
  BY SeqLists DEF OnePlace
<1>2. Runnable \ {cur} = ToSet(ready) /\ Runnable \in SUBSET Thread /\ cur \in Runnable \cup {Idle}
  BY <1>1, PriorityAssumption DEF Runnable, OnePlace
<1>3. \A s \in Sema : Lists(sem[s].waiters, Waiting[s]) /\ Waiting[s] \subseteq Thread
  BY SeqLists DEF OnePlace, Waiting
<1>4. /\ \A s \in Sema : Waiting[s] \cap Runnable = {}
      /\ \A s, r \in Sema : s # r => Waiting[s] \cap Waiting[r] = {}
      /\ \A t \in Thread : t \in Runnable \/ \E s \in Sema : t \in Waiting[s]
  BY PriorityAssumption DEF OnePlace, Runnable, Waiting
<1>5. Waiting \in [Sema -> SUBSET Thread]
  BY <1>3 DEF Waiting
<1> QED BY <1>1, <1>2, <1>3, <1>4, <1>5 DEF Partition, Sched

\* The same after a step.
LEMMA PartitionPlaces ==
  ASSUME NEW R, NEW W, Partition(cur', ready', sem', R, W)
  PROVE  OnePlace' /\ Runnable' = R /\ Waiting' = W
<1>1. /\ cur' \in R \cup {Idle} /\ ready' \in Seq(Thread) /\ IsInjective(ready')
      /\ ToSet(ready') = R \ {cur'} /\ R \subseteq Thread
  BY ListsSeq DEF Partition, Sched
<1>2. ASSUME NEW s \in Sema
      PROVE  /\ sem'[s].waiters \in Seq(Thread) /\ IsInjective(sem'[s].waiters)
             /\ ToSet(sem'[s].waiters) = W[s]
  BY ListsSeq DEF Partition
<1>3. Runnable' = R
  BY <1>1, PriorityAssumption DEF Runnable
<1>4. Waiting' = W
  <2>1. W = [s \in Sema |-> W[s]]
    BY DEF Partition
  <2> QED BY <2>1, <1>2 DEF Waiting
<1>5. /\ \A s \in Sema : W[s] \cap R = {} /\ W[s] \subseteq Thread
      /\ \A s, r \in Sema : s # r => W[s] \cap W[r] = {}
      /\ \A t \in Thread : t \in R \/ \E s \in Sema : t \in W[s]
  BY DEF Partition
<1>6. \A s \in Sema : W[s] \cap ((R \ {cur'}) \cup {cur'}) = {}
  BY <1>1, <1>5, PriorityAssumption
<1>7. \A t \in Thread : t = cur' \/ t \in ToSet(ready') \/ \E s \in Sema : t \in ToSet(sem'[s].waiters)
  BY <1>1, <1>2, <1>5
<1>8. cur' \in Thread \cup {Idle} /\ cur' \notin ToSet(ready')
  BY <1>1
<1> QED BY <1>1, <1>2, <1>3, <1>4, <1>5, <1>6, <1>7, <1>8 DEF OnePlace

\* schedule takes the next thread out of ready_list and loses nobody.
LEMMA RunNextSched ==
  ASSUME NEW A, NEW q, Lists(q, A), Idle \notin A, RunNext(q)
  PROVE  Sched(cur', ready', A)
<1>1. CASE q = <<>>
  <2>1. A = {} /\ cur' = Idle /\ ready' = <<>> /\ A \ {Idle} = {}
    BY <1>1, EmptyLists DEF RunNext
  <2> QED BY <2>1, EmptyLists DEF Sched
<1>2. CASE q # <<>>
  BY <1>2, HeadTailLists DEF RunNext, Sched
<1> QED BY <1>1, <1>2

\* thread_yield loses nobody.
LEMMA YieldSched ==
  ASSUME NEW A, Idle \notin A, NEW q, Sched(cur, q, A), NEW key, YieldWith(q, key)
  PROVE  Sched(cur', ready', A)
<1>1. Lists(SortDesc(q, key), A \ {cur})
  BY SortLists DEF Sched
<1>2. CASE cur = Idle
  <2>1. A \ {cur} = A
    BY <1>2
  <2> QED BY <1>1, <1>2, <2>1, RunNextSched DEF YieldWith
<1>3. CASE cur # Idle
  <2>1. (A \ {cur}) \cup {cur} = A
    BY <1>3 DEF Sched
  <2>2. Lists(InsertDesc(SortDesc(q, key), cur, key), (A \ {cur}) \cup {cur})
    BY <1>1, InsertDescLists
  <2> QED BY <1>3, <2>1, <2>2, RunNextSched DEF YieldWith
<1> QED BY <1>2, <1>3

\* thread_unblock makes the thread runnable, nothing else.
LEMMA UnblockSched ==
  ASSUME NEW A, Idle \notin A, Sched(cur, ready, A), NEW u, u \notin A, u # Idle,
         NEW key, Unblock(u, key)
  PROVE  Sched(cur', ready', A \cup {u})
<1> DEFINE q == InsertDesc(ready, u, key)
<1>1. cur # u
  BY DEF Sched
<1>2. Lists(q, (A \ {cur}) \cup {u})
  BY InsertDescLists DEF Sched
<1>3. (A \ {cur}) \cup {u} = (A \cup {u}) \ {cur}
  BY <1>1
<1>4. Sched(cur, q, A \cup {u})
  BY <1>2, <1>3 DEF Sched
<1> HIDE DEF q
<1>5. CASE YieldWith(q, key)
  BY <1>4, <1>5, YieldSched
<1>6. CASE ready' = q /\ UNCHANGED cur
  BY <1>4, <1>6
<1>7. YieldWith(q, key) \/ (ready' = q /\ UNCHANGED cur)
  BY DEF Unblock, q
<1> QED BY <1>5, <1>6, <1>7

\* What sema_up does to who waits and who runs: u is the woken thread.
LEMMA SemaUpPlaces ==
  ASSUME NEW s \in Sema, OnePlace, sem \in [Sema -> [value : 0 .. 1, waiters : Seq(Thread)]],
         sem[s].value = 0, SemaUp(s)
  PROVE  /\ OnePlace' /\ sem' \in [Sema -> [value : 0 .. 1, waiters : Seq(Thread)]]
         /\ \A r \in Sema : sem'[r].value = IF r = s THEN 1 ELSE sem[r].value
         /\ \/ Waiting[s] = {} /\ Waiting' = Waiting /\ Runnable' = Runnable
            \/ \E u \in Waiting[s] : /\ Waiting' = [Waiting EXCEPT ![s] = @ \ {u}]
                                     /\ Runnable' = Runnable \cup {u}
<1> DEFINE w == SortDesc(sem[s].waiters, PriorityOf)
           R == Runnable
           W == Waiting
<1>1. Partition(cur, ready, sem, R, W)
  BY PlacesPartition
<1>2. W[s] \subseteq Thread /\ Lists(sem[s].waiters, W[s])
  BY <1>1 DEF Partition
<1>3. Lists(w, W[s])
  BY <1>2, SortLists
<1>4. /\ sem' = [sem EXCEPT ![s] = [value |-> @.value + 1,
                                    waiters |-> IF w = <<>> THEN <<>> ELSE Tail(w)]]
      /\ w = <<>> => UNCHANGED <<cur, ready>>
      /\ w # <<>> => Unblock(Head(w), PriorityOf)
  BY DEF SemaUp
<1>5. sem[s].value + 1 = 1
  OBVIOUS
<1> HIDE DEF w, R, W
<1>6. /\ \A r \in Sema : r # s => sem'[r] = sem[r]
      /\ sem'[s] = [value |-> 1, waiters |-> IF w = <<>> THEN <<>> ELSE Tail(w)]
  BY <1>4, <1>5
<1>7. CASE w = <<>>
  <2>1. W[s] = {} /\ UNCHANGED <<cur, ready>>
    BY <1>3, <1>4, <1>7, EmptyLists
  <2>2. \A r \in Sema : Lists(sem'[r].waiters, W[r])
    <3> TAKE r \in Sema
    <3>1. CASE r = s
      <4>1. sem'[s].waiters = <<>>
        BY <1>6, <1>7
      <4> QED BY <2>1, <3>1, <4>1, EmptyLists
    <3>2. CASE r # s
      BY <1>1, <1>6, <3>2 DEF Partition
    <3> QED BY <3>1, <3>2
  <2>3. Partition(cur', ready', sem', R, W)
    BY <1>1, <2>1, <2>2 DEF Partition
  <2>4. OnePlace' /\ Runnable' = R /\ Waiting' = W
    BY <2>3, PartitionPlaces
  <2>5. sem' \in [Sema -> [value : 0 .. 1, waiters : Seq(Thread)]]
    BY <1>4, <1>5, <1>7
  <2> QED BY <1>6, <2>1, <2>4, <2>5 DEF R, W
<1>8. CASE w # <<>>
  <2> DEFINE u == Head(w)
             V == [W EXCEPT ![s] = @ \ {u}]
  <2>1. u \in W[s] /\ Lists(Tail(w), W[s] \ {u})
    BY <1>3, <1>8, HeadTailLists
  <2>2. u \in Thread /\ u \notin R /\ u # Idle /\ Idle \notin R
    BY <1>1, <1>2, <2>1, PriorityAssumption DEF Partition
  <2>3. Sched(cur', ready', R \cup {u})
    <3>1. Sched(cur, ready, R) /\ Unblock(u, PriorityOf)
      BY <1>1, <1>4, <1>8 DEF Partition
    <3> HIDE DEF u
    <3> QED BY <2>2, <3>1, UnblockSched
  <2>4. /\ W \in [Sema -> SUBSET Thread]
        /\ V \in [Sema -> SUBSET Thread]
        /\ \A r \in Sema : V[r] = IF r = s THEN W[s] \ {u} ELSE W[r]
    BY <1>1 DEF Partition
  <2> HIDE DEF u, V
  <2>5. \A r \in Sema : Lists(sem'[r].waiters, V[r])
    <3> TAKE r \in Sema
    <3>1. CASE r = s
      <4>1. sem'[s].waiters = Tail(w) /\ V[s] = W[s] \ {u}
        BY <1>6, <1>8, <2>4
      <4> QED BY <2>1, <3>1, <4>1
    <3>2. CASE r # s
      BY <1>1, <1>6, <2>4, <3>2 DEF Partition
    <3> QED BY <3>1, <3>2
  <2>6. /\ \A r \in Sema : V[r] \cap (R \cup {u}) = {}
        /\ \A q, r \in Sema : q # r => V[q] \cap V[r] = {}
        /\ \A t \in Thread : t \in R \cup {u} \/ \E r \in Sema : t \in V[r]
    <3>1. /\ \A r \in Sema : W[r] \cap R = {}
          /\ \A q, r \in Sema : q # r => W[q] \cap W[r] = {}
          /\ \A t \in Thread : t \in R \/ \E r \in Sema : t \in W[r]
      BY <1>1 DEF Partition
    <3>2. \A r \in Sema : u \notin V[r] /\ \A t : t \in V[r] => t \in W[r]
      BY <2>1, <2>4, <3>1
    <3>3. \A t : \A r \in Sema : t \in W[r] => t = u \/ t \in V[r]
      BY <2>1, <2>4
    <3> QED BY <3>1, <3>2, <3>3
  <2>7. R \cup {u} \in SUBSET Thread
    BY <1>1, <2>2 DEF Partition
  <2>8. Partition(cur', ready', sem', R \cup {u}, V)
    BY <2>3, <2>4, <2>5, <2>6, <2>7 DEF Partition
  <2>9. OnePlace' /\ Runnable' = R \cup {u} /\ Waiting' = V
    BY <2>8, PartitionPlaces
  <2>10. sem' \in [Sema -> [value : 0 .. 1, waiters : Seq(Thread)]]
    <3>1. Tail(w) \in Seq(Thread)
      <4>1. W[s] \ {u} \in SUBSET Thread
        BY <1>2
      <4> QED BY <2>1, <4>1, ListsSeq
    <3> QED BY <1>4, <1>5, <1>8, <3>1
  <2>11. /\ u \in Waiting[s] /\ Waiting' = [Waiting EXCEPT ![s] = @ \ {u}]
         /\ Runnable' = Runnable \cup {u}
    BY <2>1, <2>9 DEF R, W, V
  <2>12. \A r \in Sema : sem'[r].value = IF r = s THEN 1 ELSE sem[r].value
    BY <1>6
  <2> QED BY <2>9, <2>10, <2>11, <2>12
<1> QED BY <1>7, <1>8

\* What sema_down does to them: it takes the semaphore or waits in it.
LEMMA DownPlaces ==
  ASSUME NEW t \in Thread, cur = t, NEW s \in Sema, NEW next, OnePlace,
         sem \in [Sema -> [value : 0 .. 1, waiters : Seq(Thread)]], Down(t, s, next)
  PROVE  /\ OnePlace' /\ sem' \in [Sema -> [value : 0 .. 1, waiters : Seq(Thread)]]
         /\ sem'[s].value = 0 /\ \A r \in Sema : r # s => sem'[r].value = sem[r].value
         /\ \/ /\ sem[s].value = 1 /\ Waiting' = Waiting /\ Runnable' = Runnable
               /\ th' = [th EXCEPT ![t].pc = next, ![t].off = FALSE]
            \/ /\ sem[s].value = 0 /\ Waiting' = [Waiting EXCEPT ![s] = @ \cup {t}]
               /\ Runnable' = Runnable \ {t}
               /\ th' = [th EXCEPT ![t].off = TRUE]
<1> DEFINE R == Runnable
           W == Waiting
<1>1. Partition(cur, ready, sem, R, W)
  BY PlacesPartition
<1> HIDE DEF R, W
<1>2. sem[s].value \in 0 .. 1 /\ sem[s].waiters \in Seq(Thread)
  OBVIOUS
<1>3. t # Idle /\ Idle \notin R /\ t \in R /\ Lists(ready, R \ {t})
  BY <1>1, PriorityAssumption DEF Partition, Sched
<1>4. CASE sem[s].value > 0
  <2>1. /\ sem[s].value = 1 /\ sem' = [sem EXCEPT ![s].value = @ - 1] /\ UNCHANGED <<cur, ready>>
        /\ th' = [th EXCEPT ![t].pc = next, ![t].off = FALSE]
    <3>1. sem[s].value = 1
      BY <1>2, <1>4
    <3> QED BY <1>4, <3>1 DEF Down
  <2>2. sem' \in [Sema -> [value : 0 .. 1, waiters : Seq(Thread)]] /\ sem'[s].value = 0
    BY <2>1
  <2>3. \A r \in Sema : sem'[r].waiters = sem[r].waiters /\ (r # s => sem'[r].value = sem[r].value)
    BY <2>1
  <2>4. Partition(cur', ready', sem', R, W)
    BY <1>1, <2>1, <2>3 DEF Partition
  <2>5. OnePlace' /\ Runnable' = R /\ Waiting' = W
    BY <2>4, PartitionPlaces
  <2> QED BY <2>1, <2>2, <2>3, <2>5 DEF R, W
<1>5. CASE ~(sem[s].value > 0)
  <2> DEFINE i == InsertDesc(sem[s].waiters, t, PriorityOf)
             V == [W EXCEPT ![s] = @ \cup {t}]
  <2>1. /\ sem[s].value = 0 /\ sem' = [sem EXCEPT ![s].waiters = i] /\ RunNext(ready)
        /\ th' = [th EXCEPT ![t].off = TRUE]
    BY <1>2, <1>5 DEF Down
  <2>2. Lists(i, W[s] \cup {t})
    <3>1. Lists(sem[s].waiters, W[s]) /\ t \notin W[s]
      BY <1>1, <1>3 DEF Partition
    <3> QED BY <3>1, InsertDescLists
  <2>3. Sched(cur', ready', R \ {t})
    BY <1>3, <2>1, RunNextSched
  <2> HIDE DEF i
  <2>4. /\ \A r \in Sema : r # s => sem'[r] = sem[r]
        /\ sem'[s].value = 0 /\ sem'[s].waiters = i
    BY <2>1
  <2>5. /\ W \in [Sema -> SUBSET Thread]
        /\ V \in [Sema -> SUBSET Thread]
        /\ \A r \in Sema : V[r] = IF r = s THEN W[s] \cup {t} ELSE W[r]
    BY <1>1 DEF Partition
  <2> HIDE DEF V
  <2>6. \A r \in Sema : Lists(sem'[r].waiters, V[r])
    BY <1>1, <2>2, <2>4, <2>5 DEF Partition
  <2>7. /\ \A r \in Sema : V[r] \cap (R \ {t}) = {}
        /\ \A q, r \in Sema : q # r => V[q] \cap V[r] = {}
        /\ \A u \in Thread : u \in R \ {t} \/ \E r \in Sema : u \in V[r]
    <3>1. /\ \A r \in Sema : W[r] \cap R = {}
          /\ \A q, r \in Sema : q # r => W[q] \cap W[r] = {}
          /\ \A u \in Thread : u \in R \/ \E r \in Sema : u \in W[r]
      BY <1>1 DEF Partition
    <3>2. \A r \in Sema : \A u : u \in V[r] => u \in W[r] \/ (u = t /\ r = s)
      BY <2>5
    <3>3. t \in V[s] /\ \A r \in Sema : t \notin W[r] /\ \A u : u \in W[r] => u \in V[r]
      BY <1>3, <2>5, <3>1
    <3>4. \A r \in Sema : V[r] \cap (R \ {t}) = {}
      BY <3>1, <3>2
    <3>5. ASSUME NEW q \in Sema, NEW r \in Sema, q # r PROVE V[q] \cap V[r] = {}
      <4> SUFFICES ASSUME NEW u, u \in V[q], u \in V[r] PROVE FALSE
        OBVIOUS
      <4>1. CASE u = t
        BY <3>2, <3>3, <3>5, <4>1
      <4>2. CASE u # t
        <5>1. u \in W[q] /\ u \in W[r]
          BY <3>2, <4>2
        <5> QED BY <3>1, <3>5, <5>1
      <4> QED BY <4>1, <4>2
    <3> QED BY <3>1, <3>3, <3>4, <3>5
  <2>8. R \ {t} \in SUBSET Thread
    BY <1>1 DEF Partition
  <2>9. Partition(cur', ready', sem', R \ {t}, V)
    BY <2>3, <2>5, <2>6, <2>7, <2>8 DEF Partition
  <2>10. OnePlace' /\ Runnable' = R \ {t} /\ Waiting' = V
    BY <2>9, PartitionPlaces
  <2>11. sem' \in [Sema -> [value : 0 .. 1, waiters : Seq(Thread)]]
    <3>1. i \in Seq(Thread)
      <4>1. W[s] \cup {t} \in SUBSET Thread
        BY <2>5
      <4> QED BY <2>2, <4>1, ListsSeq
    <3> QED BY <2>1, <3>1
  <2> QED BY <2>1, <2>4, <2>10, <2>11 DEF R, W, V
<1> QED BY <1>4, <1>5

----------------------------------------------------------------------------
(* The inductive invariant *)

\* t has l for itself, or is about to take it over, or to put it down.
Holds(t, l) ==
  \/ l \in ToSet(th[t].locks)
  \/ th[t].lk = l /\ th[t].pc \in {"got", "record", "clear", "up"}

\* A lock that somebody has is down and has that one owner, whom it names but
\* in the first and the last step.
OneOwner ==
  \A l \in Lock, t \in Thread : Holds(t, l) =>
    /\ sem[l].value = 0
    /\ \A u \in Thread : Holds(u, l) => u = t
    /\ (th[t].lk = l /\ th[t].pc \in {"got", "up"}) \/ lck[l].holder = t

\* What a call that is under way works on.
Calls ==
  \A t \in Thread :
    /\ IsInjective(th[t].locks)
    /\ th[t].pc \in {"check", "donate", "down", "got", "record", "clear", "up", "await"} =>
         th[t].lk \in Lock \ ToSet(th[t].locks)
    /\ th[t].pc = "restore" => th[t].lk \in ToSet(th[t].locks)
    /\ th[t].pc = "donate" => th[t].at \in Lock

\* A lock that is held has the priorities lock_release goes back to.
Donations ==
  \A t \in Thread : \A l \in ToSet(th[t].locks) :
    lck[l].highest \in Prios /\ lck[l].old \in Prios

\* Who waits in a lock's semaphore is in lock_acquire of that lock, and only
\* its thread waits in a thread's semaphore, which is not up then.
Waits ==
  \A s \in Sema : \A t \in Waiting[s] :
    /\ th[t].off
    /\ s \in Lock => th[t].pc = "down" /\ th[t].lk = s
    /\ s \in Thread => t = s /\ sem[s].value = 0 /\ th[t].pc \in {"await", "nap"}

\* Who is on sleep_list has not been rung for.
Sleeps ==
  /\ \A t \in ToSet(sleepers) : th[t].pc = "nap" /\ sem[t].value = 0
  /\ \A t \in Thread : th[t].pc = "link" => sem[t].value = 0

\* Who is among the condition's waiters has not been signalled.
Signals ==
  \A t \in ToSet(condq) :
    th[t].pc \in {"restore", "clear", "up", "await"} /\ th[t].cond /\ sem[t].value = 0

IInv ==
  /\ TypeOK /\ OneOwner /\ Calls /\ Donations
  /\ Waits /\ Sleeps /\ Signals /\ NoLostWakeup

SemaTypes == [Sema -> [value : 0 .. 1, waiters : Seq(Thread)]]

\* NoLostWakeup, told by who waits and who may run.
SomebodyComes ==
  \A s \in Sema : sem[s].value > 0 /\ Waiting[s] # {} =>
    \E t \in Runnable : th[t].off /\ th[t].pc = "down" /\ th[t].lk = s

\* A list is empty when nobody is on it.
LEMMA WaitingNobody ==
  ASSUME NEW S, NEW q \in Seq(S)
  PROVE  q # <<>> <=> ToSet(q) # {}
<1>1. DOMAIN q = 1 .. Len(q) /\ Len(q) \in Nat /\ (q # <<>> => Len(q) \in Nat \ {0})
  BY LenProperties, EmptySeq
<1>2. DOMAIN <<>> = {}
  OBVIOUS
<1> QED BY <1>1, <1>2 DEF ToSet

\* SomebodyComes is NoLostWakeup.
LEMMA Wakeups ==
  /\ sem \in SemaTypes => (NoLostWakeup <=> SomebodyComes)
  /\ sem' \in SemaTypes => (NoLostWakeup' <=> SomebodyComes')
<1>1. ASSUME sem \in SemaTypes PROVE \A s \in Sema : sem[s].waiters # <<>> <=> Waiting[s] # {}
  BY <1>1, WaitingNobody DEF SemaTypes, Waiting
<1>2. ASSUME sem' \in SemaTypes PROVE \A s \in Sema : sem'[s].waiters # <<>> <=> Waiting'[s] # {}
  BY <1>2, WaitingNobody DEF SemaTypes, Waiting
<1> QED BY <1>1, <1>2 DEF NoLostWakeup, SomebodyComes, Runnable

\* The running thread waits nowhere.
LEMMA CurRuns ==
  ASSUME IInv, NEW t \in Thread, cur = t
  PROVE  t \in Runnable /\ \A s \in Sema : t \notin Waiting[s]
<1>1. Partition(cur, ready, sem, Runnable, Waiting)
  BY PlacesPartition DEF IInv, TypeOK
<1>2. t \in Runnable
  BY PriorityAssumption DEF Runnable
<1> QED BY <1>1, <1>2 DEF Partition

\* A step of a thread outside sema_down, in which nobody wakes or goes to
\* sleep, leaves the wakeups as they are.
LEMMA NobodyMoves ==
  ASSUME IInv, NEW t \in Thread, cur = t, th[t].pc # "down", sem' \in SemaTypes,
         Runnable' = Runnable, Waiting' = Waiting,
         \A s \in Sema : sem'[s].value = sem[s].value \/ sem'[s].value = 0,
         \A u \in Thread \ {t} : /\ th'[u].pc = th[u].pc /\ th'[u].lk = th[u].lk
                                 /\ th'[u].off = th[u].off
  PROVE  Waits' /\ NoLostWakeup'
<1>1. /\ t \in Runnable /\ \A s \in Sema : t \notin Waiting[s]
      /\ sem \in SemaTypes /\ Runnable \subseteq Thread
      /\ \A s \in Sema : Waiting[s] \subseteq Thread
  <2>1. Partition(cur, ready, sem, Runnable, Waiting)
    BY PlacesPartition DEF IInv, TypeOK
  <2>2. sem \in SemaTypes
    BY DEF IInv, TypeOK, SemaTypes
  <2> QED BY <2>1, <2>2, CurRuns DEF Partition
<1>2. Waits'
  BY <1>1 DEF Waits, IInv
<1>3. SomebodyComes'
  <2>1. SomebodyComes
    BY <1>1, Wakeups DEF IInv
  <2> SUFFICES ASSUME NEW s \in Sema, sem'[s].value > 0, Waiting[s] # {}
               PROVE  \E u \in Runnable : th'[u].off /\ th'[u].pc = "down" /\ th'[u].lk = s
    BY DEF SomebodyComes
  <2>2. sem[s].value > 0
    OBVIOUS
  <2>3. PICK u \in Runnable : th[u].off /\ th[u].pc = "down" /\ th[u].lk = s
    BY <2>1, <2>2 DEF SomebodyComes
  <2>4. u # t /\ u \in Thread
    BY <1>1, <2>3
  <2> QED BY <2>3, <2>4
<1> QED BY <1>2, <1>3, Wakeups

\* Nor does it touch the lists of sleepers and of the condition's waiters.
LEMMA NobodyRings ==
  ASSUME IInv, NEW t \in Thread, UNCHANGED <<sleepers, condq>>,
         th[t].pc # "nap", th'[t].pc # "link",
         t \in ToSet(condq) => /\ th'[t].pc \in {"restore", "clear", "up", "await"}
                              /\ th'[t].cond,
         \A s \in Thread : sem'[s].value = sem[s].value,
         \A u \in Thread \ {t} : th'[u].pc = th[u].pc /\ th'[u].cond = th[u].cond
  PROVE  Sleeps' /\ Signals'
<1>1. ToSet(sleepers) \subseteq Thread /\ ToSet(condq) \subseteq Thread
  BY SeqLists DEF IInv, TypeOK
<1>2. Sleeps'
  BY <1>1 DEF IInv, Sleeps
<1>3. Signals'
  BY <1>1 DEF IInv, Signals
<1> QED BY <1>2, <1>3

\* Contains is membership.
LEMMA ContainsIn ==
  ASSUME NEW S, NEW q \in Seq(S)
  PROVE  \A x : Contains(q, x) <=> x \in ToSet(q)
<1>1. DOMAIN q = 1 .. Len(q)
  BY LenProperties
<1> QED BY <1>1 DEF Contains, ToSet

\* The locks of a thread, which are Lock's, each once.
LEMMA LocksListed ==
  ASSUME IInv, NEW t \in Thread
  PROVE  /\ th[t] \in ThreadRecord /\ th[t].locks \in Seq(Lock)
         /\ Lists(th[t].locks, ToSet(th[t].locks)) /\ ToSet(th[t].locks) \subseteq Lock
         /\ \A l : Contains(th[t].locks, l) <=> l \in ToSet(th[t].locks)
<1>1. th[t] \in ThreadRecord /\ th[t].locks \in Seq(Lock) /\ IsInjective(th[t].locks)
  BY DEF IInv, TypeOK, Calls, ThreadRecord
<1> QED BY <1>1, SeqLists, ContainsIn

----------------------------------------------------------------------------
(* The steps *)

\* lock_acquire has looked at the holder.
LEMMA CheckStep ==
  ASSUME IInv, NEW t \in Thread, Check(t)
  PROVE  IInv'
<1> DEFINE l == th[t].lk
<1>1. /\ cur = t /\ th[t].pc = "check" /\ l \in Lock \ ToSet(th[t].locks)
      /\ th \in [Thread -> ThreadRecord] /\ th[t] \in ThreadRecord
  BY DEF IInv, TypeOK, Calls, Check, Running
<1>2. /\ th' \in [Thread -> ThreadRecord]
      /\ \A u \in Thread \ {t} : th'[u] = th[u]
      /\ th'[t].pc \in {"down", "donate"} /\ (th'[t].pc = "donate" => th'[t].at = l)
      /\ th'[t].lk = l /\ th'[t].locks = th[t].locks /\ th'[t].cond = th[t].cond
  <2>1. CASE th' = [th EXCEPT ![t].pc = "down"]
    BY <1>1, <2>1 DEF ThreadRecord, Pcs
  <2>2. CASE th' = [th EXCEPT ![t].pc = "donate", ![t].waiting = l, ![t].at = l]
    BY <1>1, <2>2 DEF ThreadRecord, Pcs
  <2> QED BY <2>1, <2>2 DEF Check, At
<1>3. UNCHANGED <<cur, ready, sem, lck, sleepers, condq, machine, broken>>
  BY DEF Check, SchedulerSame, AlarmSame, Rest
<1>4. TypeOK'
  BY <1>2, <1>3 DEF IInv, TypeOK, OnePlace
<1>5. OneOwner'
  BY <1>1, <1>2, <1>3 DEF IInv, OneOwner, Holds
<1>6. Calls'
  BY <1>1, <1>2, <1>3 DEF IInv, Calls
<1>7. Donations'
  BY <1>1, <1>2, <1>3 DEF IInv, Donations
<1>8. Sleeps' /\ Signals'
  <2>1. t \notin ToSet(condq)
    BY <1>1 DEF IInv, Signals
  <2> QED BY <1>1, <1>2, <1>3, <2>1, NobodyRings
<1>9. Waits' /\ NoLostWakeup'
  <2>1. sem' \in SemaTypes /\ Runnable' = Runnable /\ Waiting' = Waiting
    BY <1>3 DEF IInv, TypeOK, SemaTypes, Runnable, Waiting
  <2> QED BY <1>1, <1>2, <1>3, <2>1, NobodyMoves
<1> QED BY <1>4, <1>5, <1>6, <1>7, <1>8, <1>9 DEF IInv

\* A thread asks for a lock it does not hold, since it nests them in order.
LEMMA AcquireStep ==
  ASSUME IInv, NEW t \in Thread, NEW l \in Lock, Acquire(t, l)
  PROVE  IInv'
<1>1. /\ cur = t /\ th[t].pc = "home" /\ th \in [Thread -> ThreadRecord]
      /\ th[t] \in ThreadRecord
  BY DEF IInv, TypeOK, Acquire, Call, Running
<1>2. l \notin ToSet(th[t].locks)
  <2>1. Rank(l) \in Nat
    <3>1. \E i \in DOMAIN LockOrder : LockOrder[i] = l
      BY DEF Lock, Range
    <3>2. DOMAIN LockOrder \subseteq Nat
      BY PriorityAssumption, LenProperties
    <3> QED BY <3>1, <3>2 DEF Rank
  <2>2. \A i \in DOMAIN th[t].locks : Rank(th[t].locks[i]) < Rank(l)
    BY DEF Acquire, MayAcquire
  <2>3. \A i \in DOMAIN th[t].locks : th[t].locks[i] # l
    BY <2>1, <2>2
  <2> QED BY <2>3 DEF ToSet
<1>3. /\ th' \in [Thread -> ThreadRecord]
      /\ \A u \in Thread \ {t} : th'[u] = th[u]
      /\ th'[t].pc = "check" /\ th'[t].lk = l /\ th'[t].locks = th[t].locks
  BY <1>1 DEF Acquire, ThreadRecord, Pcs
<1>4. UNCHANGED <<cur, ready, sem, lck, sleepers, condq, machine, broken>>
  BY DEF Acquire, SchedulerSame, AlarmSame, Rest
<1>5. TypeOK'
  BY <1>3, <1>4 DEF IInv, TypeOK, OnePlace
<1>6. OneOwner'
  BY <1>1, <1>3, <1>4 DEF IInv, OneOwner, Holds
<1>7. Calls'
  BY <1>1, <1>2, <1>3, <1>4 DEF IInv, Calls
<1>8. Donations'
  BY <1>3, <1>4 DEF IInv, Donations
<1>9. Sleeps' /\ Signals'
  <2>1. t \notin ToSet(condq)
    BY <1>1 DEF IInv, Signals
  <2> QED BY <1>1, <1>3, <1>4, <2>1, NobodyRings
<1>10. Waits' /\ NoLostWakeup'
  <2>1. sem' \in SemaTypes /\ Runnable' = Runnable /\ Waiting' = Waiting
    BY <1>4 DEF IInv, TypeOK, SemaTypes, Runnable, Waiting
  <2> QED BY <1>1, <1>3, <1>4, <2>1, NobodyMoves
<1> QED BY <1>5, <1>6, <1>7, <1>8, <1>9, <1>10 DEF IInv

\* A level of donate changes priorities and nothing the locks rest on.
LEMMA DonateStep ==
  ASSUME IInv, NEW t \in Thread, Donate(t)
  PROVE  IInv'
<1> DEFINE l == th[t].at
           h == lck[l].holder
<1>1. /\ cur = t /\ th[t].pc = "donate" /\ l \in Lock /\ h \in Thread \cup {None}
      /\ th \in [Thread -> ThreadRecord] /\ lck \in [Lock -> LockRecord]
      /\ th[t] \in ThreadRecord /\ lck[l] \in LockRecord
  BY DEF IInv, TypeOK, Calls, Donate, Running, LockRecord
<1>2. UNCHANGED <<cur, ready, sem, sleepers, condq, machine>>
  BY DEF Donate, SchedulerSame, AlarmSame, Rest
<1>3. /\ th' \in [Thread -> ThreadRecord]
      /\ \A u \in Thread \ {t} : th'[u].pc = th[u].pc /\ th'[u].at = th[u].at
      /\ \A u \in Thread : /\ th'[u].lk = th[u].lk /\ th'[u].locks = th[u].locks
                           /\ th'[u].off = th[u].off /\ th'[u].cond = th[u].cond
      /\ th'[t].pc \in {"down", "donate"} /\ (th'[t].pc = "donate" => th'[t].at \in Lock)
  <2>1. CASE h = None
    BY <1>1, <2>1 DEF Donate
  <2>2. CASE h # None /\ th[t].prio > th[h].prio
    <3>1. h \in Thread /\ h # t /\ th[h] \in ThreadRecord /\ th[h].waiting \in Lock \cup {None}
          /\ th[t].prio \in Prios
      <4>1. h \in Thread
        BY <1>1, <2>2
      <4>2. th[h] \in ThreadRecord
        BY <1>1, <4>1
      <4>3. Prios \subseteq Nat
        BY PriorityAssumption
      <4>4. th[t].prio \in Prios /\ th[h].waiting \in Lock \cup {None}
        BY <1>1, <4>2 DEF ThreadRecord
      <4> HIDE DEF h
      <4>5. h # t
        <5> SUFFICES ASSUME h = t PROVE FALSE
          OBVIOUS
        <5>1. th[t].prio > th[t].prio
          BY <2>2
        <5>2. th[t].prio \in Nat
          BY <4>3, <4>4
        <5>3. \A n \in Nat : ~(n > n)
          OBVIOUS
        <5> QED BY <5>1, <5>2, <5>3
      <4> QED BY <4>1, <4>2, <4>4, <4>5
    <3>2. th' = [th EXCEPT ![h].prio = th[t].prio,
                           ![t].pc = IF th[h].waiting = None THEN "down" ELSE @,
                           ![t].at = th[h].waiting]
      BY <2>2 DEF Donate
    <3>3. /\ \A u \in Thread \ {t, h} : th'[u] = th[u]
          /\ th'[h] = [th[h] EXCEPT !.prio = th[t].prio]
          /\ th'[t] = [th[t] EXCEPT !.pc = IF th[h].waiting = None THEN "down" ELSE @,
                                    !.at = th[h].waiting]
          /\ th' = [u \in Thread |-> th'[u]]
      BY <1>1, <3>1, <3>2
    <3>4. th'[h] \in ThreadRecord /\ th'[t] \in ThreadRecord
      <4>1. th'[h] \in ThreadRecord
        BY <3>1, <3>3 DEF ThreadRecord
      <4>2. (IF th[h].waiting = None THEN "down" ELSE th[t].pc) \in Pcs
        BY <1>1 DEF Pcs
      <4>3. th'[t] \in ThreadRecord
        BY <1>1, <3>1, <3>3, <4>2 DEF ThreadRecord
      <4> QED BY <4>1, <4>3
    <3>5. /\ th'[h].pc = th[h].pc /\ th'[h].at = th[h].at
          /\ th'[h].lk = th[h].lk /\ th'[h].locks = th[h].locks
          /\ th'[h].off = th[h].off /\ th'[h].cond = th[h].cond
      BY <3>1, <3>3 DEF ThreadRecord
    <3>6. /\ th'[t].lk = th[t].lk /\ th'[t].locks = th[t].locks
          /\ th'[t].off = th[t].off /\ th'[t].cond = th[t].cond
          /\ th'[t].at = th[h].waiting
          /\ th'[t].pc = IF th[h].waiting = None THEN "down" ELSE th[t].pc
      BY <1>1, <3>3 DEF ThreadRecord
    <3>7. th' \in [Thread -> ThreadRecord]
      BY <1>1, <3>3, <3>4
    <3> QED BY <1>1, <3>1, <3>3, <3>5, <3>6, <3>7
  <2>3. CASE h # None /\ ~(th[t].prio > th[h].prio)
    <3>1. th' = [th EXCEPT ![t].pc = "down", ![t].at = None]
      BY <2>3 DEF Donate
    <3>2. [th[t] EXCEPT !.pc = "down", !.at = None] \in ThreadRecord
      BY <1>1 DEF ThreadRecord, Pcs
    <3>3. /\ th' \in [Thread -> ThreadRecord] /\ \A u \in Thread \ {t} : th'[u] = th[u]
          /\ th'[t] = [th[t] EXCEPT !.pc = "down", !.at = None]
      BY <1>1, <3>1, <3>2
    <3> QED BY <1>1, <3>1, <3>3 DEF ThreadRecord
  <2> QED BY <2>1, <2>2, <2>3
<1>4. /\ lck' \in [Lock -> LockRecord]
      /\ \A k \in Lock : /\ lck'[k].holder = lck[k].holder /\ lck'[k].old = lck[k].old
                         /\ lck'[k].highest = lck[k].highest \/ lck'[k].highest \in Prios
  <2>1. th[t].prio \in Prios
    BY <1>1 DEF ThreadRecord
  <2>2. UNCHANGED lck \/ lck' = [lck EXCEPT ![l].highest = IF th[t].prio > @ THEN th[t].prio ELSE @]
    BY DEF Donate
  <2> QED BY <1>1, <2>1, <2>2 DEF LockRecord
<1> HIDE DEF l, h
<1>5. TypeOK'
  <2>1. broken' \in {"no", "null holder", "sleep_list"}
    BY DEF Donate, IInv, TypeOK
  <2> QED BY <1>2, <1>3, <1>4, <2>1 DEF IInv, TypeOK, OnePlace
<1>6. OneOwner'
  BY <1>1, <1>2, <1>3, <1>4 DEF IInv, OneOwner, Holds
<1>7. Calls'
  BY <1>1, <1>2, <1>3, <1>4 DEF IInv, Calls
<1>8. Donations'
  <2>1. \A u \in Thread : ToSet(th[u].locks) \subseteq Lock
    BY LocksListed
  <2> QED BY <1>2, <1>3, <1>4, <2>1 DEF IInv, Donations
<1>9. Sleeps' /\ Signals'
  <2>1. t \notin ToSet(condq)
    BY <1>1 DEF IInv, Signals
  <2> QED BY <1>1, <1>2, <1>3, <2>1, NobodyRings
<1>10. Waits' /\ NoLostWakeup'
  <2>1. sem' \in SemaTypes /\ Runnable' = Runnable /\ Waiting' = Waiting
    BY <1>2 DEF IInv, TypeOK, SemaTypes, Runnable, Waiting
  <2> QED BY <1>1, <1>2, <1>3, <2>1, NobodyMoves
<1> QED BY <1>5, <1>6, <1>7, <1>8, <1>9, <1>10 DEF IInv

\* The lock's owner names itself.
LEMMA GotStep ==
  ASSUME IInv, NEW t \in Thread, Got(t)
  PROVE  IInv'
<1> DEFINE l == th[t].lk
<1>1. /\ cur = t /\ th[t].pc = "got" /\ l \in Lock \ ToSet(th[t].locks)
      /\ th \in [Thread -> ThreadRecord] /\ lck \in [Lock -> LockRecord]
      /\ th[t] \in ThreadRecord
  BY DEF IInv, TypeOK, Calls, Got, Running
<1>2. /\ th' \in [Thread -> ThreadRecord]
      /\ \A u \in Thread \ {t} : th'[u] = th[u]
      /\ th'[t].pc = "record" /\ th'[t].lk = l /\ th'[t].locks = th[t].locks
  BY <1>1 DEF Got, At, ThreadRecord, Pcs
<1>3. /\ UNCHANGED <<cur, ready, sem, sleepers, condq, machine, broken>>
      /\ lck' = [lck EXCEPT ![l].holder = t]
  BY DEF Got, SchedulerSame, AlarmSame, Rest
<1>4. /\ lck' \in [Lock -> LockRecord] /\ lck'[l].holder = t
      /\ \A k \in Lock \ {l} : lck'[k] = lck[k]
      /\ \A k \in Lock : lck'[k].highest = lck[k].highest /\ lck'[k].old = lck[k].old
  BY <1>1, <1>3 DEF LockRecord
<1> HIDE DEF l
<1>5. TypeOK'
  BY <1>2, <1>3, <1>4 DEF IInv, TypeOK, OnePlace
<1>6. OneOwner'
  <2>1. \A u \in Thread, k \in Lock : Holds(u, k)' => Holds(u, k)
    BY <1>1, <1>2 DEF Holds, l
  <2>2. Holds(t, l)
    BY <1>1 DEF Holds, l
  <2> SUFFICES ASSUME NEW k \in Lock, NEW u \in Thread, Holds(u, k)'
               PROVE  /\ sem'[k].value = 0
                      /\ \A v \in Thread : Holds(v, k)' => v = u
                      /\ (th'[u].lk = k /\ th'[u].pc \in {"got", "up"}) \/ lck'[k].holder = u
    BY DEF OneOwner
  <2>3. /\ sem[k].value = 0 /\ \A v \in Thread : Holds(v, k) => v = u
        /\ (th[u].lk = k /\ th[u].pc \in {"got", "up"}) \/ lck[k].holder = u
    BY <2>1 DEF IInv, OneOwner
  <2>4. (th'[u].lk = k /\ th'[u].pc \in {"got", "up"}) \/ lck'[k].holder = u
    <3>1. CASE k = l
      BY <1>1, <1>4, <2>2, <2>3, <3>1
    <3>2. CASE k # l
      BY <1>1, <1>2, <1>4, <2>3, <3>2 DEF l
    <3> QED BY <3>1, <3>2
  <2> QED BY <1>3, <2>1, <2>3, <2>4
<1>7. Calls'
  BY <1>1, <1>2, <1>3 DEF IInv, Calls
<1>8. Donations'
  <2>1. \A u \in Thread : ToSet(th[u].locks) \subseteq Lock
    BY LocksListed
  <2> QED BY <1>1, <1>2, <1>4, <2>1 DEF IInv, Donations
<1>9. Sleeps' /\ Signals'
  <2>1. t \notin ToSet(condq)
    BY <1>1 DEF IInv, Signals
  <2> QED BY <1>1, <1>2, <1>3, <2>1, NobodyRings
<1>10. Waits' /\ NoLostWakeup'
  <2>1. sem' \in SemaTypes /\ Runnable' = Runnable /\ Waiting' = Waiting
    BY <1>3 DEF IInv, TypeOK, SemaTypes, Runnable, Waiting
  <2> QED BY <1>1, <1>2, <1>3, <2>1, NobodyMoves
<1> QED BY <1>5, <1>6, <1>7, <1>8, <1>9, <1>10 DEF IInv

\* The lock enters its owner's list.
LEMMA RecordStep ==
  ASSUME IInv, NEW t \in Thread, Record(t)
  PROVE  IInv'
<1> DEFINE l == th[t].lk
           q == InsertDesc(th[t].locks, l, [k \in Lock |-> lck[k].highest])
<1>1. /\ cur = t /\ th[t].pc = "record" /\ l \in Lock \ ToSet(th[t].locks)
      /\ th \in [Thread -> ThreadRecord] /\ lck \in [Lock -> LockRecord]
      /\ th[t] \in ThreadRecord /\ th[t].prio \in Prios
  BY DEF IInv, TypeOK, Calls, Record, Running, ThreadRecord
<1>2. /\ UNCHANGED <<cur, ready, sem, sleepers, condq, machine, broken>>
      /\ th' = [th EXCEPT ![t].waiting = None, ![t].locks = q,
                          ![t].pc = "home", ![t].lk = None, ![t].cond = FALSE]
      /\ lck' = [lck EXCEPT ![l] = [@ EXCEPT !.highest = th[t].prio, !.old = th[t].prio]]
  BY DEF Record, SchedulerSame, AlarmSame, Rest
<1>3. q \in Seq(Lock) /\ IsInjective(q) /\ ToSet(q) = ToSet(th[t].locks) \cup {l}
  <2> DEFINE A == ToSet(th[t].locks) \cup {l}
  <2>1. Lists(th[t].locks, ToSet(th[t].locks)) /\ A \in SUBSET Lock
    BY <1>1, LocksListed
  <2>2. Lists(q, A)
    BY <1>1, <2>1, InsertDescLists
  <2> HIDE DEF A, q
  <2>3. q \in Seq(Lock) /\ IsInjective(q) /\ ToSet(q) = A
    BY <2>1, <2>2, ListsSeq
  <2> QED BY <2>3 DEF A
<1> HIDE DEF q
<1>4. /\ th' \in [Thread -> ThreadRecord]
      /\ \A u \in Thread \ {t} : th'[u] = th[u]
      /\ th'[t].pc = "home" /\ th'[t].locks = q
  BY <1>1, <1>2, <1>3 DEF ThreadRecord, Pcs
<1>5. /\ lck' \in [Lock -> LockRecord]
      /\ \A k \in Lock : lck'[k].holder = lck[k].holder
      /\ \A k \in Lock \ {l} : lck'[k] = lck[k]
      /\ lck'[l].highest \in Prios /\ lck'[l].old \in Prios
  BY <1>1, <1>2 DEF LockRecord
<1> HIDE DEF l
<1>6. TypeOK'
  BY <1>2, <1>4, <1>5 DEF IInv, TypeOK, OnePlace
<1>7. OneOwner'
  <2>1. \A u \in Thread, k \in Lock : Holds(u, k)' <=> Holds(u, k)
    BY <1>1, <1>3, <1>4 DEF Holds, l
  <2>2. Holds(t, l)
    BY <1>1 DEF Holds, l
  <2> SUFFICES ASSUME NEW k \in Lock, NEW u \in Thread, Holds(u, k)'
               PROVE  /\ sem'[k].value = 0
                      /\ \A v \in Thread : Holds(v, k)' => v = u
                      /\ (th'[u].lk = k /\ th'[u].pc \in {"got", "up"}) \/ lck'[k].holder = u
    BY DEF OneOwner
  <2>3. /\ sem[k].value = 0 /\ \A v \in Thread : Holds(v, k) => v = u
        /\ (th[u].lk = k /\ th[u].pc \in {"got", "up"}) \/ lck[k].holder = u
    BY <2>1 DEF IInv, OneOwner
  <2> QED BY <1>1, <1>2, <1>4, <1>5, <2>1, <2>3
<1>8. Calls'
  BY <1>1, <1>3, <1>4 DEF IInv, Calls
<1>9. Donations'
  <2>1. \A u \in Thread : ToSet(th[u].locks) \subseteq Lock
    BY LocksListed
  <2> QED BY <1>1, <1>3, <1>4, <1>5, <2>1 DEF IInv, Donations
<1>10. Sleeps' /\ Signals'
  <2>1. t \notin ToSet(condq)
    BY <1>1 DEF IInv, Signals
  <2> QED BY <1>1, <1>2, <1>4, <2>1, NobodyRings
<1>11. Waits' /\ NoLostWakeup'
  <2>1. sem' \in SemaTypes /\ Runnable' = Runnable /\ Waiting' = Waiting
    BY <1>2 DEF IInv, TypeOK, SemaTypes, Runnable, Waiting
  <2> QED BY <1>1, <1>2, <1>4, <2>1, NobodyMoves
<1> QED BY <1>6, <1>7, <1>8, <1>9, <1>10, <1>11 DEF IInv

\* lock_release begins.
LEMMA ReleaseStep ==
  ASSUME IInv, NEW t \in Thread, NEW l \in Lock, Release(t, l)
  PROVE  IInv'
<1>1. /\ cur = t /\ th[t].pc = "home" /\ l \in ToSet(th[t].locks)
      /\ th \in [Thread -> ThreadRecord] /\ th[t] \in ThreadRecord
  BY LocksListed DEF IInv, TypeOK, Release, Call, Running
<1>2. UNCHANGED <<cur, ready, sem, lck, sleepers, condq, machine, broken>>
  BY DEF Release, SchedulerSame, AlarmSame, Rest
<1>3. /\ th' \in [Thread -> ThreadRecord]
      /\ \A u \in Thread \ {t} : th'[u] = th[u]
      /\ th'[t].pc = "restore" /\ th'[t].lk = l /\ th'[t].locks = th[t].locks
  <2>1. th' = [th EXCEPT ![t].pc = "restore", ![t].lk = l]
    BY DEF Release
  <2>2. [th[t] EXCEPT !.pc = "restore", !.lk = l] \in ThreadRecord
    BY <1>1 DEF ThreadRecord, Pcs
  <2>3. th'[t] = [th[t] EXCEPT !.pc = "restore", !.lk = l]
    BY <1>1, <2>1
  <2>4. th' \in [Thread -> ThreadRecord] /\ \A u \in Thread \ {t} : th'[u] = th[u]
    BY <1>1, <2>1, <2>2
  <2> QED BY <1>1, <2>3, <2>4 DEF ThreadRecord
<1>4. TypeOK'
  BY <1>2, <1>3 DEF IInv, TypeOK, OnePlace
<1>5. OneOwner'
  BY <1>1, <1>2, <1>3 DEF IInv, OneOwner, Holds
<1>6. Calls'
  BY <1>1, <1>3 DEF IInv, Calls
<1>7. Donations'
  BY <1>2, <1>3 DEF IInv, Donations
<1>8. Sleeps' /\ Signals'
  <2>1. t \notin ToSet(condq)
    BY <1>1 DEF IInv, Signals
  <2> QED BY <1>1, <1>2, <1>3, <2>1, NobodyRings
<1>9. Waits' /\ NoLostWakeup'
  <2>1. sem' \in SemaTypes /\ Runnable' = Runnable /\ Waiting' = Waiting
    BY <1>2 DEF IInv, TypeOK, SemaTypes, Runnable, Waiting
  <2> QED BY <1>1, <1>2, <1>3, <2>1, NobodyMoves
<1> QED BY <1>4, <1>5, <1>6, <1>7, <1>8, <1>9 DEF IInv

\* The lock leaves the list, and the priority comes from what is left.
LEMMA RestoreStep ==
  ASSUME IInv, NEW t \in Thread, Restore(t)
  PROVE  IInv'
<1> DEFINE l == th[t].lk
           left == Without(th[t].locks, l)
           p == Restored(t, left)
<1>1. /\ cur = t /\ th[t].pc = "restore" /\ l \in ToSet(th[t].locks)
      /\ th \in [Thread -> ThreadRecord] /\ th[t] \in ThreadRecord
      /\ ToSet(th[t].locks) \subseteq Lock
  BY LocksListed DEF IInv, TypeOK, Calls, Restore, Running
<1>2. /\ UNCHANGED <<cur, ready, sem, lck, sleepers, condq, machine, broken>>
      /\ th' = [th EXCEPT ![t].prio = p, ![t].locks = left, ![t].pc = "clear"]
  BY DEF Restore, SchedulerSame, AlarmSame, Rest
<1>3. Lists(left, ToSet(th[t].locks) \ {l})
  BY <1>1, LocksListed, WithoutLists
<1>4. left \in Seq(Lock) /\ IsInjective(left) /\ ToSet(left) = ToSet(th[t].locks) \ {l}
  <2> DEFINE A == ToSet(th[t].locks) \ {l}
  <2>1. A \in SUBSET Lock
    BY <1>1
  <2> HIDE DEF left
  <2>2. Lists(left, A)
    BY <1>3
  <2> HIDE DEF A
  <2>3. left \in Seq(Lock) /\ IsInjective(left) /\ ToSet(left) = A
    BY <2>1, <2>2, ListsSeq
  <2> QED BY <2>3 DEF A
<1>5. p \in Prios
  <2>1. \A k \in ToSet(th[t].locks) : lck[k].highest \in Prios /\ lck[k].old \in Prios
    BY DEF IInv, Donations
  <2>2. left # <<>> => Head(left) \in ToSet(th[t].locks)
    <3> HIDE DEF left
    <3> QED BY <1>3, HeadTailLists
  <2> HIDE DEF left
  <2> QED BY <1>1, <2>1, <2>2 DEF Restored
<1> HIDE DEF left, p
<1>6. /\ th' \in [Thread -> ThreadRecord]
      /\ \A u \in Thread \ {t} : th'[u] = th[u]
      /\ th'[t].pc = "clear" /\ th'[t].lk = l /\ th'[t].locks = left
      /\ th'[t].cond = th[t].cond
  BY <1>1, <1>2, <1>4, <1>5 DEF ThreadRecord, Pcs
<1>7. TypeOK'
  BY <1>2, <1>6 DEF IInv, TypeOK, OnePlace
<1>8. OneOwner'
  <2>1. \A u \in Thread, k \in Lock : Holds(u, k)' => Holds(u, k)
    BY <1>1, <1>4, <1>6 DEF Holds
  <2> SUFFICES ASSUME NEW k \in Lock, NEW u \in Thread, Holds(u, k)'
               PROVE  /\ sem'[k].value = 0
                      /\ \A v \in Thread : Holds(v, k)' => v = u
                      /\ (th'[u].lk = k /\ th'[u].pc \in {"got", "up"}) \/ lck'[k].holder = u
    BY DEF OneOwner
  <2>2. /\ sem[k].value = 0 /\ \A v \in Thread : Holds(v, k) => v = u
        /\ (th[u].lk = k /\ th[u].pc \in {"got", "up"}) \/ lck[k].holder = u
    BY <2>1 DEF IInv, OneOwner
  <2> QED BY <1>1, <1>2, <1>6, <2>1, <2>2
<1>9. Calls'
  BY <1>1, <1>4, <1>6 DEF IInv, Calls
<1>10. Donations'
  BY <1>2, <1>4, <1>6 DEF IInv, Donations
<1>11. Sleeps' /\ Signals'
  <2>1. t \in ToSet(condq) => th[t].cond
    BY DEF IInv, Signals
  <2> QED BY <1>1, <1>2, <1>6, <2>1, NobodyRings
<1>12. Waits' /\ NoLostWakeup'
  <2>1. sem' \in SemaTypes /\ Runnable' = Runnable /\ Waiting' = Waiting
    BY <1>2 DEF IInv, TypeOK, SemaTypes, Runnable, Waiting
  <2> QED BY <1>1, <1>2, <1>6, <2>1, NobodyMoves
<1> QED BY <1>7, <1>8, <1>9, <1>10, <1>11, <1>12 DEF IInv

\* The lock names nobody any more: its owner has yet to put it up.
LEMMA ClearStep ==
  ASSUME IInv, NEW t \in Thread, Clear(t)
  PROVE  IInv'
<1> DEFINE l == th[t].lk
<1>1. /\ cur = t /\ th[t].pc = "clear" /\ l \in Lock \ ToSet(th[t].locks)
      /\ th \in [Thread -> ThreadRecord] /\ lck \in [Lock -> LockRecord]
      /\ th[t] \in ThreadRecord
  BY DEF IInv, TypeOK, Calls, Clear, Running
<1>2. /\ th' \in [Thread -> ThreadRecord]
      /\ \A u \in Thread \ {t} : th'[u] = th[u]
      /\ th'[t].pc = "up" /\ th'[t].lk = l /\ th'[t].locks = th[t].locks
      /\ th'[t].cond = th[t].cond
  BY <1>1 DEF Clear, At, ThreadRecord, Pcs
<1>3. /\ UNCHANGED <<cur, ready, sem, sleepers, condq, machine, broken>>
      /\ lck' = [lck EXCEPT ![l] = [holder |-> None, highest |-> Unset, old |-> Unset]]
  BY DEF Clear, SchedulerSame, AlarmSame, Rest
<1>4. lck' \in [Lock -> LockRecord] /\ \A k \in Lock \ {l} : lck'[k] = lck[k]
  BY <1>1, <1>3 DEF LockRecord
<1> HIDE DEF l
<1>5. TypeOK'
  BY <1>2, <1>3, <1>4 DEF IInv, TypeOK, OnePlace
<1>6. Holds(t, l) /\ \A u \in Thread : Holds(u, l) => u = t
  <2>1. Holds(t, l)
    BY <1>1 DEF Holds, l
  <2> QED BY <1>1, <2>1 DEF IInv, OneOwner
<1>7. OneOwner'
  <2>1. \A u \in Thread, k \in Lock : Holds(u, k)' => Holds(u, k)
    BY <1>1, <1>2 DEF Holds, l
  <2> SUFFICES ASSUME NEW k \in Lock, NEW u \in Thread, Holds(u, k)'
               PROVE  /\ sem'[k].value = 0
                      /\ \A v \in Thread : Holds(v, k)' => v = u
                      /\ (th'[u].lk = k /\ th'[u].pc \in {"got", "up"}) \/ lck'[k].holder = u
    BY DEF OneOwner
  <2>2. /\ sem[k].value = 0 /\ \A v \in Thread : Holds(v, k) => v = u
        /\ (th[u].lk = k /\ th[u].pc \in {"got", "up"}) \/ lck[k].holder = u
    BY <2>1 DEF IInv, OneOwner
  <2>3. (th'[u].lk = k /\ th'[u].pc \in {"got", "up"}) \/ lck'[k].holder = u
    <3>1. CASE k = l
      <4>1. u = t
        BY <1>6, <2>1, <3>1
      <4> QED BY <1>2, <3>1, <4>1
    <3>2. CASE k # l
      BY <1>1, <1>2, <1>4, <2>2, <3>2 DEF l
    <3> QED BY <3>1, <3>2
  <2> QED BY <1>3, <2>1, <2>2, <2>3
<1>8. Calls'
  BY <1>1, <1>2 DEF IInv, Calls
<1>9. Donations'
  <2>1. \A u \in Thread : ToSet(th[u].locks) \subseteq Lock
    BY LocksListed
  <2>2. \A u \in Thread : l \notin ToSet(th[u].locks)
    BY <1>1, <1>6 DEF Holds
  <2> QED BY <1>1, <1>2, <1>4, <2>1, <2>2 DEF IInv, Donations
<1>10. Sleeps' /\ Signals'
  <2>1. t \in ToSet(condq) => th[t].cond
    BY DEF IInv, Signals
  <2> QED BY <1>1, <1>2, <1>3, <2>1, NobodyRings
<1>11. Waits' /\ NoLostWakeup'
  <2>1. sem' \in SemaTypes /\ Runnable' = Runnable /\ Waiting' = Waiting
    BY <1>3 DEF IInv, TypeOK, SemaTypes, Runnable, Waiting
  <2> QED BY <1>1, <1>2, <1>3, <2>1, NobodyMoves
<1> QED BY <1>5, <1>7, <1>8, <1>9, <1>10, <1>11 DEF IInv

\* thread_set_priority.
LEMMA SetPriorityStep ==
  ASSUME IInv, NEW t \in Thread, NEW p \in Prios, SetPriority(t, p)
  PROVE  IInv'
<1>1. /\ cur = t /\ th[t].pc = "home"
      /\ th \in [Thread -> ThreadRecord] /\ lck \in [Lock -> LockRecord]
      /\ th[t] \in ThreadRecord /\ th[t].prio \in Prios
  BY DEF IInv, TypeOK, SetPriority, Call, Running, ThreadRecord
<1>2. UNCHANGED <<cur, ready, sem, sleepers, condq, machine, broken>>
  BY DEF SetPriority, SchedulerSame, AlarmSame, Rest
<1>3. /\ th' \in [Thread -> ThreadRecord]
      /\ \A u \in Thread \ {t} : th'[u] = th[u]
      /\ th'[t].pc = "compare" /\ th'[t].lk = th[t].lk /\ th'[t].locks = th[t].locks
  BY <1>1 DEF SetPriority, ThreadRecord, Pcs
<1>4. /\ lck' \in [Lock -> LockRecord]
      /\ \A k \in Lock : /\ lck'[k].holder = lck[k].holder
                         /\ lck'[k].highest = lck[k].highest
                         /\ lck'[k].old = lck[k].old \/ lck'[k].old \in Prios
  BY <1>1 DEF SetPriority, LockRecord
<1>5. TypeOK'
  BY <1>2, <1>3, <1>4 DEF IInv, TypeOK, OnePlace
<1>6. OneOwner'
  BY <1>1, <1>2, <1>3, <1>4 DEF IInv, OneOwner, Holds
<1>7. Calls'
  BY <1>1, <1>3 DEF IInv, Calls
<1>8. Donations'
  <2>1. \A u \in Thread : ToSet(th[u].locks) \subseteq Lock
    BY LocksListed
  <2> QED BY <1>1, <1>3, <1>4, <2>1 DEF IInv, Donations
<1>9. Sleeps' /\ Signals'
  <2>1. t \notin ToSet(condq)
    BY <1>1 DEF IInv, Signals
  <2> QED BY <1>1, <1>2, <1>3, <2>1, NobodyRings
<1>10. Waits' /\ NoLostWakeup'
  <2>1. sem' \in SemaTypes /\ Runnable' = Runnable /\ Waiting' = Waiting
    BY <1>2 DEF IInv, TypeOK, SemaTypes, Runnable, Waiting
  <2> QED BY <1>1, <1>2, <1>3, <2>1, NobodyMoves
<1> QED BY <1>5, <1>6, <1>7, <1>8, <1>9, <1>10 DEF IInv

\* sema_down in lock_acquire, in cond_wait and in thread_sleep.
LEMMA DownKeeps ==
  ASSUME IInv, NEW t \in Thread, cur = t, NEW s \in Sema, NEW next, Down(t, s, next),
         \/ s \in Lock /\ th[t].pc = "down" /\ th[t].lk = s /\ next = "got"
         \/ s = t /\ th[t].pc = "await" /\ next = "check"
         \/ s = t /\ th[t].pc = "nap" /\ next = "home"
  PROVE  IInv'
<1> DEFINE Passes == /\ sem[s].value = 1 /\ Waiting' = Waiting /\ Runnable' = Runnable
                     /\ th' = [th EXCEPT ![t].pc = next, ![t].off = FALSE]
           Blocks == /\ sem[s].value = 0 /\ Waiting' = [Waiting EXCEPT ![s] = @ \cup {t}]
                     /\ Runnable' = Runnable \ {t}
                     /\ th' = [th EXCEPT ![t].off = TRUE]
<1>1. /\ th \in [Thread -> ThreadRecord] /\ th[t] \in ThreadRecord
      /\ t \notin Lock /\ Lock \cap Thread = {} /\ next \in Pcs /\ sem \in SemaTypes /\ OnePlace
  BY PriorityAssumption DEF IInv, TypeOK, Pcs, SemaTypes
<1>2. /\ OnePlace' /\ sem' \in SemaTypes
      /\ sem'[s].value = 0 /\ \A r \in Sema : r # s => sem'[r].value = sem[r].value
      /\ Passes \/ Blocks
  BY <1>1, DownPlaces DEF SemaTypes
<1>3. UNCHANGED <<lck, sleepers, condq, machine, broken>>
  BY DEF Down, AlarmSame, Rest
<1>4. /\ th' \in [Thread -> ThreadRecord]
      /\ \A u \in Thread \ {t} : th'[u] = th[u]
      /\ \A u \in Thread : /\ th'[u].lk = th[u].lk /\ th'[u].locks = th[u].locks
                           /\ th'[u].cond = th[u].cond /\ th'[u].at = th[u].at
      /\ Passes => th'[t].pc = next
      /\ Blocks => th'[t].pc = th[t].pc /\ th'[t].off
  <2>1. Passes => th' = [th EXCEPT ![t].pc = next, ![t].off = FALSE]
    OBVIOUS
  <2>2. Blocks => th' = [th EXCEPT ![t].off = TRUE]
    OBVIOUS
  <2> HIDE DEF Passes, Blocks
  <2>3. CASE th' = [th EXCEPT ![t].pc = next, ![t].off = FALSE] /\ ~Blocks
    BY <1>1, <2>3 DEF ThreadRecord
  <2>4. CASE th' = [th EXCEPT ![t].off = TRUE] /\ ~Passes
    BY <1>1, <2>4 DEF ThreadRecord
  <2>5. ~(Passes /\ Blocks)
    BY DEF Passes, Blocks
  <2> QED BY <1>2, <2>1, <2>2, <2>3, <2>4, <2>5
<1>5. /\ t \in Runnable /\ \A r \in Sema : t \notin Waiting[r]
      /\ Waiting \in [Sema -> SUBSET Thread] /\ Runnable \subseteq Thread
  <2>1. Partition(cur, ready, sem, Runnable, Waiting)
    BY <1>1, PlacesPartition
  <2> QED BY <2>1, CurRuns DEF Partition
<1>6. /\ \A r \in Sema : \A u : u \in Waiting'[r] => u \in Waiting[r] \/ (u = t /\ r = s /\ Blocks)
      /\ \A r \in Sema : r # s => Waiting'[r] = Waiting[r]
      /\ \A u \in Runnable : u # t => u \in Runnable'
  BY <1>2, <1>5
<1> HIDE DEF Passes, Blocks
<1>7. TypeOK'
  BY <1>2, <1>3, <1>4 DEF IInv, TypeOK, SemaTypes
<1>8. OneOwner'
  <2>1. ASSUME NEW u \in Thread, NEW k \in Lock, Holds(u, k)'
        PROVE  Holds(u, k) \/ (u = t /\ k = s /\ Passes)
    BY <1>1, <1>2, <1>4, <2>1 DEF Holds
  <2>2. s \in Lock /\ Passes => \A u \in Thread : ~Holds(u, s)
    BY DEF IInv, OneOwner, Passes
  <2>3. s \in Lock /\ Passes => th'[t].lk = s /\ th'[t].pc = "got"
    BY <1>1, <1>4
  <2> SUFFICES ASSUME NEW k \in Lock, NEW u \in Thread, Holds(u, k)'
               PROVE  /\ sem'[k].value = 0
                      /\ \A v \in Thread : Holds(v, k)' => v = u
                      /\ (th'[u].lk = k /\ th'[u].pc \in {"got", "up"}) \/ lck'[k].holder = u
    BY DEF OneOwner
  <2>4. CASE Holds(u, k)
    <3>1. /\ sem[k].value = 0 /\ \A v \in Thread : Holds(v, k) => v = u
          /\ (th[u].lk = k /\ th[u].pc \in {"got", "up"}) \/ lck[k].holder = u
      BY <2>4 DEF IInv, OneOwner
    <3>2. th[u].pc \in {"got", "up"} => u # t
      BY <1>1
    <3>3. k \in Sema
      BY DEF Sema
    <3>4. sem'[k].value = 0
      BY <1>2, <3>1, <3>3
    <3>5. \A v \in Thread : Holds(v, k)' => v = u
      BY <2>1, <2>2, <2>4, <3>1
    <3> QED BY <1>3, <1>4, <3>1, <3>2, <3>4, <3>5
  <2>5. CASE ~Holds(u, k)
    BY <1>2, <2>1, <2>2, <2>3, <2>5
  <2> QED BY <2>4, <2>5
<1>9. Calls'
  BY <1>1, <1>2, <1>4 DEF IInv, Calls
<1>10. Donations'
  BY <1>3, <1>4 DEF IInv, Donations
<1>11. Sleeps' /\ Signals'
  <2>1. ToSet(sleepers) \subseteq Thread /\ ToSet(condq) \subseteq Thread
    BY SeqLists DEF IInv, TypeOK
  <2>2. Passes => \/ t \notin ToSet(sleepers) /\ t \notin ToSet(condq)
    BY <1>1 DEF Passes, IInv, Sleeps, Signals
  <2>3. Thread \subseteq Sema
    BY DEF Sema
  <2>4. th'[t].pc # "link"
    BY <1>2, <1>4
  <2>5. Sleeps'
    BY <1>2, <1>3, <1>4, <2>1, <2>2, <2>3, <2>4 DEF IInv, Sleeps
  <2>6. Signals'
    BY <1>2, <1>3, <1>4, <2>1, <2>2, <2>3 DEF IInv, Signals
  <2> QED BY <2>5, <2>6
<1>12. Waits'
  <2> SUFFICES ASSUME NEW r \in Sema, NEW u, u \in Waiting'[r]
               PROVE  /\ th'[u].off
                      /\ r \in Lock => th'[u].pc = "down" /\ th'[u].lk = r
                      /\ r \in Thread => /\ u = r /\ sem'[r].value = 0
                                         /\ th'[u].pc \in {"await", "nap"}
    BY DEF Waits
  <2>1. CASE u \in Waiting[r]
    <3>1. u \in Thread /\ u # t
      BY <1>5, <2>1
    <3>2. /\ th[u].off /\ (r \in Lock => th[u].pc = "down" /\ th[u].lk = r)
          /\ r \in Thread => u = r /\ sem[r].value = 0 /\ th[u].pc \in {"await", "nap"}
      BY <2>1 DEF IInv, Waits
    <3> QED BY <1>2, <1>4, <3>1, <3>2
  <2>2. CASE u = t /\ r = s /\ Blocks
    BY <1>1, <1>2, <1>4, <2>2
  <2> QED BY <1>6, <2>1, <2>2
<1>13. SomebodyComes'
  <2> SUFFICES ASSUME NEW r \in Sema, sem'[r].value > 0, Waiting'[r] # {}
               PROVE  \E u \in Runnable' : th'[u].off /\ th'[u].pc = "down" /\ th'[u].lk = r
    BY DEF SomebodyComes
  <2>1. r # s
    BY <1>2
  <2>2. sem[r].value > 0 /\ Waiting[r] # {}
    BY <1>2, <1>6, <2>1
  <2>3. PICK u \in Runnable : th[u].off /\ th[u].pc = "down" /\ th[u].lk = r
    BY <1>1, <2>2, Wakeups DEF IInv, SomebodyComes
  <2>4. u # t /\ u \in Thread
    BY <1>5, <2>1, <2>3
  <2> QED BY <1>4, <1>6, <2>3, <2>4
<1> QED BY <1>2, <1>7, <1>8, <1>9, <1>10, <1>11, <1>12, <1>13, Wakeups DEF IInv

\* lock_release wakes a waiter, who is on its way to the lock from then on.
LEMMA UpStep ==
  ASSUME IInv, NEW t \in Thread, Up(t)
  PROVE  IInv'
<1> DEFINE l == th[t].lk
<1>1. /\ cur = t /\ th[t].pc = "up" /\ l \in Lock \ ToSet(th[t].locks)
      /\ th \in [Thread -> ThreadRecord] /\ th[t] \in ThreadRecord
      /\ sem \in SemaTypes /\ OnePlace /\ l \in Sema
  BY DEF IInv, TypeOK, Calls, Up, Running, SemaTypes, Sema
<1>2. Holds(t, l) /\ sem[l].value = 0 /\ \A u \in Thread : Holds(u, l) => u = t
  <2>1. Holds(t, l)
    BY <1>1 DEF Holds
  <2> QED BY <1>1, <2>1 DEF IInv, OneOwner
<1>3. /\ UNCHANGED <<lck, sleepers, condq, machine, broken>> /\ SemaUp(l)
  BY DEF Up, AlarmSame, Rest
<1>4. /\ th' \in [Thread -> ThreadRecord]
      /\ \A u \in Thread \ {t} : th'[u] = th[u]
      /\ th'[t].pc \in {"home", "await"} /\ th'[t].locks = th[t].locks
      /\ th'[t].cond = th[t].cond
      /\ th[t].cond => th'[t].pc = "await"
      /\ th'[t].pc = "await" => th'[t].lk = l
  <2>1. CASE th[t].cond
    <3>1. th' = [th EXCEPT ![t].pc = "await"]
      BY <2>1 DEF Up, At
    <3> QED BY <1>1, <2>1, <3>1 DEF ThreadRecord, Pcs
  <2>2. CASE ~th[t].cond
    <3>1. th' = [th EXCEPT ![t].pc = "home", ![t].lk = None]
      BY <2>2 DEF Up
    <3> QED BY <1>1, <2>2, <3>1 DEF ThreadRecord, Pcs
  <2> QED BY <2>1, <2>2
<1>5. /\ OnePlace' /\ sem' \in SemaTypes
      /\ \A r \in Sema : sem'[r].value = IF r = l THEN 1 ELSE sem[r].value
      /\ \/ Waiting[l] = {} /\ Waiting' = Waiting /\ Runnable' = Runnable
         \/ \E u \in Waiting[l] : /\ Waiting' = [Waiting EXCEPT ![l] = @ \ {u}]
                                  /\ Runnable' = Runnable \cup {u}
  BY <1>1, <1>2, <1>3, SemaUpPlaces DEF SemaTypes
<1> HIDE DEF l
<1>6. /\ t \in Runnable /\ \A r \in Sema : t \notin Waiting[r]
      /\ Waiting \in [Sema -> SUBSET Thread] /\ Runnable \subseteq Thread
  <2>1. Partition(cur, ready, sem, Runnable, Waiting)
    BY <1>1, PlacesPartition
  <2> QED BY <1>1, <2>1, CurRuns DEF Partition
<1>7. /\ \A r \in Sema : Waiting'[r] \subseteq Waiting[r]
      /\ Runnable \subseteq Runnable'
      /\ Waiting[l] # {} => \E u \in Waiting[l] : u \in Runnable'
  BY <1>1, <1>5, <1>6
<1>8. TypeOK'
  BY <1>3, <1>4, <1>5 DEF IInv, TypeOK, SemaTypes
<1>9. OneOwner'
  <2>1. \A u \in Thread, k \in Lock : Holds(u, k)' => Holds(u, k) /\ k # l
    BY <1>1, <1>2, <1>4 DEF Holds, l
  <2> SUFFICES ASSUME NEW k \in Lock, NEW u \in Thread, Holds(u, k)'
               PROVE  /\ sem'[k].value = 0
                      /\ \A v \in Thread : Holds(v, k)' => v = u
                      /\ (th'[u].lk = k /\ th'[u].pc \in {"got", "up"}) \/ lck'[k].holder = u
    BY DEF OneOwner
  <2>2. /\ sem[k].value = 0 /\ \A v \in Thread : Holds(v, k) => v = u
        /\ (th[u].lk = k /\ th[u].pc \in {"got", "up"}) \/ lck[k].holder = u
    BY <2>1 DEF IInv, OneOwner
  <2>3. k # l /\ k \in Sema
    BY <2>1 DEF Sema
  <2>4. u = t => lck[k].holder = u
    BY <2>2, <2>3 DEF l
  <2> QED BY <1>3, <1>4, <1>5, <2>1, <2>2, <2>3, <2>4
<1>10. Calls'
  BY <1>1, <1>4 DEF IInv, Calls, l
<1>11. Donations'
  BY <1>1, <1>3, <1>4 DEF IInv, Donations
<1>12. Sleeps' /\ Signals'
  <2>1. \A r \in Thread : sem'[r].value = sem[r].value
    BY <1>1, <1>5, PriorityAssumption DEF Sema
  <2>2. t \in ToSet(condq) => th[t].cond
    BY DEF IInv, Signals
  <2> QED BY <1>1, <1>3, <1>4, <2>1, <2>2, NobodyRings
<1>13. Waits'
  <2> SUFFICES ASSUME NEW r \in Sema, NEW u, u \in Waiting'[r]
               PROVE  /\ th'[u].off
                      /\ r \in Lock => th'[u].pc = "down" /\ th'[u].lk = r
                      /\ r \in Thread => /\ u = r /\ sem'[r].value = 0
                                         /\ th'[u].pc \in {"await", "nap"}
    BY DEF Waits
  <2>1. u \in Waiting[r] /\ u \in Thread /\ u # t
    BY <1>6, <1>7
  <2>2. /\ th[u].off /\ (r \in Lock => th[u].pc = "down" /\ th[u].lk = r)
        /\ r \in Thread => u = r /\ sem[r].value = 0 /\ th[u].pc \in {"await", "nap"}
    BY <2>1 DEF IInv, Waits
  <2>3. r \in Thread => r # l
    BY <1>1, PriorityAssumption
  <2> QED BY <1>4, <1>5, <2>1, <2>2, <2>3
<1>14. SomebodyComes'
  <2> SUFFICES ASSUME NEW r \in Sema, sem'[r].value > 0, Waiting'[r] # {}
               PROVE  \E u \in Runnable' : th'[u].off /\ th'[u].pc = "down" /\ th'[u].lk = r
    BY DEF SomebodyComes
  <2>0. Waiting[r] # {}
    BY <1>7
  <2>1. CASE r = l
    <3>1. PICK u \in Waiting[l] : u \in Runnable'
      BY <1>7, <2>0, <2>1
    <3>2. th[u].off /\ th[u].pc = "down" /\ th[u].lk = l /\ u \in Thread /\ u # t
      BY <1>1, <1>6 DEF IInv, Waits
    <3> QED BY <1>4, <2>1, <3>1, <3>2
  <2>2. CASE r # l
    <3>1. sem[r].value > 0
      BY <1>5, <2>2
    <3>2. PICK u \in Runnable : th[u].off /\ th[u].pc = "down" /\ th[u].lk = r
      BY <1>1, <2>0, <3>1, Wakeups DEF IInv, SomebodyComes
    <3>3. u # t /\ u \in Thread
      BY <1>1, <1>6, <3>2
    <3> QED BY <1>4, <1>7, <3>2, <3>3
  <2> QED BY <2>1, <2>2
<1> QED BY <1>5, <1>8, <1>9, <1>10, <1>11, <1>12, <1>13, <1>14, Wakeups DEF IInv

\* cond_signal, and a turn of cond_broadcast.
LEMMA SignallingKeeps ==
  ASSUME IInv, NEW t \in Thread, cur = t, th[t].pc \in {"home", "broadcast"}, Signalling(t),
         th' \in [Thread -> ThreadRecord], th'[t].pc \in {"home", "broadcast"},
         th'[t].locks = th[t].locks, \A u \in Thread \ {t} : th'[u] = th[u]
  PROVE  IInv'
<1>1. sem \in SemaTypes /\ OnePlace /\ condq \in Seq(Thread) /\ Lists(condq, ToSet(condq))
      /\ ToSet(condq) \subseteq Thread /\ ToSet(sleepers) \subseteq Thread
  BY SeqLists DEF IInv, TypeOK, SemaTypes
<1>2. UNCHANGED <<lck, sleepers, machine, broken>>
  BY DEF Signalling, AlarmSame, Rest
<1>3. t \notin ToSet(condq) /\ t \notin ToSet(sleepers)
  BY DEF IInv, Signals, Sleeps
<1>4. Calls'
  BY DEF IInv, Calls
<1>5. Donations'
  BY <1>2 DEF IInv, Donations
<1>6. /\ t \in Runnable /\ \A r \in Sema : t \notin Waiting[r]
      /\ Waiting \in [Sema -> SUBSET Thread] /\ Runnable \subseteq Thread
  <2>1. Partition(cur, ready, sem, Runnable, Waiting)
    BY <1>1, PlacesPartition
  <2> QED BY <1>1, <2>1, CurRuns DEF Partition
<1>7. CASE condq = <<>>
  <2>1. UNCHANGED <<cur, ready, sem, condq>>
    BY <1>7 DEF Signalling
  <2>2. TypeOK'
    BY <1>2, <2>1 DEF IInv, TypeOK, OnePlace
  <2>3. OneOwner'
    BY <1>2, <2>1 DEF IInv, OneOwner, Holds
  <2>4. Sleeps' /\ Signals'
    BY <1>2, <1>3, <2>1, NobodyRings
  <2>5. Waits' /\ NoLostWakeup'
    <3>1. sem' \in SemaTypes /\ Runnable' = Runnable /\ Waiting' = Waiting
      BY <1>1, <2>1 DEF Runnable, Waiting
    <3> QED BY <2>1, <3>1, NobodyMoves
  <2> QED BY <1>4, <1>5, <2>2, <2>3, <2>4, <2>5 DEF IInv
<1>8. CASE condq # <<>>
  <2> DEFINE s == Head(condq)
  <2>1. s \in ToSet(condq) /\ Lists(Tail(condq), ToSet(condq) \ {s})
    BY <1>1, <1>8, HeadTailLists
  <2>2. condq' = Tail(condq) /\ SemaUp(s)
    BY <1>8 DEF Signalling
  <2>3. /\ s \in Thread /\ s \in Sema /\ s \notin Lock /\ s # t /\ sem[s].value = 0
        /\ th[s].pc \in {"restore", "clear", "up", "await"}
    BY <1>1, <1>3, <2>1, PriorityAssumption DEF IInv, Signals, Sema
  <2> HIDE DEF s
  <2>4. /\ OnePlace' /\ sem' \in SemaTypes
        /\ \A r \in Sema : sem'[r].value = IF r = s THEN 1 ELSE sem[r].value
        /\ \/ Waiting[s] = {} /\ Waiting' = Waiting /\ Runnable' = Runnable
           \/ \E u \in Waiting[s] : /\ Waiting' = [Waiting EXCEPT ![s] = @ \ {u}]
                                    /\ Runnable' = Runnable \cup {u}
    BY <1>1, <2>2, <2>3, SemaUpPlaces DEF SemaTypes
  <2>5. \A u \in Waiting[s] : u = s
    BY <2>3 DEF IInv, Waits
  <2>6. /\ \A r \in Sema : r # s => Waiting'[r] = Waiting[r]
        /\ Waiting'[s] = {} /\ Runnable \subseteq Runnable'
    BY <1>6, <2>3, <2>4, <2>5
  <2>7. ToSet(condq') = ToSet(condq) \ {s} /\ condq' \in Seq(Thread) /\ IsInjective(condq')
    <3> DEFINE A == ToSet(condq) \ {s}
    <3>1. A \in SUBSET Thread
      BY <1>1
    <3>2. Lists(condq', A)
      BY <2>1, <2>2
    <3> HIDE DEF A
    <3>3. condq' \in Seq(Thread) /\ IsInjective(condq') /\ ToSet(condq') = A
      BY <3>1, <3>2, ListsSeq
    <3> QED BY <3>3 DEF A
  <2>8. TypeOK'
    BY <1>2, <2>4, <2>7 DEF IInv, TypeOK, SemaTypes
  <2>9. OneOwner'
    <3>1. \A k \in Lock : sem'[k].value = sem[k].value
      BY <2>3, <2>4 DEF Sema
    <3> QED BY <1>2, <3>1 DEF IInv, OneOwner, Holds
  <2>10. Sleeps'
    <3>1. \A u \in Thread : u # s => sem'[u].value = sem[u].value
      BY <2>4 DEF Sema
    <3> QED BY <1>1, <1>2, <1>3, <2>3, <3>1 DEF IInv, Sleeps
  <2>11. Signals'
    <3>1. \A u \in Thread : u # s => sem'[u].value = sem[u].value
      BY <2>4 DEF Sema
    <3> QED BY <1>1, <1>3, <2>7, <3>1 DEF IInv, Signals
  <2>12. Waits'
    <3> SUFFICES ASSUME NEW r \in Sema, NEW u, u \in Waiting'[r]
                 PROVE  /\ th'[u].off
                        /\ r \in Lock => th'[u].pc = "down" /\ th'[u].lk = r
                        /\ r \in Thread => /\ u = r /\ sem'[r].value = 0
                                           /\ th'[u].pc \in {"await", "nap"}
      BY DEF Waits
    <3>1. r # s /\ u \in Waiting[r] /\ u \in Thread /\ u # t
      BY <1>6, <2>6
    <3>2. /\ th[u].off /\ (r \in Lock => th[u].pc = "down" /\ th[u].lk = r)
          /\ r \in Thread => u = r /\ sem[r].value = 0 /\ th[u].pc \in {"await", "nap"}
      BY <3>1 DEF IInv, Waits
    <3> QED BY <2>4, <3>1, <3>2
  <2>13. SomebodyComes'
    <3> SUFFICES ASSUME NEW r \in Sema, sem'[r].value > 0, Waiting'[r] # {}
                 PROVE  \E u \in Runnable' : th'[u].off /\ th'[u].pc = "down" /\ th'[u].lk = r
      BY DEF SomebodyComes
    <3>1. sem[r].value > 0 /\ Waiting[r] # {}
      BY <2>4, <2>6
    <3>2. PICK u \in Runnable : th[u].off /\ th[u].pc = "down" /\ th[u].lk = r
      BY <1>1, <3>1, Wakeups DEF IInv, SomebodyComes
    <3>3. u # t /\ u \in Thread
      BY <1>6, <3>2
    <3> QED BY <2>6, <3>2, <3>3
  <2> QED BY <1>4, <1>5, <2>4, <2>8, <2>9, <2>10, <2>11, <2>12, <2>13, Wakeups DEF IInv
<1> QED BY <1>7, <1>8

\* The three calls of sema_down.
LEMMA DownSteps ==
  ASSUME IInv, NEW t \in Thread, AcquireDown(t) \/ CondDown(t) \/ Nap(t)
  PROVE  IInv'
<1>1. CASE AcquireDown(t)
  <2>1. /\ cur = t /\ th[t].pc = "down" /\ th[t].lk \in Lock /\ th[t].lk \in Sema
        /\ Down(t, th[t].lk, "got")
    BY <1>1 DEF AcquireDown, Running, IInv, Calls, Sema
  <2> QED BY <2>1, DownKeeps
<1>2. CASE CondDown(t)
  <2>1. cur = t /\ th[t].pc = "await" /\ t \in Sema /\ Down(t, t, "check")
    BY <1>2 DEF CondDown, Running, Sema
  <2> QED BY <2>1, DownKeeps
<1>3. CASE Nap(t)
  <2>1. cur = t /\ th[t].pc = "nap" /\ t \in Sema /\ Down(t, t, "home")
    BY <1>3 DEF Nap, Running, Sema
  <2> QED BY <2>1, DownKeeps
<1> QED BY <1>1, <1>2, <1>3

\* cond_signal and cond_broadcast.
LEMMA SignalSteps ==
  ASSUME IInv, NEW t \in Thread, CondSignal(t) \/ CondBroadcast(t) \/ BroadcastMore(t)
  PROVE  IInv'
<1>1. th \in [Thread -> ThreadRecord] /\ th[t] \in ThreadRecord
  BY DEF IInv, TypeOK
<1>2. cur = t /\ th[t].pc \in {"home", "broadcast"} /\ Signalling(t)
  BY DEF CondSignal, CondBroadcast, BroadcastMore, Call, Running
<1>3. \/ UNCHANGED th
      \/ th' = [th EXCEPT ![t].pc = "home"] \/ th' = [th EXCEPT ![t].pc = "broadcast"]
  BY DEF CondSignal, CondBroadcast, BroadcastMore, At
<1>4. /\ th' \in [Thread -> ThreadRecord] /\ th'[t].pc \in {"home", "broadcast"}
      /\ th'[t].locks = th[t].locks /\ \A u \in Thread \ {t} : th'[u] = th[u]
  BY <1>1, <1>2, <1>3 DEF ThreadRecord, Pcs
<1> QED BY <1>2, <1>4, SignallingKeeps

\* A thread makes its own semaphore anew while nobody waits in it.
LEMMA OwnSema ==
  ASSUME IInv, NEW t \in Thread, cur = t, UNCHANGED <<cur, ready>>,
         sem' = [sem EXCEPT ![t] = [value |-> 0, waiters |-> <<>>]]
  PROVE  /\ OnePlace' /\ sem' \in SemaTypes /\ Waiting' = Waiting /\ Runnable' = Runnable
         /\ \A s \in Sema : sem'[s].value = IF s = t THEN 0 ELSE sem[s].value
<1>1. sem \in SemaTypes /\ t \in Sema
  BY DEF IInv, TypeOK, SemaTypes, Sema
<1>2. Partition(cur, ready, sem, Runnable, Waiting)
  BY PlacesPartition DEF IInv, TypeOK
<1>3. Waiting[t] = {}
  <2>1. t \notin Waiting[t]
    BY <1>1, CurRuns
  <2>2. \A u \in Waiting[t] : u = t
    BY <1>1 DEF IInv, Waits
  <2> QED BY <2>1, <2>2
<1>4. sem' \in SemaTypes /\ \A s \in Sema : sem'[s].value = IF s = t THEN 0 ELSE sem[s].value
  BY <1>1 DEF SemaTypes
<1>5. \A s \in Sema : Lists(sem'[s].waiters, Waiting[s])
  <2> TAKE s \in Sema
  <2>1. CASE s = t
    <3>1. sem'[s].waiters = <<>>
      BY <1>1, <2>1 DEF SemaTypes
    <3> QED BY <1>3, <2>1, <3>1, EmptyLists
  <2>2. CASE s # t
    <3>1. sem'[s] = sem[s]
      BY <1>1, <2>2 DEF SemaTypes
    <3> QED BY <1>2, <3>1 DEF Partition
  <2> QED BY <2>1, <2>2
<1> DEFINE R == Runnable
           W == Waiting
<1>6. Partition(cur', ready', sem', R, W)
  BY <1>2, <1>5 DEF Partition
<1> HIDE DEF R, W
<1>7. OnePlace' /\ Runnable' = R /\ Waiting' = W
  BY <1>6, PartitionPlaces
<1> QED BY <1>4, <1>7 DEF R, W

\* cond_wait goes among the condition's waiters.
LEMMA CondWaitStep ==
  ASSUME IInv, NEW t \in Thread, CondWait(t)
  PROVE  IInv'
<1> DEFINE key == [u \in Thread |-> IF u = t THEN th[t].prio ELSE th[u].cprio]
<1>1. /\ cur = t /\ th[t].pc = "home" /\ CondLock \in ToSet(th[t].locks) /\ CondLock \in Lock
      /\ th \in [Thread -> ThreadRecord] /\ th[t] \in ThreadRecord /\ th[t].prio \in Prios
  BY LocksListed DEF IInv, TypeOK, CondWait, Call, Running, ThreadRecord
<1>2. /\ UNCHANGED <<cur, ready, lck, sleepers, machine, broken>>
      /\ sem' = [sem EXCEPT ![t] = [value |-> 0, waiters |-> <<>>]]
      /\ condq' = InsertDesc(condq, t, key)
  BY DEF CondWait, AlarmSame, Rest
<1> HIDE DEF key
<1>3. /\ th' \in [Thread -> ThreadRecord]
      /\ \A u \in Thread \ {t} : th'[u] = th[u]
      /\ th'[t].pc = "restore" /\ th'[t].lk = CondLock /\ th'[t].locks = th[t].locks
      /\ th'[t].cond = TRUE
  BY <1>1 DEF CondWait, ThreadRecord, Pcs
<1>4. /\ OnePlace' /\ sem' \in SemaTypes /\ Waiting' = Waiting /\ Runnable' = Runnable
      /\ \A s \in Sema : sem'[s].value = IF s = t THEN 0 ELSE sem[s].value
  BY <1>1, <1>2, OwnSema
<1>5. /\ t \notin ToSet(condq) /\ t \notin ToSet(sleepers)
      /\ ToSet(condq) \subseteq Thread /\ ToSet(sleepers) \subseteq Thread
      /\ Lists(condq, ToSet(condq))
  BY <1>1, SeqLists DEF IInv, TypeOK, Signals, Sleeps
<1>6. condq' \in Seq(Thread) /\ IsInjective(condq') /\ ToSet(condq') = ToSet(condq) \cup {t}
  <2> DEFINE A == ToSet(condq) \cup {t}
  <2>1. A \in SUBSET Thread
    BY <1>5
  <2>2. Lists(condq', A)
    BY <1>2, <1>5, InsertDescLists
  <2> HIDE DEF A
  <2>3. condq' \in Seq(Thread) /\ IsInjective(condq') /\ ToSet(condq') = A
    BY <2>1, <2>2, ListsSeq
  <2> QED BY <2>3 DEF A
<1>7. \A s \in Lock : sem'[s].value = sem[s].value
  BY <1>4, PriorityAssumption DEF Sema
<1>8. TypeOK'
  BY <1>2, <1>3, <1>4, <1>6 DEF IInv, TypeOK, SemaTypes
<1>9. OneOwner'
  BY <1>1, <1>2, <1>3, <1>7 DEF IInv, OneOwner, Holds
<1>10. Calls'
  BY <1>1, <1>3 DEF IInv, Calls
<1>11. Donations'
  BY <1>2, <1>3 DEF IInv, Donations
<1>12. Sleeps' /\ Signals'
  <2>1. Thread \subseteq Sema
    BY DEF Sema
  <2>2. Sleeps'
    BY <1>2, <1>3, <1>4, <1>5, <2>1 DEF IInv, Sleeps
  <2>3. Signals'
    BY <1>3, <1>4, <1>5, <1>6, <2>1 DEF IInv, Signals
  <2> QED BY <2>2, <2>3
<1>13. Waits' /\ NoLostWakeup'
  BY <1>1, <1>3, <1>4, NobodyMoves
<1> QED BY <1>8, <1>9, <1>10, <1>11, <1>12, <1>13 DEF IInv

\* Min of a set of numbers is the least of them.
LEMMA MinOf ==
  ASSUME NEW T \in SUBSET Nat, T # {}
  PROVE  Min(T) \in T /\ \A m \in T : Min(T) <= m
<1>1. PICK n \in T : \A m \in T : ~ (m < n)
  BY NatMin
<1>2. \A m \in T : n =< m
  BY <1>1
<1> QED BY <1>2 DEF Min

\* timer_sleep up to the search.
LEMMA TimerSleepStep ==
  ASSUME IInv, NEW t \in Thread, NEW n \in machine.naps, TimerSleep(t, n)
  PROVE  IInv'
<1> DEFINE later == {i \in DOMAIN sleepers : th[sleepers[i]].wake > n}
           next == IF later = {} THEN EndOfList ELSE sleepers[Min(later)]
<1>1. /\ cur = t /\ th[t].pc = "home"
      /\ th \in [Thread -> ThreadRecord] /\ th[t] \in ThreadRecord /\ n \in Nat
  BY PriorityAssumption DEF IInv, TypeOK, TimerSleep, Call, Running
<1>2. /\ UNCHANGED <<cur, ready, lck, sleepers, condq, machine, broken>>
      /\ sem' = [sem EXCEPT ![t] = [value |-> 0, waiters |-> <<>>]]
      /\ th' = [th EXCEPT ![t].wake = n, ![t].pc = "link", ![t].succ = next]
  BY DEF TimerSleep, AlarmSame, Rest
<1>3. next \in Thread \cup {EndOfList}
  <2>1. DOMAIN sleepers \subseteq Nat /\ \A i \in DOMAIN sleepers : sleepers[i] \in Thread
    <3>1. sleepers \in Seq(Thread)
      BY DEF IInv, TypeOK
    <3> QED BY <3>1, LenProperties
  <2>2. later \in SUBSET Nat
    BY <2>1
  <2>3. CASE later # {}
    <3>1. Min(later) \in later
      <4> HIDE DEF later
      <4> QED BY <2>2, <2>3, MinOf
    <3> QED BY <2>1, <2>3, <3>1
  <2> QED BY <2>3
<1> HIDE DEF next
<1>4. /\ th' \in [Thread -> ThreadRecord]
      /\ \A u \in Thread \ {t} : th'[u] = th[u]
      /\ th'[t].pc = "link" /\ th'[t].lk = th[t].lk /\ th'[t].locks = th[t].locks
  BY <1>1, <1>2, <1>3 DEF ThreadRecord, Pcs
<1>5. /\ OnePlace' /\ sem' \in SemaTypes /\ Waiting' = Waiting /\ Runnable' = Runnable
      /\ \A s \in Sema : sem'[s].value = IF s = t THEN 0 ELSE sem[s].value
  BY <1>1, <1>2, OwnSema
<1>6. /\ t \notin ToSet(condq) /\ t \notin ToSet(sleepers)
      /\ ToSet(condq) \subseteq Thread /\ ToSet(sleepers) \subseteq Thread
  BY <1>1, SeqLists DEF IInv, TypeOK, Signals, Sleeps
<1>7. \A s \in Lock : sem'[s].value = sem[s].value
  BY <1>5, PriorityAssumption DEF Sema
<1>8. TypeOK'
  BY <1>2, <1>4, <1>5 DEF IInv, TypeOK, SemaTypes
<1>9. OneOwner'
  BY <1>1, <1>2, <1>4, <1>7 DEF IInv, OneOwner, Holds
<1>10. Calls'
  BY <1>1, <1>4 DEF IInv, Calls
<1>11. Donations'
  BY <1>2, <1>4 DEF IInv, Donations
<1>12. Sleeps' /\ Signals'
  <2>1. Thread \subseteq Sema
    BY DEF Sema
  <2>2. Sleeps'
    BY <1>2, <1>4, <1>5, <1>6, <2>1 DEF IInv, Sleeps
  <2>3. Signals'
    BY <1>2, <1>4, <1>5, <1>6, <2>1 DEF IInv, Signals
  <2> QED BY <2>2, <2>3
<1>13. Waits' /\ NoLostWakeup'
  BY <1>1, <1>4, <1>5, NobodyMoves
<1> QED BY <1>8, <1>9, <1>10, <1>11, <1>12, <1>13 DEF IInv

\* The sleeper is linked in, wherever the search had stopped.
LEMMA LinkStep ==
  ASSUME IInv, NEW t \in Thread, Link(t)
  PROVE  IInv'
<1>1. /\ cur = t /\ th[t].pc = "link"
      /\ th \in [Thread -> ThreadRecord] /\ th[t] \in ThreadRecord
  BY DEF IInv, TypeOK, Link, Running
<1>2. UNCHANGED <<cur, ready, sem, lck, condq, machine>>
  BY DEF Link, SchedulerSame, Rest
<1>3. /\ th' \in [Thread -> ThreadRecord]
      /\ \A u \in Thread \ {t} : th'[u] = th[u]
      /\ th'[t].pc = "nap" /\ th'[t].lk = th[t].lk /\ th'[t].locks = th[t].locks
  <2>1. th' = [th EXCEPT ![t].pc = "nap", ![t].succ = None]
    BY DEF Link
  <2>2. [th[t] EXCEPT !.pc = "nap", !.succ = None] \in ThreadRecord
    BY <1>1 DEF ThreadRecord, Pcs
  <2>3. th'[t] = [th[t] EXCEPT !.pc = "nap", !.succ = None]
    BY <1>1, <2>1
  <2>4. th' \in [Thread -> ThreadRecord] /\ \A u \in Thread \ {t} : th'[u] = th[u]
    BY <1>1, <2>1, <2>2
  <2> QED BY <1>1, <2>3, <2>4 DEF ThreadRecord
<1>4. /\ t \notin ToSet(condq) /\ t \notin ToSet(sleepers)
      /\ ToSet(condq) \subseteq Thread /\ ToSet(sleepers) \subseteq Thread
      /\ Lists(sleepers, ToSet(sleepers)) /\ sleepers \in Seq(Thread)
  BY <1>1, SeqLists DEF IInv, TypeOK, Signals, Sleeps
<1>5. /\ broken' \in {"no", "null holder", "sleep_list"}
      /\ sleepers' \in Seq(Thread) /\ IsInjective(sleepers')
      /\ ToSet(sleepers') \subseteq ToSet(sleepers) \cup {t}
  <2>1. CASE UNCHANGED sleepers
    BY <1>4, <2>1 DEF Link, IInv, TypeOK
  <2>2. CASE ~UNCHANGED sleepers
    <3> DEFINE i == CHOOSE j \in DOMAIN sleepers : sleepers[j] = th[t].succ
               A == ToSet(sleepers) \cup {t}
    <3>1. /\ UNCHANGED broken /\ sleepers' = Linked(t)
          /\ th[t].succ = EndOfList \/ Contains(sleepers, th[t].succ)
      BY <2>2 DEF Link, AlarmSame
    <3>2. Lists(sleepers', A)
      <4>1. CASE th[t].succ = EndOfList
        <5>1. sleepers' = Append(sleepers, t)
          BY <3>1, <4>1 DEF Linked
        <5> QED BY <1>4, <5>1, AppendLists
      <4>2. CASE th[t].succ # EndOfList
        <5>1. DOMAIN sleepers = 1 .. Len(sleepers) /\ Len(sleepers) \in Nat
          BY <1>4, LenProperties
        <5>2. i \in 1 .. Len(sleepers) + 1
          <6>1. \E j \in DOMAIN sleepers : sleepers[j] = th[t].succ
            BY <3>1, <4>2, <5>1 DEF Contains
          <6>2. i \in DOMAIN sleepers
            BY <6>1
          <6> HIDE DEF i
          <6> QED BY <5>1, <6>2
        <5>3. sleepers' = InsertAt(sleepers, i, t)
          BY <3>1, <4>2 DEF Linked
        <5> HIDE DEF i
        <5> QED BY <1>4, <5>2, <5>3, InsertAtLists
      <4> QED BY <4>1, <4>2
    <3>3. A \in SUBSET Thread
      BY <1>4
    <3> HIDE DEF A
    <3>4. sleepers' \in Seq(Thread) /\ IsInjective(sleepers') /\ ToSet(sleepers') = A
      BY <3>2, <3>3, ListsSeq
    <3> QED BY <3>1, <3>4 DEF A, IInv, TypeOK
  <2> QED BY <2>1, <2>2
<1>6. TypeOK'
  BY <1>2, <1>3, <1>5 DEF IInv, TypeOK, OnePlace
<1>7. OneOwner'
  BY <1>1, <1>2, <1>3 DEF IInv, OneOwner, Holds
<1>8. Calls'
  BY <1>1, <1>3 DEF IInv, Calls
<1>9. Donations'
  BY <1>2, <1>3 DEF IInv, Donations
<1>10. Sleeps'
  <2>1. sem[t].value = 0
    BY <1>1 DEF IInv, Sleeps
  <2> QED BY <1>2, <1>3, <1>4, <1>5, <2>1 DEF IInv, Sleeps
<1>11. Signals'
  BY <1>2, <1>3, <1>4 DEF IInv, Signals
<1>12. Waits' /\ NoLostWakeup'
  <2>1. sem' \in SemaTypes /\ Runnable' = Runnable /\ Waiting' = Waiting
    BY <1>2 DEF IInv, TypeOK, SemaTypes, Runnable, Waiting
  <2> QED BY <1>1, <1>2, <1>3, <2>1, NobodyMoves
<1> QED BY <1>6, <1>7, <1>8, <1>9, <1>10, <1>11, <1>12 DEF IInv

\* thread_set_priority may yield.
LEMMA CompareStep ==
  ASSUME IInv, NEW t \in Thread, Compare(t)
  PROVE  IInv'
<1>1. /\ cur = t /\ th[t].pc = "compare"
      /\ th \in [Thread -> ThreadRecord] /\ th[t] \in ThreadRecord
  BY DEF IInv, TypeOK, Compare, Running
<1>2. UNCHANGED <<sem, lck, sleepers, condq, machine, broken>>
  BY DEF Compare, AlarmSame, Rest
<1>3. /\ th' \in [Thread -> ThreadRecord]
      /\ \A u \in Thread \ {t} : th'[u] = th[u]
      /\ th'[t].pc = "home" /\ th'[t].lk = th[t].lk /\ th'[t].locks = th[t].locks
  BY <1>1 DEF Compare, At, ThreadRecord, Pcs
<1>4. OnePlace' /\ Runnable' = Runnable /\ Waiting' = Waiting
  <2> DEFINE R == Runnable
             W == Waiting
  <2>1. Partition(cur, ready, sem, R, W)
    BY PlacesPartition DEF IInv, TypeOK
  <2> HIDE DEF R, W
  <2>2. Idle \notin R /\ Sched(cur, ready, R)
    BY <2>1, PriorityAssumption DEF Partition
  <2>3. YieldWith(ready, PriorityOf) \/ UNCHANGED <<cur, ready>>
    BY DEF Compare
  <2>4. Sched(cur', ready', R)
    BY <2>2, <2>3, YieldSched
  <2>5. Partition(cur', ready', sem', R, W)
    BY <1>2, <2>1, <2>4 DEF Partition
  <2>6. OnePlace' /\ Runnable' = R /\ Waiting' = W
    BY <2>5, PartitionPlaces
  <2> QED BY <2>6 DEF R, W
<1>5. TypeOK'
  BY <1>2, <1>3, <1>4 DEF IInv, TypeOK
<1>6. OneOwner'
  BY <1>1, <1>2, <1>3 DEF IInv, OneOwner, Holds
<1>7. Calls'
  BY <1>1, <1>3 DEF IInv, Calls
<1>8. Donations'
  BY <1>2, <1>3 DEF IInv, Donations
<1>9. Sleeps' /\ Signals'
  <2>1. t \notin ToSet(condq)
    BY <1>1 DEF IInv, Signals
  <2> QED BY <1>1, <1>2, <1>3, <2>1, NobodyRings
<1>10. Waits' /\ NoLostWakeup'
  <2>1. sem' \in SemaTypes
    BY <1>2 DEF IInv, TypeOK, SemaTypes
  <2> QED BY <1>1, <1>2, <1>3, <1>4, <2>1, NobodyMoves
<1> QED BY <1>5, <1>6, <1>7, <1>8, <1>9, <1>10 DEF IInv

\* The idle thread gives way.
LEMMA IdleBlocksStep ==
  ASSUME IInv, IdleBlocks
  PROVE  IInv'
<1>1. cur = Idle /\ RunNext(ready) /\ UNCHANGED <<machine, th, lck, sem, sleepers, condq, broken>>
  BY DEF IdleBlocks, AlarmSame, Rest
<1>2. OnePlace' /\ Runnable' = Runnable /\ Waiting' = Waiting
  <2> DEFINE R == Runnable
             W == Waiting
  <2>1. Partition(cur, ready, sem, R, W)
    BY PlacesPartition DEF IInv, TypeOK
  <2> HIDE DEF R, W
  <2>2. Idle \notin R /\ R \ {cur} = R
    BY <1>1, <2>1, PriorityAssumption DEF Partition
  <2>3. Lists(ready, R)
    BY <2>1, <2>2 DEF Partition, Sched
  <2>4. Sched(cur', ready', R)
    BY <1>1, <2>2, <2>3, RunNextSched
  <2>5. Partition(cur', ready', sem', R, W)
    BY <1>1, <2>1, <2>4 DEF Partition
  <2>6. OnePlace' /\ Runnable' = R /\ Waiting' = W
    BY <2>5, PartitionPlaces
  <2> QED BY <2>6 DEF R, W
<1>3. TypeOK'
  BY <1>1, <1>2 DEF IInv, TypeOK
<1>4. OneOwner' /\ Calls' /\ Donations'
  BY <1>1 DEF IInv, OneOwner, Holds, Calls, Donations
<1>5. Sleeps' /\ Signals'
  BY <1>1 DEF IInv, Sleeps, Signals
<1>6. Waits'
  BY <1>1, <1>2 DEF IInv, Waits
<1>7. sem \in SemaTypes /\ sem' \in SemaTypes
  BY <1>1 DEF IInv, TypeOK, SemaTypes
<1>8. SomebodyComes
  BY <1>7, Wakeups DEF IInv
<1>9. SomebodyComes'
  BY <1>1, <1>2, <1>8 DEF SomebodyComes
<1> QED BY <1>3, <1>4, <1>5, <1>6, <1>7, <1>9, Wakeups DEF IInv

\* The timer interrupt rings for sleepers that wait in their semaphores and for
\* some that are not there yet.
LEMMA TickStep ==
  ASSUME IInv, NEW over \in BOOLEAN, Tick(over)
  PROVE  IInv'
<1> DEFINE n == Cardinality(Due(Aged))
           rung == SubSeq(sleepers, 1, n)
           G == ToSet(rung)
           woken == {u \in G : sem[u].waiters # <<>>}
           q == InsertAll(ready, rung, woken, PriorityOf)
           R == Runnable
           W == Waiting
           V == [s \in Sema |-> IF s \in G THEN {} ELSE W[s]]
<1>1. /\ UNCHANGED <<machine, lck, condq, broken>> /\ th' = Aged
      /\ sleepers' = SubSeq(sleepers, n + 1, Len(sleepers))
      /\ sem' = [s \in Sema |-> IF Contains(rung, s)
                                THEN [value |-> sem[s].value + 1, waiters |-> <<>>] ELSE sem[s]]
      /\ YieldWith(q, PriorityOf) \/ (ready' = q /\ UNCHANGED cur)
  BY DEF Tick, Rest
<1>2. /\ th \in [Thread -> ThreadRecord] /\ sem \in SemaTypes
      /\ ToSet(condq) \subseteq Thread /\ ToSet(sleepers) \subseteq Thread
      /\ Lists(sleepers, ToSet(sleepers)) /\ Len(sleepers) \in Nat
      /\ DOMAIN sleepers = 1 .. Len(sleepers)
  <2>1. sleepers \in Seq(Thread)
    BY DEF IInv, TypeOK
  <2> QED BY <2>1, SeqLists, LenProperties DEF IInv, TypeOK, SemaTypes
<1>3. n \in 0 .. Len(sleepers)
  <2>1. /\ IsFiniteSet(1 .. Len(sleepers))
        /\ Cardinality(1 .. Len(sleepers)) = IF 1 > Len(sleepers) THEN 0 ELSE Len(sleepers) - 1 + 1
    BY <1>2, FS_Interval
  <2>2. Due(Aged) \subseteq 1 .. Len(sleepers)
    BY <1>2 DEF Due
  <2>3. n \in Nat /\ n <= Cardinality(1 .. Len(sleepers))
    BY <2>1, <2>2, FS_Subset, FS_CardinalityType
  <2> HIDE DEF n
  <2> QED BY <1>2, <2>1, <2>3
<1>4. /\ Lists(rung, G) /\ G \subseteq ToSet(sleepers)
      /\ sleepers' \in Seq(Thread) /\ IsInjective(sleepers')
      /\ ToSet(sleepers') = ToSet(sleepers) \ G
  <2> DEFINE A == ToSet(sleepers) \ G
  <2> HIDE DEF n
  <2>1. Lists(rung, G) /\ G \subseteq ToSet(sleepers) /\ Lists(sleepers', A)
    BY <1>1, <1>2, <1>3, CutLists
  <2>2. A \in SUBSET Thread
    BY <1>2
  <2> HIDE DEF A
  <2>3. sleepers' \in Seq(Thread) /\ IsInjective(sleepers') /\ ToSet(sleepers') = A
    BY <2>1, <2>2, ListsSeq
  <2> QED BY <2>1, <2>3 DEF A
<1> HIDE DEF n, rung
<1>5. \A s : Contains(rung, s) <=> s \in G
  <2>1. rung \in Seq(G)
    BY <1>4 DEF Lists
  <2> HIDE DEF G
  <2>2. \A s : Contains(rung, s) <=> s \in ToSet(rung)
    BY <2>1, ContainsIn
  <2> QED BY <2>2 DEF G
<1>6. /\ G \subseteq Thread /\ G \subseteq Sema /\ G \cap Lock = {}
      /\ \A u \in G : th[u].pc = "nap" /\ sem[u].value = 0
  BY <1>2, <1>4, PriorityAssumption DEF IInv, Sleeps, Sema
<1> HIDE DEF G
<1>7. /\ sem' \in SemaTypes
      /\ \A s \in Sema : sem'[s] = IF s \in G THEN [value |-> 1, waiters |-> <<>>] ELSE sem[s]
  <2>1. \A s \in Sema : sem'[s] = IF s \in G THEN [value |-> 1, waiters |-> <<>>] ELSE sem[s]
    BY <1>1, <1>5, <1>6
  <2>2. sem' = [s \in Sema |-> sem'[s]]
    BY <1>1
  <2>3. [value |-> 1, waiters |-> <<>>] \in [value : 0 .. 1, waiters : Seq(Thread)]
    OBVIOUS
  <2>4. \A s \in Sema : sem'[s] \in [value : 0 .. 1, waiters : Seq(Thread)]
    BY <1>2, <2>1, <2>3 DEF SemaTypes
  <2> QED BY <2>1, <2>2, <2>4 DEF SemaTypes
<1>8. /\ th' \in [Thread -> ThreadRecord]
      /\ \A u \in Thread : /\ th'[u].pc = th[u].pc /\ th'[u].lk = th[u].lk /\ th'[u].at = th[u].at
                           /\ th'[u].locks = th[u].locks /\ th'[u].off = th[u].off
                           /\ th'[u].cond = th[u].cond
  <2>1. \A u \in Thread : /\ th[u] \in ThreadRecord
                          /\ th'[u] = [th[u] EXCEPT !.wake = IF @ >= 0 THEN @ - 1 ELSE @]
    BY <1>1, <1>2 DEF Aged
  <2>2. \A w \in Nat \cup {-1} : (IF w >= 0 THEN w - 1 ELSE w) \in Nat \cup {-1}
    OBVIOUS
  <2>3. ASSUME NEW u \in Thread PROVE th'[u] \in ThreadRecord
    <3>1. th[u] \in ThreadRecord /\ th[u].wake \in Nat \cup {-1}
      BY <2>1 DEF ThreadRecord
    <3>2. PICK w \in Nat \cup {-1} : w = IF th[u].wake >= 0 THEN th[u].wake - 1 ELSE th[u].wake
      BY <2>2, <3>1
    <3>3. th'[u] = [th[u] EXCEPT !.wake = w]
      BY <2>1, <3>2
    <3> QED BY <3>1, <3>3 DEF ThreadRecord
  <2>4. th' = [u \in Thread |-> th'[u]]
    BY <1>1 DEF Aged
  <2> QED BY <2>1, <2>3, <2>4 DEF ThreadRecord
<1>9. Partition(cur, ready, sem, R, W)
  BY PlacesPartition DEF IInv, TypeOK
<1>10. /\ R \subseteq Thread /\ Idle \notin R /\ cur \in R \cup {Idle} /\ Lists(ready, R \ {cur})
       /\ W \in [Sema -> SUBSET Thread]
       /\ \A s \in Sema : Lists(sem[s].waiters, W[s]) /\ W[s] \cap R = {}
       /\ \A s, r \in Sema : s # r => W[s] \cap W[r] = {}
       /\ \A t \in Thread : t \in R \/ \E s \in Sema : t \in W[s]
  BY <1>9, PriorityAssumption DEF Partition, Sched
<1>11. \A s \in Sema : \A t \in W[s] :
         /\ th[t].off
         /\ s \in Lock => th[t].pc = "down" /\ th[t].lk = s
         /\ s \in Thread => t = s /\ sem[s].value = 0 /\ th[t].pc \in {"await", "nap"}
  BY DEF IInv, Waits
<1>12. SomebodyComes
  BY <1>2, Wakeups DEF IInv
<1>13. \A s \in Sema : sem[s].value > 0 /\ W[s] # {} =>
         \E t \in R : th[t].off /\ th[t].pc = "down" /\ th[t].lk = s
  BY <1>12 DEF SomebodyComes
<1> HIDE DEF R, W
<1>14. \A u \in G : u \in woken <=> u \in W[u]
  <2> TAKE u \in G
  <2>1. sem[u].waiters # <<>> <=> W[u] # {}
    BY <1>6, <1>10, EmptyLists
  <2> QED BY <1>6, <1>11, <2>1
<1>15. woken \subseteq G /\ woken \cap R = {} /\ cur \notin woken
  BY <1>6, <1>10, <1>14, PriorityAssumption
<1> HIDE DEF woken
<1>16. Sched(cur', ready', R \cup woken)
  <2> DEFINE A == R \cup woken
  <2>1. Lists(q, (R \ {cur}) \cup (G \cap woken))
    <3>1. (R \ {cur}) \cap G \cap woken = {}
      BY <1>15
    <3> QED BY <1>4, <1>10, <3>1, InsertAllLists
  <2>2. (R \ {cur}) \cup (G \cap woken) = A \ {cur}
    BY <1>15
  <2>3. Sched(cur, q, A) /\ Idle \notin A
    BY <1>6, <1>10, <1>15, <2>1, <2>2, PriorityAssumption DEF Sched
  <2> HIDE DEF q, A
  <2>4. Sched(cur', ready', A)
    BY <1>1, <2>3, YieldSched
  <2> QED BY <2>4 DEF A
<1>17. /\ V \in [Sema -> SUBSET Thread]
       /\ \A s \in Sema : V[s] = IF s \in G THEN {} ELSE W[s]
  BY <1>10
<1> HIDE DEF V
<1>18. \A s \in Sema : Lists(sem'[s].waiters, V[s])
  <2> TAKE s \in Sema
  <2>1. CASE s \in G
    <3>1. sem'[s].waiters = <<>> /\ V[s] = {}
      BY <1>7, <1>17, <2>1
    <3> QED BY <3>1, EmptyLists
  <2>2. CASE s \notin G
    BY <1>7, <1>10, <1>17, <2>2
  <2> QED BY <2>1, <2>2
<1>19. Partition(cur', ready', sem', R \cup woken, V)
  <2>1. R \cup woken \in SUBSET Thread
    BY <1>6, <1>10, <1>15
  <2>2. \A s, r \in Sema : s # r => V[s] \cap V[r] = {}
    BY <1>10, <1>17
  <2>3. ASSUME NEW s \in Sema PROVE V[s] \cap (R \cup woken) = {}
    <3> SUFFICES ASSUME s \notin G, NEW t \in W[s], t \in woken PROVE FALSE
      BY <1>10, <1>17
    <3>1. t \in G /\ t \in W[t] /\ t \in Sema
      BY <1>6, <1>14, <1>15
    <3> QED BY <1>10, <3>1
  <2>4. ASSUME NEW t \in Thread PROVE t \in R \cup woken \/ \E s \in Sema : t \in V[s]
    <3>1. CASE t \in R
      BY <3>1
    <3>2. CASE t \notin R
      <4>1. PICK s \in Sema : t \in W[s]
        BY <1>10, <3>2
      <4>2. CASE s \in G
        <5>1. t = s
          BY <1>6, <1>11, <4>1, <4>2
        <5> QED BY <1>14, <4>1, <4>2, <5>1
      <4>3. CASE s \notin G
        BY <1>17, <4>1, <4>3
      <4> QED BY <4>2, <4>3
    <3> QED BY <3>1, <3>2
  <2> QED BY <1>16, <1>17, <1>18, <2>1, <2>2, <2>3, <2>4 DEF Partition
<1>20. OnePlace' /\ Runnable' = R \cup woken /\ Waiting' = V
  <2> DEFINE A == R \cup woken
  <2>1. Partition(cur', ready', sem', A, V)
    BY <1>19
  <2> HIDE DEF A
  <2>2. OnePlace' /\ Runnable' = A /\ Waiting' = V
    BY <2>1, PartitionPlaces
  <2> QED BY <2>2 DEF A
<1>21. TypeOK'
  BY <1>1, <1>4, <1>7, <1>8, <1>20 DEF IInv, TypeOK, SemaTypes
<1>22. OneOwner'
  <2>1. \A l \in Lock : sem'[l].value = sem[l].value
    BY <1>6, <1>7 DEF Sema
  <2> QED BY <1>1, <1>8, <2>1 DEF IInv, OneOwner, Holds
<1>23. Calls'
  BY <1>8 DEF IInv, Calls
<1>24. Donations'
  BY <1>1, <1>8 DEF IInv, Donations
<1>25. Sleeps'
  <2>1. \A u \in Thread \ G : sem'[u].value = sem[u].value
    BY <1>7 DEF Sema
  <2> QED BY <1>2, <1>4, <1>6, <1>8, <2>1 DEF IInv, Sleeps
<1>26. Signals'
  <2>1. \A u \in Thread \ G : sem'[u].value = sem[u].value
    BY <1>7 DEF Sema
  <2>2. \A u \in ToSet(condq) :
          /\ th[u].pc \in {"restore", "clear", "up", "await"} /\ th[u].cond /\ sem[u].value = 0
          /\ u \in Thread
    BY <1>2 DEF IInv, Signals
  <2>3. \A u \in ToSet(condq) : u \in Thread \ G
    BY <1>6, <2>2
  <2> QED BY <1>1, <1>8, <2>1, <2>2, <2>3 DEF Signals
<1>27. Waits'
  <2> SUFFICES ASSUME NEW s \in Sema, NEW t, t \in V[s]
               PROVE  /\ th'[t].off
                      /\ s \in Lock => th'[t].pc = "down" /\ th'[t].lk = s
                      /\ s \in Thread => /\ t = s /\ sem'[s].value = 0
                                         /\ th'[t].pc \in {"await", "nap"}
    BY <1>20 DEF Waits
  <2>1. s \notin G /\ t \in W[s] /\ t \in Thread
    BY <1>10, <1>17
  <2> QED BY <1>7, <1>8, <1>11, <2>1
<1>28. SomebodyComes'
  <2> SUFFICES ASSUME NEW s \in Sema, sem'[s].value > 0, V[s] # {}
               PROVE  \E t \in R \cup woken : th'[t].off /\ th'[t].pc = "down" /\ th'[t].lk = s
    BY <1>20 DEF SomebodyComes
  <2>1. sem[s].value > 0 /\ W[s] # {}
    BY <1>7, <1>17
  <2>2. PICK t \in R : th[t].off /\ th[t].pc = "down" /\ th[t].lk = s
    BY <1>13, <2>1
  <2> QED BY <1>8, <1>10, <2>2
<1> QED BY <1>7, <1>21, <1>22, <1>23, <1>24, <1>25, <1>26, <1>27, <1>28, Wakeups DEF IInv

\* Nothing happens.
LEMMA StutterStep ==
  ASSUME IInv, UNCHANGED vars
  PROVE  IInv'
<1>1. TypeOK'
  BY DEF vars, IInv, TypeOK, OnePlace
<1>2. OneOwner' /\ Calls' /\ Donations' /\ Sleeps' /\ Signals'
  BY DEF vars, IInv, OneOwner, Holds, Calls, Donations, Sleeps, Signals
<1>3. Waits' /\ NoLostWakeup'
  BY DEF vars, IInv, Waits, Waiting, NoLostWakeup
<1> QED BY <1>1, <1>2, <1>3 DEF IInv

\* All threads make a list.
LEMMA ThreadsListed == Lists(SetToSeq(Thread), Thread)
<1> DEFINE o == SetToSeq(Thread)
<1>1. PICK f : f \in [1 .. Cardinality(Thread) -> Thread] /\ IsInjective(f) /\ Cardinality(Thread) \in Nat
  <2>1. /\ Cardinality(Thread) \in Nat
        /\ ExistsBijection(1 .. Cardinality(Thread), Thread)
    BY PriorityAssumption, FS_CardinalityType
  <2> QED BY <2>1 DEF ExistsBijection, Bijection, Injection
<1>2. o \in [1 .. Cardinality(Thread) -> Thread] /\ IsInjective(o)
  BY <1>1 DEF SetToSeq
<1> DEFINE N == Cardinality(Thread)
<1> HIDE DEF o, N
<1>3. o \in Injection(1 .. N, Thread) /\ N \in Nat
  BY <1>1, <1>2 DEF Injection, N
<1>4. Cardinality(1 .. N) = N
  <2>1. Cardinality(1 .. N) = IF 1 > N THEN 0 ELSE N - 1 + 1
    BY <1>3, FS_Interval
  <2> QED BY <1>3, <2>1
<1>5. o \in Surjection(1 .. N, Thread)
  BY <1>3, <1>4, PriorityAssumption, FS_Injection DEF N
<1>6. o \in [1 .. N -> Thread] /\ ToSet(o) = Thread
  BY <1>5 DEF Surjection, ToSet
<1>7. o \in Seq(Thread)
  BY <1>3, <1>6, SeqDef
<1> QED BY <1>2, <1>6, <1>7 DEF Lists, o

\* All threads stand in ready_list.
LEMMA InitIInv ==
  ASSUME Init
  PROVE  IInv
<1>1. PICK p \in machine.prios :
        /\ th = [t \in Thread |-> NewThread(p[t])]
        /\ LET q == SortDesc(SetToSeq(Thread), p) IN cur = Head(q) /\ ready = Tail(q)
  BY DEF Init
<1>2. /\ machine \in Machines /\ broken = "no" /\ sleepers = <<>> /\ condq = <<>>
      /\ lck = [l \in Lock |-> [holder |-> None, highest |-> Unset, old |-> Unset]]
      /\ sem = [s \in Sema |-> [value |-> IF s \in Lock THEN 1 ELSE 0, waiters |-> <<>>]]
  BY DEF Init
<1>3. p \in [Thread -> Prios]
  BY <1>2, PriorityAssumption
<1>4. /\ th \in [Thread -> ThreadRecord]
      /\ \A t \in Thread : th[t].pc = "home" /\ th[t].locks = <<>>
  <2>1. \A t \in Thread : th[t] = NewThread(p[t]) /\ p[t] \in Prios
    BY <1>1, <1>3
  <2>2. ASSUME NEW t \in Thread PROVE NewThread(p[t]) \in ThreadRecord
    <3>1. <<>> \in Seq(Lock) /\ "home" \in Pcs /\ -1 \in Nat \cup {-1}
      BY DEF Pcs
    <3> QED BY <2>1, <3>1 DEF NewThread, ThreadRecord
  <2> QED BY <1>1, <2>1, <2>2 DEF NewThread
<1>5. Partition(cur, ready, sem, Thread, [s \in Sema |-> {}])
  <2> DEFINE o == SetToSeq(Thread)
             q == SortDesc(o, p)
             W == [s \in Sema |-> {}]
  <2>1. Lists(o, Thread)
    BY ThreadsListed
  <2>2. Lists(q, Thread)
    BY <2>1, SortLists
  <2>3. q # <<>>
    BY <2>2, EmptyLists, PriorityAssumption
  <2>4. cur = Head(q) /\ ready = Tail(q)
    BY <1>1
  <2> HIDE DEF q
  <2>5. Sched(cur, ready, Thread)
    BY <2>2, <2>3, <2>4, HeadTailLists DEF Sched
  <2>6. \A s \in Sema : Lists(sem[s].waiters, W[s])
    BY <1>2, EmptyLists
  <2> QED BY <2>5, <2>6 DEF Partition
<1>6. OnePlace /\ \A s \in Sema : Waiting[s] = {}
  <2>1. OnePlace
    <3>1. \A s \in Sema : sem[s].waiters = <<>>
      BY <1>2
    <3>2. Lists(ready, Thread \ {cur}) /\ cur \in Thread \cup {Idle}
      BY <1>5 DEF Partition, Sched
    <3>3. ready \in Seq(Thread) /\ IsInjective(ready) /\ ToSet(ready) = Thread \ {cur}
      <4> DEFINE A == Thread \ {cur}
      <4>1. A \in SUBSET Thread
        OBVIOUS
      <4> HIDE DEF A
      <4>2. Lists(ready, A)
        BY <3>2 DEF A
      <4>3. ready \in Seq(Thread) /\ IsInjective(ready) /\ ToSet(ready) = A
        BY <4>1, <4>2, ListsSeq
      <4> QED BY <4>3 DEF A
    <3>4. ToSet(<<>>) = {} /\ IsInjective(<<>>) /\ <<>> \in Seq(Thread)
      BY DEF ToSet, IsInjective
    <3> QED BY <3>1, <3>2, <3>3, <3>4 DEF OnePlace
  <2>2. ToSet(<<>>) = {}
    BY DEF ToSet
  <2> QED BY <1>2, <2>1, <2>2 DEF Waiting
<1>7. ToSet(<<>>) = {} /\ IsInjective(<<>>) /\ <<>> \in Seq(Thread)
  BY DEF ToSet, IsInjective
<1>8. TypeOK
  <2>1. sem \in [Sema -> [value : 0 .. 1, waiters : Seq(Thread)]]
    BY <1>2
  <2>2. lck \in [Lock -> LockRecord]
    BY <1>2 DEF LockRecord
  <2> QED BY <1>2, <1>4, <1>6, <1>7, <2>1, <2>2 DEF TypeOK
<1>9. OneOwner /\ Calls /\ Donations
  BY <1>4, <1>7 DEF OneOwner, Holds, Calls, Donations
<1>10. Waits /\ Sleeps /\ Signals
  BY <1>2, <1>4, <1>6, <1>7 DEF Waits, Sleeps, Signals
<1>11. NoLostWakeup
  BY <1>2 DEF NoLostWakeup
<1> QED BY <1>8, <1>9, <1>10, <1>11 DEF IInv

----------------------------------------------------------------------------
(* The order of lists *)

\* A set of indices that has all before each of its own is a prefix.
LEMMA PrefixOf ==
  ASSUME NEW N \in Nat, NEW T \in SUBSET (1 .. N), \A i \in T : \A j \in 1 .. i : j \in T
  PROVE  Cardinality(T) \in 0 .. N /\ T = 1 .. Cardinality(T)
<1>1. ASSUME NEW k \in 0 .. N, T = 1 .. k
      PROVE  Cardinality(T) \in 0 .. N /\ T = 1 .. Cardinality(T)
  <2>1. Cardinality(1 .. k) = IF 1 > k THEN 0 ELSE k - 1 + 1
    BY FS_Interval
  <2>2. Cardinality(1 .. k) = k
    BY <2>1
  <2> QED BY <1>1, <2>2
<1>2. CASE T = 1 .. N
  BY <1>1, <1>2
<1>3. CASE T # 1 .. N
  <2> DEFINE C == (1 .. N) \ T
  <2>1. C \in SUBSET Nat /\ C # {}
    <3>1. \E i \in 1 .. N : i \notin T
      BY <1>3
    <3> QED BY <3>1
  <2> HIDE DEF C
  <2>2. PICK m \in C : \A i \in C : ~(i < m)
    BY <2>1, NatMin
  <2>3. m \in 1 .. N /\ m \notin T /\ \A i \in 1 .. N : i < m => i \in T
    BY <2>2 DEF C
  <2>4. T = 1 .. (m - 1)
    <3>1. ASSUME NEW i \in T PROVE i \in 1 .. (m - 1)
      <4>1. i \in 1 .. N /\ m \notin 1 .. i
        BY <2>3
      <4> QED BY <2>3, <4>1
    <3>2. ASSUME NEW i \in 1 .. (m - 1) PROVE i \in T
      BY <2>3
    <3> QED BY <3>1, <3>2
  <2>5. m - 1 \in 0 .. N
    BY <2>3
  <2> QED BY <1>1, <2>4, <2>5
<1> QED BY <1>2, <1>3

\* x is put into q as the k-th element, behind those that come before it, in
\* front of one that does not.
PutAt(q, x, key, k) ==
  /\ Len(InsertDesc(q, x, key)) = Len(q) + 1
  /\ \A j \in 1 .. Len(q) + 1 :
       InsertDesc(q, x, key)[j] = IF j < k THEN q[j] ELSE IF j = k THEN x ELSE q[j - 1]
  /\ \A j \in 1 .. k - 1 : key[q[j]] >= key[x]
  /\ k <= Len(q) => ~(key[q[k]] >= key[x])

\* Where list_insert_ordered puts an element.
LEMMA InsertDescAt ==
  ASSUME NEW S, NEW q \in Seq(S), NEW x \in S, NEW key
  PROVE  InsertDesc(q, x, key) \in Seq(S) /\ \E k \in 1 .. Len(q) + 1 : PutAt(q, x, key, k)
<1> DEFINE before == {i \in DOMAIN q : \A j \in 1 .. i : key[q[j]] >= key[x]}
           c == Cardinality(before)
<1>1. Len(q) \in Nat /\ DOMAIN q = 1 .. Len(q)
  BY LenProperties
<1>2. before \in SUBSET (1 .. Len(q)) /\ \A i \in before : \A j \in 1 .. i : j \in before
  BY <1>1
<1>3. InsertDesc(q, x, key) = InsertAt(q, c + 1, x)
  BY DEF InsertDesc
<1>4. \A i \in 1 .. Len(q) : i \in before <=> \A j \in 1 .. i : key[q[j]] >= key[x]
  BY <1>1
<1> HIDE DEF before
<1>5. c \in 0 .. Len(q) /\ before = 1 .. c
  BY <1>1, <1>2, PrefixOf
<1> HIDE DEF c
<1>6. \A j \in 1 .. c : key[q[j]] >= key[x]
  BY <1>1, <1>4, <1>5
<1>7. ASSUME c + 1 <= Len(q) PROVE ~(key[q[c + 1]] >= key[x])
  <2>1. c + 1 \in 1 .. Len(q) /\ c + 1 \notin before
    BY <1>1, <1>5, <1>7
  <2>2. PICK j \in 1 .. c + 1 : ~(key[q[j]] >= key[x])
    BY <1>4, <2>1
  <2>3. j = c + 1
    BY <1>5, <1>6, <2>2
  <2> QED BY <2>2, <2>3
<1>8. c + 1 \in 1 .. Len(q) + 1 /\ (c + 1) - 1 = c
  BY <1>1, <1>5
<1> DEFINE k == c + 1
<1>9. k \in 1 .. Len(q) + 1 /\ InsertDesc(q, x, key) = InsertAt(q, k, x)
  BY <1>3, <1>8
<1>10. /\ \A j \in 1 .. k - 1 : key[q[j]] >= key[x]
       /\ k <= Len(q) => ~(key[q[k]] >= key[x])
  BY <1>6, <1>7, <1>8
<1> HIDE DEF k
<1>11. InsertAt(q, k, x) \in Seq(S) /\ Inserted(InsertAt(q, k, x), q, k, x)
  BY <1>9, InsertAtProperties
<1>12. InsertDesc(q, x, key) \in Seq(S) /\ PutAt(q, x, key, k)
  BY <1>9, <1>10, <1>11 DEF PutAt, Inserted
<1> QED BY <1>9, <1>12

\* Nobody of P comes behind one of a lower key.
Ahead(q, key, P) == \A i, j \in DOMAIN q : j < i /\ q[i] \in P => key[q[j]] >= key[q[i]]

\* c comes before all of P that are in q.
Top(c, q, key, P) == c # Idle => \A x \in ToSet(q) \cap P : key[c] >= key[x]

\* list_insert_ordered lets nobody of P fall behind, in a list that is ordered
\* or not.
LEMMA InsertDescAhead ==
  ASSUME NEW key \in [Thread -> Nat], NEW P, NEW q \in Seq(Thread), Ahead(q, key, P),
         NEW x \in Thread
  PROVE  InsertDesc(q, x, key) \in Seq(Thread) /\ Ahead(InsertDesc(q, x, key), key, P)
<1> DEFINE r == InsertDesc(q, x, key)
           L == Len(q)
<1>1. L \in Nat /\ DOMAIN q = 1 .. L /\ \A i \in 1 .. L : q[i] \in Thread
  BY LenProperties
<1>2. r \in Seq(Thread) /\ \E k \in 1 .. L + 1 : PutAt(q, x, key, k)
  BY InsertDescAt
<1>3. PICK k \in 1 .. L + 1 : PutAt(q, x, key, k)
  BY <1>2
<1>4. /\ DOMAIN r = 1 .. L + 1
      /\ \A j \in 1 .. L + 1 : r[j] = IF j < k THEN q[j] ELSE IF j = k THEN x ELSE q[j - 1]
      /\ \A j \in 1 .. k - 1 : key[q[j]] >= key[x]
      /\ k <= L => ~(key[q[k]] >= key[x])
  <2>1. Len(r) = L + 1
    BY <1>3 DEF PutAt
  <2>2. DOMAIN r = 1 .. Len(r)
    BY <1>2, LenProperties
  <2> QED BY <1>3, <2>1, <2>2 DEF PutAt
<1> HIDE DEF r
<1>5. \A j \in 1 .. L + 1 :
        \/ j = k /\ r[j] = x
        \/ j < k /\ j \in 1 .. L /\ j \in 1 .. k - 1 /\ r[j] = q[j]
        \/ k < j /\ j - 1 \in 1 .. L /\ r[j] = q[j - 1]
  BY <1>1, <1>4
<1>6. \A i, j \in 1 .. L : j < i /\ q[i] \in P => key[q[j]] >= key[q[i]]
  BY <1>1 DEF Ahead
<1>7. \A i \in 1 .. L : k <= i /\ q[i] \in P => key[x] >= key[q[i]]
  <2> TAKE i \in 1 .. L
  <2> HAVE k <= i /\ q[i] \in P
  <2>1. k \in 1 .. L /\ (k = i \/ k < i)
    BY <1>1
  <2>2. key[q[k]] \in Nat /\ key[x] \in Nat /\ key[q[i]] \in Nat
    BY <1>1, <2>1
  <2>3. ~(key[q[k]] >= key[x])
    BY <1>1, <1>4, <2>1
  <2>4. k < i => key[q[k]] >= key[q[i]]
    BY <1>6, <2>1
  <2> QED BY <2>1, <2>2, <2>3, <2>4
<1>8. ASSUME NEW i \in 1 .. L + 1, NEW j \in 1 .. L + 1, j < i, r[i] \in P
      PROVE  key[r[j]] >= key[r[i]]
  <2>1. CASE i < k
    <3>1. /\ r[i] = q[i] /\ i \in 1 .. L /\ r[j] = q[j] /\ j \in 1 .. L
      BY <1>5, <1>8, <2>1
    <3> QED BY <1>6, <1>8, <3>1
  <2>2. CASE i = k
    <3>1. j < k /\ j \in 1 .. L + 1 /\ j \in 1 .. k - 1
      BY <1>8, <2>2
    <3>2. r[i] = x /\ r[j] = q[j]
      BY <1>5, <1>8, <2>2, <3>1
    <3> QED BY <1>4, <3>1, <3>2
  <2>3. CASE k < i
    <3>1. r[i] = q[i - 1] /\ i - 1 \in 1 .. L /\ k <= i - 1
      BY <1>5, <2>3
    <3>2. CASE j = k
      <4>1. r[j] = x
        BY <1>5, <3>2
      <4> QED BY <1>7, <1>8, <3>1, <4>1
    <3>3. CASE j < k
      <4>1. r[j] = q[j] /\ j \in 1 .. L /\ j < i - 1
        BY <1>5, <3>1, <3>3
      <4> QED BY <1>6, <1>8, <3>1, <4>1
    <3>4. CASE k < j
      <4>1. r[j] = q[j - 1] /\ j - 1 \in 1 .. L /\ j - 1 < i - 1
        BY <1>5, <1>8, <3>4
      <4> QED BY <1>6, <1>8, <3>1, <4>1
    <3> QED BY <3>2, <3>3, <3>4
  <2> QED BY <2>1, <2>2, <2>3
<1>9. Ahead(r, key, P)
  BY <1>4, <1>8 DEF Ahead
<1> QED BY <1>2, <1>9 DEF r

\* Nor does a loop of insertions.
LEMMA InsertAllAhead ==
  ASSUME NEW key \in [Thread -> Nat], NEW P, NEW q \in Seq(Thread), Ahead(q, key, P),
         NEW new \in Seq(Thread), NEW chosen
  PROVE  /\ InsertAll(q, new, chosen, key) \in Seq(Thread)
         /\ Ahead(InsertAll(q, new, chosen, key), key, P)
<1>1. Len(new) \in Nat /\ \A i \in 1 .. Len(new) : new[i] \in Thread
  BY LenProperties
<1>2. PICK f : Turns(f, q, new, chosen, key) /\ InsertAll(q, new, chosen, key) = f[Len(new)]
  BY <1>1, InsertAllBy
<1> DEFINE G == {n \in Nat : n <= Len(new) => f[n] \in Seq(Thread) /\ Ahead(f[n], key, P)}
<1>3. 0 \in G
  BY <1>2 DEF Turns
<1>4. ASSUME NEW n \in Nat, n \in G PROVE n + 1 \in G
  <2> SUFFICES ASSUME n + 1 <= Len(new)
               PROVE  f[n + 1] \in Seq(Thread) /\ Ahead(f[n + 1], key, P)
    OBVIOUS
  <2>1. f[n] \in Seq(Thread) /\ Ahead(f[n], key, P) /\ n + 1 \in 1 .. Len(new) /\ (n + 1) - 1 = n
    BY <1>1, <1>4
  <2>2. f[n + 1] = IF new[n + 1] \in chosen THEN InsertDesc(f[n], new[n + 1], key) ELSE f[n]
    BY <1>2, <2>1 DEF Turns
  <2>3. new[n + 1] \in Thread
    BY <1>1, <2>1
  <2>4. /\ InsertDesc(f[n], new[n + 1], key) \in Seq(Thread)
        /\ Ahead(InsertDesc(f[n], new[n + 1], key), key, P)
    BY <2>1, <2>3, InsertDescAhead
  <2> QED BY <2>1, <2>2, <2>4
<1> HIDE DEF G
<1>5. Len(new) \in G
  BY <1>1, <1>3, <1>4, NatInd
<1> QED BY <1>1, <1>2, <1>5 DEF G

\* list_sort orders the list, whoever is compared.
LEMMA SortAhead ==
  ASSUME NEW key \in [Thread -> Nat], NEW P, NEW q \in Seq(Thread)
  PROVE  SortDesc(q, key) \in Seq(Thread) /\ Ahead(SortDesc(q, key), key, P)
<1>1. <<>> \in Seq(Thread) /\ Ahead(<<>>, key, P)
  BY DEF Ahead
<1> QED BY <1>1, InsertAllAhead DEF SortDesc

\* The front of a list comes before those of P that are not behind, and they stay
\* in order without it.
LEMMA FrontAhead ==
  ASSUME NEW key \in [Thread -> Nat], NEW P, NEW q \in Seq(Thread), Ahead(q, key, P), q # <<>>
  PROVE  Ahead(Tail(q), key, P) /\ Top(Head(q), Tail(q), key, P)
<1> DEFINE r == Tail(q)
<1>1. /\ Len(q) \in Nat /\ DOMAIN q = 1 .. Len(q) /\ Head(q) = q[1] /\ 1 \in 1 .. Len(q)
      /\ DOMAIN r = 1 .. (Len(q) - 1)
      /\ \A i \in 1 .. (Len(q) - 1) : r[i] = q[i + 1]
  <2>1. /\ Len(q) \in Nat \ {0} /\ Head(q) = q[1] /\ Tail(q) \in Seq(Thread)
        /\ Len(Tail(q)) = Len(q) - 1
        /\ \A i \in 1 .. Len(q) - 1 : Tail(q)[i] = q[i + 1]
    BY HeadTailProperties, LenProperties
  <2>2. DOMAIN r = 1 .. Len(r) /\ DOMAIN q = 1 .. Len(q)
    BY <2>1, LenProperties
  <2> QED BY <2>1, <2>2
<1> HIDE DEF r
<1>2. \A i \in 1 .. (Len(q) - 1) : i + 1 \in 1 .. Len(q) /\ 1 < i + 1
  BY <1>1
<1>3. Ahead(r, key, P)
  <2> SUFFICES ASSUME NEW i \in 1 .. (Len(q) - 1), NEW j \in 1 .. (Len(q) - 1), j < i, r[i] \in P
               PROVE  key[r[j]] >= key[r[i]]
    BY <1>1 DEF Ahead
  <2>1. /\ i + 1 \in DOMAIN q /\ j + 1 \in DOMAIN q /\ j + 1 < i + 1
        /\ r[i] = q[i + 1] /\ r[j] = q[j + 1]
    BY <1>1, <1>2
  <2> QED BY <2>1 DEF Ahead
<1>4. Top(Head(q), r, key, P)
  <2> SUFFICES ASSUME NEW i \in 1 .. (Len(q) - 1), r[i] \in P
               PROVE  key[Head(q)] >= key[r[i]]
    BY <1>1 DEF Top, ToSet
  <2>1. /\ i + 1 \in DOMAIN q /\ 1 \in DOMAIN q /\ 1 < i + 1
        /\ r[i] = q[i + 1] /\ Head(q) = q[1]
    BY <1>1, <1>2
  <2> QED BY <2>1 DEF Ahead
<1> QED BY <1>3, <1>4 DEF r

\* next_thread_to_run takes the front.
LEMMA RunNextAhead ==
  ASSUME NEW key \in [Thread -> Nat], NEW P, NEW q \in Seq(Thread), Ahead(q, key, P), RunNext(q)
  PROVE  Ahead(ready', key, P) /\ Top(cur', ready', key, P)
<1>1. CASE q = <<>>
  BY <1>1 DEF RunNext, Ahead, Top, ToSet
<1>2. CASE q # <<>>
  BY <1>2, FrontAhead DEF RunNext
<1> QED BY <1>1, <1>2

\* thread_yield puts everybody in order.
LEMMA YieldAhead ==
  ASSUME NEW key \in [Thread -> Nat], NEW P, NEW q \in Seq(Thread), cur \in Thread \cup {Idle},
         YieldWith(q, key)
  PROVE  Ahead(ready', key, P) /\ Top(cur', ready', key, P)
<1> DEFINE s == SortDesc(q, key)
<1>1. s \in Seq(Thread) /\ Ahead(s, key, P)
  BY SortAhead
<1>2. RunNext(IF cur = Idle THEN s ELSE InsertDesc(s, cur, key))
  BY DEF YieldWith
<1> HIDE DEF s
<1>3. CASE cur = Idle
  BY <1>1, <1>2, <1>3, RunNextAhead
<1>4. CASE cur # Idle
  <2>1. /\ InsertDesc(s, cur, key) \in Seq(Thread) /\ Ahead(InsertDesc(s, cur, key), key, P)
    BY <1>1, <1>4, InsertDescAhead
  <2> QED BY <1>2, <1>4, <2>1, RunNextAhead
<1> QED BY <1>3, <1>4

\* thread_unblock yields, or the woken thread does not come before the running
\* one.
LEMMA UnblockAhead ==
  ASSUME NEW key \in [Thread -> Nat], NEW P, ready \in Seq(Thread), cur \in Thread \cup {Idle},
         Ahead(ready, key, P), NEW u \in Thread, Unblock(u, key)
  PROVE  /\ Ahead(ready', key, P)
         /\ \/ Top(cur', ready', key, P)
            \/ cur' = cur /\ (cur # Idle => key[cur] >= key[u])
<1> DEFINE q == InsertDesc(ready, u, key)
<1>1. q \in Seq(Thread) /\ Ahead(q, key, P)
  BY InsertDescAhead
<1>2. IF Outranks(u, key) THEN YieldWith(q, key) ELSE ready' = q /\ UNCHANGED cur
  BY DEF Unblock
<1> HIDE DEF q
<1>3. CASE Outranks(u, key)
  BY <1>1, <1>2, <1>3, YieldAhead
<1>4. CASE ~Outranks(u, key)
  <2>1. cur # Idle => key[cur] \in Nat /\ key[u] \in Nat /\ ~(key[u] > key[cur])
    BY <1>4 DEF Outranks
  <2> QED BY <1>1, <1>2, <1>4, <2>1
<1> QED BY <1>3, <1>4

----------------------------------------------------------------------------
(* The alarm clock's list *)

\* The search of list_insert_ordered has ended in front of the first sleeper
\* that wakes later than t, or at the end of the list.
SearchEnded(t) ==
  \/ /\ th[t].succ = EndOfList
     /\ \A i \in DOMAIN sleepers : th[sleepers[i]].wake <= th[t].wake
  \/ \E i \in DOMAIN sleepers :
       /\ th[t].succ = sleepers[i] /\ th[sleepers[i]].wake > th[t].wake
       /\ \A j \in 1 .. i - 1 : th[sleepers[j]].wake <= th[t].wake

\* Where interrupts spare thread_sleep, sleep_list is in the order of the wake-up
\* times, none of them past, and stays as it was searched until the sleeper is in.
InOrder ==
  ~machine.disturbed =>
    /\ \A i \in DOMAIN sleepers : th[sleepers[i]].wake >= 0
    /\ \A i, j \in DOMAIN sleepers : i < j => th[sleepers[i]].wake <= th[sleepers[j]].wake
    /\ \A t \in Thread : th[t].pc = "link" => cur = t /\ th[t].wake >= 0 /\ SearchEnded(t)

\* t gives its priority to h and goes on to the lock that h waits for.
Gives(t, h) ==
  /\ h \in Thread \ {t} /\ th[t].prio > th[h].prio /\ UNCHANGED broken
  /\ \A u \in Thread \ {t, h} : th'[u] = th[u]
  /\ th'[h] = [th[h] EXCEPT !.prio = th[t].prio]
  /\ th'[t] = [th[t] EXCEPT !.pc = IF th[h].waiting = None THEN "down" ELSE "donate",
                            !.at = th[h].waiting]
  /\ \A k \in Lock : lck'[k].holder = lck[k].holder /\ lck'[k].old = lck[k].old

\* h is as urgent as t already.
GivesNothing(t, h) ==
  /\ h \in Thread /\ th[h].prio >= th[t].prio /\ UNCHANGED <<broken, lck>>
  /\ th' = [th EXCEPT ![t].pc = "down", ![t].at = None]

\* What one level of donate does, case by case.
LEMMA DonateEffect ==
  ASSUME IInv, NEW t \in Thread, Donate(t), NEW h, h = lck[th[t].at].holder
  PROVE  /\ cur = t /\ th[t].pc = "donate" /\ th[t].at \in Lock
         /\ UNCHANGED <<machine, cur, ready, sem, sleepers, condq>>
         /\ \/ h = None /\ broken' = "null holder" /\ UNCHANGED <<th, lck>>
            \/ Gives(t, h)
            \/ GivesNothing(t, h)
<1>1. /\ cur = t /\ th[t].pc = "donate" /\ th[t].at \in Lock
      /\ UNCHANGED <<machine, cur, ready, sem, sleepers, condq>>
      /\ th \in [Thread -> ThreadRecord] /\ lck \in [Lock -> LockRecord]
  BY DEF IInv, TypeOK, Calls, Donate, Running, SchedulerSame, AlarmSame, Rest
<1>2. h \in Thread \cup {None} /\ th[t] \in ThreadRecord
  BY <1>1 DEF LockRecord
<1>3. Prios \subseteq Nat
  BY PriorityAssumption
<1>4. CASE h = None
  BY <1>1, <1>4 DEF Donate
<1>5. CASE h # None /\ th[t].prio > th[h].prio
  <2>1. h \in Thread /\ th[h] \in ThreadRecord
    BY <1>1, <1>2, <1>5
  <2>2. th[t].prio \in Nat /\ th[h].prio \in Nat
    BY <1>2, <1>3, <2>1 DEF ThreadRecord
  <2>3. h # t
    BY <1>5, <2>2
  <2>4. /\ th' = [th EXCEPT ![h].prio = th[t].prio,
                           ![t].pc = IF th[h].waiting = None THEN "down" ELSE @,
                           ![t].at = th[h].waiting]
        /\ lck' = [lck EXCEPT ![th[t].at].highest = IF th[t].prio > @ THEN th[t].prio ELSE @]
        /\ UNCHANGED broken
    BY <1>5 DEF Donate
  <2>5. /\ \A u \in Thread \ {t, h} : th'[u] = th[u]
        /\ th'[h] = [th[h] EXCEPT !.prio = th[t].prio]
        /\ th'[t] = [th[t] EXCEPT !.pc = IF th[h].waiting = None THEN "down" ELSE @,
                                  !.at = th[h].waiting]
    BY <1>1, <2>1, <2>3, <2>4
  <2>6. th'[t] = [th[t] EXCEPT !.pc = IF th[h].waiting = None THEN "down" ELSE "donate",
                              !.at = th[h].waiting]
    BY <1>1, <1>2, <2>5 DEF ThreadRecord
  <2>7. \A k \in Lock : lck'[k].holder = lck[k].holder /\ lck'[k].old = lck[k].old
    BY <1>1, <2>4 DEF LockRecord
  <2>8. Gives(t, h)
    BY <1>5, <2>1, <2>3, <2>4, <2>5, <2>6, <2>7 DEF Gives
  <2> QED BY <1>1, <2>8
<1>6. CASE h # None /\ ~(th[t].prio > th[h].prio)
  <2>1. h \in Thread /\ th[h] \in ThreadRecord
    BY <1>1, <1>2, <1>6
  <2>2. th[t].prio \in Nat /\ th[h].prio \in Nat
    BY <1>2, <1>3, <2>1 DEF ThreadRecord
  <2>3. th' = [th EXCEPT ![t].pc = "down", ![t].at = None] /\ UNCHANGED <<broken, lck>>
    BY <1>6 DEF Donate
  <2>4. th[h].prio >= th[t].prio
    BY <1>6, <2>2
  <2>5. GivesNothing(t, h)
    BY <2>1, <2>3, <2>4 DEF GivesNothing
  <2> QED BY <1>1, <2>5
<1> QED BY <1>4, <1>5, <1>6

\* A thread's step is its own: it changes where the call is for no other thread.
\* Only timer_sleep sets a wake-up time, and only thread_sleep links.
LEMMA OwnStep ==
  ASSUME IInv, NEW t \in Thread, Continue(t) \/ Begin(t)
  PROVE  /\ cur = t /\ UNCHANGED machine
         /\ \A u \in Thread \ {t} : th'[u].pc = th[u].pc /\ th'[u].wake = th[u].wake
         /\ \/ Link(t)
            \/ \E n \in machine.naps : TimerSleep(t, n)
            \/ UNCHANGED sleepers /\ th'[t].wake = th[t].wake /\ th'[t].pc # "link"
<1> DEFINE Own == /\ cur = t /\ UNCHANGED machine
                  /\ \A u \in Thread \ {t} : th'[u].pc = th[u].pc /\ th'[u].wake = th[u].wake
           Same == UNCHANGED sleepers /\ th'[t].wake = th[t].wake /\ th'[t].pc # "link"
<1>1. th \in [Thread -> ThreadRecord] /\ \A u \in Thread : th[u] \in ThreadRecord
  BY DEF IInv, TypeOK
<1>2. ASSUME NEW s, NEW p \in {"home", "got", "check"}, Down(t, s, p), th[t].pc # "link", cur = t
      PROVE  Own /\ Same
  <2>1. \/ th' = [th EXCEPT ![t].pc = p, ![t].off = FALSE]
        \/ th' = [th EXCEPT ![t].off = TRUE]
    BY <1>2 DEF Down
  <2>2. UNCHANGED <<machine, sleepers>>
    BY <1>2 DEF Down, AlarmSame, Rest
  <2> QED BY <1>1, <1>2, <2>1, <2>2 DEF ThreadRecord
<1>3. ASSUME Signalling(t) PROVE UNCHANGED <<machine, sleepers>>
  BY <1>3 DEF Signalling, AlarmSame, Rest
<1>4. CASE Check(t)
  BY <1>1, <1>4 DEF Check, Running, At, AlarmSame, Rest, ThreadRecord
<1>5. CASE Donate(t)
  <2> DEFINE h == lck[th[t].at].holder
  <2>1. h = lck[th[t].at].holder
    OBVIOUS
  <2> HIDE DEF h
  <2>2. /\ cur = t /\ th[t].pc = "donate" /\ UNCHANGED <<machine, sleepers>>
        /\ UNCHANGED th \/ Gives(t, h) \/ GivesNothing(t, h)
    BY <1>5, <2>1, DonateEffect
  <2>3. CASE UNCHANGED th
    BY <1>1, <2>2, <2>3
  <2>4. CASE Gives(t, h)
    BY <1>1, <2>2, <2>4 DEF Gives, ThreadRecord
  <2>5. CASE GivesNothing(t, h)
    BY <1>1, <2>2, <2>5 DEF GivesNothing, ThreadRecord
  <2> QED BY <2>2, <2>3, <2>4, <2>5
<1>6. CASE AcquireDown(t) \/ CondDown(t) \/ Nap(t)
  <2>1. /\ Down(t, th[t].lk, "got") \/ Down(t, t, "check") \/ Down(t, t, "home")
        /\ th[t].pc # "link" /\ cur = t
    BY <1>6 DEF AcquireDown, CondDown, Nap, Running
  <2> QED BY <1>2, <2>1
<1>7. CASE Got(t) \/ Clear(t) \/ Compare(t)
  BY <1>1, <1>7 DEF Got, Clear, Compare, Running, At, AlarmSame, Rest, ThreadRecord
<1>8. CASE Record(t)
  <2>1. /\ cur = t /\ th[t].pc = "record" /\ UNCHANGED <<machine, sleepers>>
        /\ \E q : th' = [th EXCEPT ![t].waiting = None, ![t].locks = q, ![t].pc = "home",
                                   ![t].lk = None, ![t].cond = FALSE]
    BY <1>8 DEF Record, Running, AlarmSame, Rest
  <2> QED BY <1>1, <2>1 DEF ThreadRecord
<1>9. CASE Restore(t)
  BY <1>1, <1>9 DEF Restore, Running, AlarmSame, Rest, ThreadRecord
<1>10. CASE Up(t)
  BY <1>1, <1>10 DEF Up, Running, At, AlarmSame, Rest, ThreadRecord
<1>11. CASE BroadcastMore(t)
  <2>1. cur = t /\ UNCHANGED <<machine, sleepers>>
    BY <1>3, <1>11 DEF BroadcastMore, Running
  <2> QED BY <1>1, <1>11, <2>1 DEF BroadcastMore, At, ThreadRecord
<1>12. CASE Link(t)
  BY <1>1, <1>12 DEF Link, Running, Rest, ThreadRecord
<1>13. ASSUME NEW l \in Lock, Acquire(t, l) \/ Release(t, l) PROVE Own /\ Same
  BY <1>1, <1>13 DEF Acquire, Release, Call, Running, AlarmSame, Rest, ThreadRecord
<1>14. ASSUME NEW p \in Prios, SetPriority(t, p) PROVE Own /\ Same
  BY <1>1, <1>14 DEF SetPriority, Call, Running, AlarmSame, Rest, ThreadRecord
<1>15. CASE CondWait(t)
  BY <1>1, <1>15 DEF CondWait, Call, Running, AlarmSame, Rest, ThreadRecord
<1>16. CASE CondSignal(t) \/ CondBroadcast(t)
  <2>1. /\ cur = t /\ th[t].pc = "home" /\ UNCHANGED <<machine, sleepers>>
        /\ UNCHANGED th \/ th' = At(t, IF condq = <<>> THEN "home" ELSE "broadcast")
    BY <1>3, <1>16 DEF CondSignal, CondBroadcast, Call, Running
  <2> QED BY <1>1, <2>1 DEF At, ThreadRecord
<1>17. ASSUME NEW n \in machine.naps, TimerSleep(t, n) PROVE Own
  BY <1>1, <1>17 DEF TimerSleep, Call, Running, Rest, ThreadRecord
<1>18. CASE Continue(t)
  BY <1>4, <1>5, <1>6, <1>7, <1>8, <1>9, <1>10, <1>11, <1>12, <1>18 DEF Continue
<1>19. CASE Begin(t)
  BY <1>13, <1>14, <1>15, <1>16, <1>17, <1>19 DEF Begin
<1> QED BY <1>18, <1>19

\* How many sleepers thread_tick rings for.
LEMMA DuePrefix ==
  ASSUME IInv, NEW a
  PROVE  /\ Len(sleepers) \in Nat /\ DOMAIN sleepers = 1 .. Len(sleepers)
         /\ Cardinality(Due(a)) \in 0 .. Len(sleepers) /\ Due(a) = 1 .. Cardinality(Due(a))
         /\ \A i \in 1 .. Len(sleepers) : sleepers[i] \in Thread
<1>1. /\ Len(sleepers) \in Nat /\ DOMAIN sleepers = 1 .. Len(sleepers)
      /\ \A i \in 1 .. Len(sleepers) : sleepers[i] \in Thread
  <2>1. sleepers \in Seq(Thread)
    BY DEF IInv, TypeOK
  <2> QED BY <2>1, LenProperties
<1>2. Due(a) \in SUBSET (1 .. Len(sleepers)) /\ \A i \in Due(a) : \A j \in 1 .. i : j \in Due(a)
  BY <1>1 DEF Due
<1> QED BY <1>1, <1>2, PrefixOf

\* In an ordered list the loop of thread_tick stops at the first sleeper that is
\* not due, and nobody behind it is.
LEMMA DueAreDue ==
  ASSUME IInv, InOrder, ~machine.disturbed, NEW i \in 1 .. Len(sleepers)
  PROVE  i <= Cardinality(Due(Aged)) <=> Aged[sleepers[i]].wake <= 0
<1>1. /\ Len(sleepers) \in Nat /\ DOMAIN sleepers = 1 .. Len(sleepers)
      /\ Cardinality(Due(Aged)) \in 0 .. Len(sleepers)
      /\ Due(Aged) = 1 .. Cardinality(Due(Aged))
      /\ \A j \in 1 .. Len(sleepers) : sleepers[j] \in Thread
  BY DuePrefix
<1>2. \A j \in 1 .. Len(sleepers) : /\ th[sleepers[j]].wake \in Nat
                                    /\ Aged[sleepers[j]].wake = th[sleepers[j]].wake - 1
  <2> TAKE j \in 1 .. Len(sleepers)
  <2>1. /\ th[sleepers[j]] \in ThreadRecord
        /\ Aged[sleepers[j]] = [th[sleepers[j]] EXCEPT !.wake = IF @ >= 0 THEN @ - 1 ELSE @]
    BY <1>1 DEF IInv, TypeOK, Aged
  <2>2. th[sleepers[j]].wake \in Nat \cup {-1} /\ th[sleepers[j]].wake >= 0
    BY <1>1, <2>1 DEF InOrder, ThreadRecord
  <2> QED BY <2>1, <2>2 DEF ThreadRecord
<1>3. \A j, k \in 1 .. Len(sleepers) : j < k => th[sleepers[j]].wake <= th[sleepers[k]].wake
  BY <1>1 DEF InOrder
<1>4. i \in Due(Aged) <=> \A j \in 1 .. i : Aged[sleepers[j]].wake <= 0
  BY <1>1 DEF Due
<1>5. i \in Due(Aged) <=> i <= Cardinality(Due(Aged))
  BY <1>1
<1>6. ASSUME Aged[sleepers[i]].wake <= 0, NEW j \in 1 .. i PROVE Aged[sleepers[j]].wake <= 0
  <2>1. j \in 1 .. Len(sleepers) /\ (j = i \/ j < i)
    BY <1>1
  <2>2. /\ th[sleepers[i]].wake \in Nat /\ Aged[sleepers[i]].wake = th[sleepers[i]].wake - 1
        /\ th[sleepers[j]].wake \in Nat /\ Aged[sleepers[j]].wake = th[sleepers[j]].wake - 1
    BY <1>2, <2>1
  <2>3. th[sleepers[j]].wake <= th[sleepers[i]].wake
    BY <1>3, <2>1, <2>2
  <2> QED BY <1>6, <2>2, <2>3
<1> QED BY <1>4, <1>5, <1>6

\* What AlarmsOnTime says of one step.
OnTime ==
  ~machine.disturbed =>
    \A t \in ToSet(sleepers) : th[t].wake > 0 =>
      (t \notin ToSet(sleepers') <=> th'[t].wake = 0)

\* A tick takes the sleepers that are due off the list and leaves it in order.
LEMMA TickInOrder ==
  ASSUME IInv, InOrder, NEW over \in BOOLEAN, Tick(over)
  PROVE  InOrder' /\ OnTime
<1> DEFINE n == Cardinality(Due(Aged))
           L == Len(sleepers)
<1>1. /\ machine' = machine /\ th' = Aged /\ MayInterrupt
      /\ sleepers' = SubSeq(sleepers, n + 1, L)
  BY DEF Tick, Rest
<1> SUFFICES ASSUME ~machine.disturbed
             PROVE  /\ InOrder'
                    /\ \A t \in ToSet(sleepers) : th[t].wake > 0 =>
                         (t \notin ToSet(sleepers') <=> th'[t].wake = 0)
  BY <1>1 DEF InOrder, OnTime
<1>2. /\ L \in Nat /\ DOMAIN sleepers = 1 .. L /\ n \in 0 .. L
      /\ \A i \in 1 .. L : sleepers[i] \in Thread
  BY DuePrefix
<1>3. \A i \in 1 .. L : i <= n <=> th'[sleepers[i]].wake <= 0
  BY <1>1, DueAreDue
<1> HIDE DEF n
<1>4. /\ \A i \in 1 .. L : th[sleepers[i]].wake >= 0
      /\ \A i, j \in 1 .. L : i < j => th[sleepers[i]].wake <= th[sleepers[j]].wake
      /\ \A t \in Thread : th[t].pc = "link" => cur = t
  BY <1>2 DEF InOrder
<1>5. \A t \in Thread : /\ th'[t].pc = th[t].pc /\ th[t].wake \in Nat \cup {-1}
                        /\ th'[t].wake = IF th[t].wake >= 0 THEN th[t].wake - 1 ELSE th[t].wake
  <2> TAKE t \in Thread
  <2>1. th[t] \in ThreadRecord /\ th'[t] = [th[t] EXCEPT !.wake = IF @ >= 0 THEN @ - 1 ELSE @]
    BY <1>1 DEF IInv, TypeOK, Aged
  <2> QED BY <2>1 DEF ThreadRecord
<1>6. \A t \in Thread : th'[t].pc # "link"
  <2> SUFFICES ASSUME NEW t \in Thread, th[t].pc = "link" PROVE FALSE
    BY <1>5
  <2>1. cur = t /\ cur # Idle
    BY <1>4, PriorityAssumption
  <2> QED BY <1>1, <2>1 DEF MayInterrupt
<1>7. /\ Len(sleepers') = L - n /\ DOMAIN sleepers' = 1 .. (L - n)
      /\ \A i \in 1 .. (L - n) : sleepers'[i] = sleepers[n + i]
  <2>1. sleepers \in Seq(Thread)
    BY DEF IInv, TypeOK
  <2>2. n + 1 \in 1 .. (L + 1) /\ L \in n .. L
    BY <1>2
  <2>3. /\ sleepers' \in Seq(Thread)
        /\ Len(sleepers') = IF n + 1 <= L THEN L - (n + 1) + 1 ELSE 0
        /\ \A i \in 1 .. L - (n + 1) + 1 : sleepers'[i] = sleepers[(n + 1) + i - 1]
    BY <1>1, <1>2, <2>1, <2>2, SubSeqProperties
  <2>4. Len(sleepers') = L - n /\ L - (n + 1) + 1 = L - n
    <3>1. (IF n + 1 <= L THEN L - (n + 1) + 1 ELSE 0) = L - n /\ L - (n + 1) + 1 = L - n
      <4>1. \A a \in Nat : \A b \in 0 .. a :
              (IF b + 1 <= a THEN a - (b + 1) + 1 ELSE 0) = a - b /\ a - (b + 1) + 1 = a - b
        OBVIOUS
      <4> HIDE DEF L
      <4> QED BY <1>2, <4>1
    <3> QED BY <2>3, <3>1
  <2>5. \A i \in 1 .. (L - n) : (n + 1) + i - 1 = n + i
    BY <1>2
  <2>6. DOMAIN sleepers' = 1 .. Len(sleepers')
    BY <2>3, LenProperties
  <2> QED BY <2>3, <2>4, <2>5, <2>6
<1>8. \A i \in 1 .. (L - n) : n + i \in 1 .. L /\ n + i > n
  BY <1>2
<1>9. \A i \in DOMAIN sleepers' : th'[sleepers'[i]].wake >= 0
  <2> TAKE i \in DOMAIN sleepers'
  <2>1. sleepers'[i] = sleepers[n + i] /\ n + i \in 1 .. L /\ ~(n + i <= n)
    BY <1>2, <1>7, <1>8
  <2>2. ~(th'[sleepers[n + i]].wake <= 0) /\ sleepers[n + i] \in Thread
    BY <1>2, <1>3, <2>1
  <2> QED BY <1>5, <2>1, <2>2
<1>10. \A i, j \in DOMAIN sleepers' : i < j => th'[sleepers'[i]].wake <= th'[sleepers'[j]].wake
  <2> TAKE i, j \in DOMAIN sleepers'
  <2> HAVE i < j
  <2>1. /\ sleepers'[i] = sleepers[n + i] /\ sleepers'[j] = sleepers[n + j]
        /\ n + i \in 1 .. L /\ n + j \in 1 .. L /\ n + i < n + j
    BY <1>2, <1>7, <1>8
  <2>2. /\ th[sleepers[n + i]].wake <= th[sleepers[n + j]].wake
        /\ th[sleepers[n + i]].wake >= 0 /\ th[sleepers[n + j]].wake >= 0
        /\ sleepers[n + i] \in Thread /\ sleepers[n + j] \in Thread
    BY <1>2, <1>4, <2>1
  <2> QED BY <1>5, <2>1, <2>2
<1>11. InOrder'
  BY <1>6, <1>9, <1>10 DEF InOrder
<1>12. ASSUME NEW t \in ToSet(sleepers), th[t].wake > 0
       PROVE  t \notin ToSet(sleepers') <=> th'[t].wake = 0
  <2>1. PICK i \in 1 .. L : sleepers[i] = t
    BY <1>2 DEF ToSet
  <2>2. i <= n <=> th'[t].wake = 0
    <3>1. th[t].wake \in Nat /\ th'[t].wake = th[t].wake - 1
      BY <1>2, <1>5, <1>12, <2>1
    <3>2. th'[t].wake <= 0 <=> th'[t].wake = 0
      BY <1>12, <3>1
    <3> QED BY <1>3, <2>1, <3>2
  <2>3. CASE i <= n
    <3>1. t \notin ToSet(sleepers')
      <4> SUFFICES ASSUME NEW j \in 1 .. (L - n), sleepers[n + j] = t PROVE FALSE
        BY <1>7 DEF ToSet
      <4>1. n + j = i
        <5>1. IsInjective(sleepers)
          BY DEF IInv, TypeOK
        <5> QED BY <1>2, <1>8, <2>1, <5>1 DEF IsInjective
      <4> QED BY <1>2, <2>3, <4>1
    <3> QED BY <2>2, <2>3, <3>1
  <2>4. CASE ~(i <= n)
    <3>1. i - n \in 1 .. (L - n) /\ n + (i - n) = i
      BY <1>2, <2>4
    <3>2. sleepers'[i - n] = t
      BY <1>7, <2>1, <3>1
    <3>3. t \in ToSet(sleepers')
      BY <1>7, <3>1, <3>2 DEF ToSet
    <3> QED BY <2>2, <2>4, <3>3
  <2> QED BY <2>3, <2>4
<1> QED BY <1>11, <1>12

\* t is linked in as the k-th sleeper, behind those that wake no later.
LinkedAt(t, k) ==
  /\ sleepers' \in Seq(Thread) /\ Len(sleepers') = Len(sleepers) + 1
  /\ \A j \in 1 .. Len(sleepers) + 1 :
       sleepers'[j] = IF j < k THEN sleepers[j] ELSE IF j = k THEN t ELSE sleepers[j - 1]
  /\ \A j \in 1 .. k - 1 : th[sleepers[j]].wake <= th[t].wake
  /\ \A j \in k .. Len(sleepers) : th[t].wake <= th[sleepers[j]].wake

\* thread_sleep's insertion keeps the order: nobody has touched the list since
\* the search.
LEMMA LinkInOrder ==
  ASSUME IInv, InOrder, NEW t \in Thread, Link(t)
  PROVE  /\ InOrder'
         /\ ~machine.disturbed => broken' = broken /\ ToSet(sleepers) \subseteq ToSet(sleepers')
<1>1. /\ th \in [Thread -> ThreadRecord] /\ th[t] \in ThreadRecord
      /\ sleepers \in Seq(Thread) /\ t \notin ToSet(sleepers)
  BY DEF IInv, TypeOK, Sleeps, Link, Running
<1>2. /\ cur = t /\ th[t].pc = "link" /\ cur' = cur /\ machine' = machine
      /\ th' = [th EXCEPT ![t].pc = "nap", ![t].succ = None]
  BY DEF Link, Running, SchedulerSame, Rest
<1> SUFFICES ASSUME ~machine.disturbed
             PROVE  InOrder' /\ broken' = broken /\ ToSet(sleepers) \subseteq ToSet(sleepers')
  BY <1>2 DEF InOrder
<1>3. /\ \A u \in Thread \ {t} : th'[u] = th[u]
      /\ th'[t].wake = th[t].wake /\ th'[t].pc = "nap"
  BY <1>1, <1>2 DEF ThreadRecord
<1>4. \A u \in Thread : th'[u].wake = th[u].wake /\ th'[u].wake \in Nat \cup {-1}
  BY <1>1, <1>3 DEF ThreadRecord
<1> DEFINE L == Len(sleepers)
<1>5. /\ L \in Nat /\ DOMAIN sleepers = 1 .. L /\ \A i \in 1 .. L : sleepers[i] \in Thread
  BY <1>1, LenProperties
<1>6. /\ \A i \in 1 .. L : th[sleepers[i]].wake >= 0
      /\ \A i, j \in 1 .. L : i < j => th[sleepers[i]].wake <= th[sleepers[j]].wake
      /\ \A u \in Thread : th[u].pc = "link" => cur = u
      /\ th[t].wake >= 0 /\ SearchEnded(t)
  BY <1>2, <1>5 DEF InOrder
<1>7. UNCHANGED broken /\ \E k \in 1 .. L + 1 : LinkedAt(t, k)
  <2>1. CASE th[t].succ = EndOfList /\ \A i \in DOMAIN sleepers : th[sleepers[i]].wake <= th[t].wake
    <3>1. sleepers' = Append(sleepers, t) /\ UNCHANGED broken
      BY <2>1 DEF Link, Linked
    <3>2. /\ sleepers' \in Seq(Thread) /\ Len(sleepers') = L + 1
          /\ \A j \in 1 .. L : sleepers'[j] = sleepers[j]
          /\ sleepers'[L + 1] = t
      BY <1>1, <3>1, AppendProperties
    <3>3. L + 1 \in 1 .. L + 1 /\ (L + 1) .. L = {} /\ (L + 1) - 1 = L
      BY <1>5
    <3>4. \A j \in 1 .. L + 1 : sleepers'[j] = IF j < L + 1 THEN sleepers[j]
                                               ELSE IF j = L + 1 THEN t ELSE sleepers[j - 1]
      BY <1>5, <3>2
    <3>5. LinkedAt(t, L + 1)
      BY <1>5, <2>1, <3>2, <3>3, <3>4 DEF LinkedAt
    <3> QED BY <3>1, <3>3, <3>5
  <2>2. ASSUME NEW k \in DOMAIN sleepers, th[t].succ = sleepers[k], th[sleepers[k]].wake > th[t].wake,
               \A j \in 1 .. k - 1 : th[sleepers[j]].wake <= th[t].wake
        PROVE  UNCHANGED broken /\ k \in 1 .. L + 1 /\ LinkedAt(t, k)
    <3>1. k \in 1 .. L + 1 /\ th[t].succ # EndOfList /\ Contains(sleepers, th[t].succ)
      <4>1. sleepers[k] \in Thread /\ sleepers[k] \in ToSet(sleepers)
        BY <1>5 DEF ToSet
      <4> QED BY <1>1, <1>5, <2>2, <4>1, ContainsIn, PriorityAssumption
    <3>2. (CHOOSE i \in DOMAIN sleepers : sleepers[i] = th[t].succ) = k
      <4>1. \A i \in DOMAIN sleepers : sleepers[i] = th[t].succ <=> i = k
        <5>1. IsInjective(sleepers)
          BY DEF IInv, TypeOK
        <5> QED BY <1>5, <2>2, <5>1 DEF IsInjective
      <4>2. k \in DOMAIN sleepers
        BY <1>5
      <4> QED BY <4>1, <4>2
    <3>3. UNCHANGED broken /\ sleepers' = InsertAt(sleepers, k, t)
      BY <3>1, <3>2 DEF Link, Linked
    <3>4. \A j \in k .. L : th[t].wake <= th[sleepers[j]].wake
      <4> TAKE j \in k .. L
      <4>1. j \in 1 .. L /\ (j = k \/ k < j)
        BY <1>5
      <4>2. th[sleepers[k]].wake <= th[sleepers[j]].wake
        BY <1>4, <1>5, <1>6, <4>1
      <4>3. /\ th[t].wake \in Nat \cup {-1} /\ th[sleepers[k]].wake \in Nat \cup {-1}
            /\ th[sleepers[j]].wake \in Nat \cup {-1}
        BY <1>4, <1>5, <4>1
      <4> QED BY <2>2, <4>2, <4>3
    <3>5. /\ sleepers' \in Seq(Thread) /\ Len(sleepers') = L + 1
          /\ \A j \in 1 .. L + 1 : sleepers'[j] = IF j < k THEN sleepers[j]
                                                  ELSE IF j = k THEN t ELSE sleepers[j - 1]
      <4>0. sleepers \in Seq(Thread)
        BY <1>1
      <4>1. k \in 1 .. Len(sleepers) + 1
        BY <3>1
      <4>2. /\ InsertAt(sleepers, k, t) \in Seq(Thread)
            /\ Inserted(InsertAt(sleepers, k, t), sleepers, k, t)
        BY <4>0, <4>1, InsertAtProperties
      <4>3. sleepers' \in Seq(Thread) /\ Inserted(sleepers', sleepers, k, t)
        BY <3>3, <4>2
      <4> QED BY <4>3 DEF Inserted
    <3>6. LinkedAt(t, k)
      BY <2>2, <3>4, <3>5 DEF LinkedAt
    <3> QED BY <3>1, <3>3, <3>6
  <2> QED BY <1>6, <2>1, <2>2 DEF SearchEnded
<1>8. PICK k \in 1 .. L + 1 : LinkedAt(t, k)
  BY <1>7
<1>9. /\ DOMAIN sleepers' = 1 .. L + 1
      /\ \A j \in 1 .. L + 1 :
           sleepers'[j] = IF j < k THEN sleepers[j] ELSE IF j = k THEN t ELSE sleepers[j - 1]
      /\ \A j \in 1 .. k - 1 : th[sleepers[j]].wake <= th[t].wake
      /\ \A j \in k .. L : th[t].wake <= th[sleepers[j]].wake
  <2>1. sleepers' \in Seq(Thread) /\ Len(sleepers') = L + 1
    BY <1>8 DEF LinkedAt
  <2>2. DOMAIN sleepers' = 1 .. Len(sleepers')
    BY <2>1, LenProperties
  <2> QED BY <1>8, <2>1, <2>2 DEF LinkedAt
<1>10. \A j \in 1 .. L + 1 :
         \/ j = k /\ sleepers'[j] = t
         \/ j < k /\ j \in 1 .. L /\ j \in 1 .. k - 1 /\ sleepers'[j] = sleepers[j]
         \/ k < j /\ j - 1 \in 1 .. L /\ j - 1 \in k .. L /\ sleepers'[j] = sleepers[j - 1]
  BY <1>5, <1>9
<1>11. \A j \in DOMAIN sleepers' : th'[sleepers'[j]].wake >= 0
  BY <1>4, <1>5, <1>6, <1>9, <1>10
<1>12. \A i, j \in DOMAIN sleepers' : i < j => th'[sleepers'[i]].wake <= th'[sleepers'[j]].wake
  <2> SUFFICES ASSUME NEW i \in 1 .. L + 1, NEW j \in 1 .. L + 1, i < j
               PROVE  th'[sleepers'[i]].wake <= th'[sleepers'[j]].wake
    BY <1>9
  <2>1. CASE i = k
    <3>1. sleepers'[i] = t /\ j - 1 \in 1 .. L /\ j - 1 \in k .. L /\ sleepers'[j] = sleepers[j - 1]
      BY <1>10, <2>1
    <3> QED BY <1>4, <1>5, <1>9, <3>1
  <2>2. CASE k < i
    <3>1. /\ i - 1 \in 1 .. L /\ sleepers'[i] = sleepers[i - 1]
          /\ j - 1 \in 1 .. L /\ sleepers'[j] = sleepers[j - 1] /\ i - 1 < j - 1
      BY <1>10, <2>2
    <3>2. th[sleepers[i - 1]].wake <= th[sleepers[j - 1]].wake
      BY <1>6, <3>1
    <3> QED BY <1>4, <1>5, <3>1, <3>2
  <2>3. CASE i < k
    <3>1. i \in 1 .. L /\ i \in 1 .. k - 1 /\ sleepers'[i] = sleepers[i]
      BY <1>10, <2>3
    <3>2. CASE j = k
      <4>1. sleepers'[j] = t
        BY <1>10, <3>2
      <4> QED BY <1>4, <1>5, <1>9, <3>1, <4>1
    <3>3. CASE j < k
      <4>1. j \in 1 .. L /\ sleepers'[j] = sleepers[j]
        BY <1>10, <3>3
      <4>2. th[sleepers[i]].wake <= th[sleepers[j]].wake
        BY <1>6, <3>1, <4>1
      <4> QED BY <1>4, <1>5, <3>1, <4>1, <4>2
    <3>4. CASE k < j
      <4>1. j - 1 \in 1 .. L /\ j - 1 \in k .. L /\ sleepers'[j] = sleepers[j - 1]
        BY <1>10, <3>4
      <4>2. /\ th[sleepers[i]].wake <= th[t].wake /\ th[t].wake <= th[sleepers[j - 1]].wake
            /\ th[sleepers[i]].wake \in Nat \cup {-1} /\ th[t].wake \in Nat \cup {-1}
            /\ th[sleepers[j - 1]].wake \in Nat \cup {-1}
        BY <1>4, <1>5, <1>9, <3>1, <4>1
      <4> QED BY <1>4, <1>5, <3>1, <4>1, <4>2
    <3> QED BY <3>2, <3>3, <3>4
  <2> QED BY <2>1, <2>2, <2>3
<1>13. \A u \in Thread : th'[u].pc # "link"
  BY <1>2, <1>3, <1>6
<1>14. InOrder'
  BY <1>11, <1>12, <1>13 DEF InOrder
<1>15. ToSet(sleepers) \subseteq ToSet(sleepers')
  <2> SUFFICES ASSUME NEW i \in 1 .. L
               PROVE  \E j \in 1 .. L + 1 : sleepers'[j] = sleepers[i]
    BY <1>5, <1>9 DEF ToSet
  <2>1. CASE i < k
    BY <1>5, <1>9, <2>1
  <2>2. CASE ~(i < k)
    <3>1. i + 1 \in 1 .. L + 1 /\ ~(i + 1 < k) /\ i + 1 # k /\ (i + 1) - 1 = i
      BY <1>5, <2>2
    <3> QED BY <1>9, <3>1
  <2> QED BY <2>1, <2>2
<1> QED BY <1>7, <1>14, <1>15

\* timer_sleep's search ends where the sleeper belongs.
LEMMA TimerSleepInOrder ==
  ASSUME IInv, InOrder, NEW t \in Thread, NEW n \in machine.naps, TimerSleep(t, n)
  PROVE  InOrder'
<1> DEFINE later == {i \in DOMAIN sleepers : th[sleepers[i]].wake > n}
           next == IF later = {} THEN EndOfList ELSE sleepers[Min(later)]
           L == Len(sleepers)
<1>1. /\ cur = t /\ th[t].pc = "home" /\ UNCHANGED <<cur, machine, sleepers>>
      /\ th \in [Thread -> ThreadRecord] /\ th[t] \in ThreadRecord /\ n \in Nat
      /\ th' = [th EXCEPT ![t].wake = n, ![t].pc = "link", ![t].succ = next]
  BY PriorityAssumption DEF IInv, TypeOK, TimerSleep, Call, Running, AlarmSame, Rest
<1> SUFFICES ASSUME ~machine.disturbed PROVE InOrder'
  BY <1>1 DEF InOrder
<1>2. /\ L \in Nat /\ DOMAIN sleepers = 1 .. L /\ t \notin ToSet(sleepers)
      /\ \A i \in 1 .. L : sleepers[i] \in Thread
  <2>1. sleepers \in Seq(Thread) /\ t \notin ToSet(sleepers)
    BY <1>1 DEF IInv, TypeOK, Sleeps
  <2> QED BY <2>1, LenProperties
<1> HIDE DEF next
<1>3. /\ \A u \in Thread \ {t} : th'[u] = th[u]
      /\ th'[t].wake = n /\ th'[t].pc = "link" /\ th'[t].succ = next
  BY <1>1 DEF ThreadRecord
<1>4. \A i \in 1 .. L : /\ th'[sleepers[i]] = th[sleepers[i]]
                         /\ th[sleepers[i]].wake \in Nat \cup {-1}
  <2> TAKE i \in 1 .. L
  <2>1. sleepers[i] \in Thread \ {t}
    BY <1>2 DEF ToSet
  <2> QED BY <1>1, <1>3, <2>1 DEF ThreadRecord
<1>5. /\ \A i \in 1 .. L : th[sleepers[i]].wake >= 0
      /\ \A i, j \in 1 .. L : i < j => th[sleepers[i]].wake <= th[sleepers[j]].wake
      /\ \A u \in Thread : th[u].pc = "link" => cur = u
  BY <1>2 DEF InOrder
<1>6. SearchEnded(t)'
  <2>1. CASE later = {}
    <3>1. next = EndOfList
      BY <2>1 DEF next
    <3>2. \A i \in 1 .. L : th[sleepers[i]].wake <= n
      BY <1>1, <1>2, <1>4, <2>1
    <3> QED BY <1>1, <1>2, <1>3, <1>4, <3>1, <3>2 DEF SearchEnded
  <2>2. CASE later # {}
    <3>1. later \in SUBSET Nat /\ later \subseteq 1 .. L
      BY <1>2
    <3>2. \A i \in 1 .. L : i \in later <=> th[sleepers[i]].wake > n
      BY <1>2
    <3>3. next = sleepers[Min(later)]
      BY <2>2 DEF next
    <3> DEFINE k == Min(later)
    <3> HIDE DEF later
    <3>4. k \in later /\ \A m \in later : k <= m
      BY <2>2, <3>1, MinOf
    <3> HIDE DEF k
    <3>5. k \in 1 .. L /\ th[sleepers[k]].wake > n /\ next = sleepers[k]
      BY <3>1, <3>2, <3>3, <3>4 DEF k
    <3>6. \A j \in 1 .. k - 1 : th[sleepers[j]].wake <= n
      <4> TAKE j \in 1 .. k - 1
      <4>1. j \in 1 .. L /\ ~(k <= j)
        BY <1>2, <3>5
      <4>2. ~(th[sleepers[j]].wake > n)
        BY <3>2, <3>4, <4>1
      <4> QED BY <1>1, <1>4, <4>1, <4>2
    <3>7. \A j \in 1 .. k - 1 : j \in 1 .. L
      BY <1>2, <3>5
    <3>8. /\ k \in DOMAIN sleepers' /\ th'[t].succ = sleepers'[k]
          /\ th'[sleepers'[k]].wake > th'[t].wake
          /\ \A j \in 1 .. k - 1 : th'[sleepers'[j]].wake <= th'[t].wake
      <4>1. sleepers' = sleepers /\ DOMAIN sleepers = 1 .. L /\ th'[t].wake = n
        BY <1>1, <1>2, <1>3
      <4>2. k \in DOMAIN sleepers' /\ th'[t].succ = sleepers'[k]
        BY <1>3, <3>5, <4>1
      <4>3. th'[sleepers'[k]].wake > th'[t].wake
        BY <1>4, <3>5, <4>1
      <4>4. \A j \in 1 .. k - 1 : th'[sleepers'[j]].wake <= th'[t].wake
        BY <1>4, <3>6, <3>7, <4>1
      <4> QED BY <4>2, <4>3, <4>4
    <3> QED BY <3>8 DEF SearchEnded
  <2> QED BY <2>1, <2>2
<1>7. \A u \in Thread : th'[u].pc = "link" => cur' = u /\ th'[u].wake >= 0 /\ SearchEnded(u)'
  <2> TAKE u \in Thread
  <2>1. CASE u = t
    BY <1>1, <1>3, <1>6, <2>1
  <2>2. CASE u # t
    BY <1>1, <1>3, <1>5, <2>2
  <2> QED BY <2>1, <2>2
<1>8. /\ \A i \in DOMAIN sleepers' : th'[sleepers'[i]].wake >= 0
      /\ \A i, j \in DOMAIN sleepers' : i < j => th'[sleepers'[i]].wake <= th'[sleepers'[j]].wake
  <2>1. sleepers' = sleepers /\ DOMAIN sleepers = 1 .. L
    BY <1>1, <1>2
  <2> QED BY <1>4, <1>5, <2>1
<1> QED BY <1>7, <1>8 DEF InOrder

\* Every step keeps sleep_list in order, and wakes at a tick those that are due.
LEMMA AlarmStep ==
  ASSUME IInv, InOrder, [Next]_vars
  PROVE  InOrder' /\ OnTime
<1>1. ToSet(sleepers) \subseteq Thread /\ \A u \in ToSet(sleepers) : th[u].pc = "nap"
  <2>1. sleepers \in Seq(Thread)
    BY DEF IInv, TypeOK
  <2> QED BY <2>1, SeqLists DEF IInv, TypeOK, Sleeps
<1>2. ASSUME ~machine.disturbed => ToSet(sleepers) \subseteq ToSet(sleepers'),
             \A u \in ToSet(sleepers) : th'[u].wake = th[u].wake
      PROVE  OnTime
  BY <1>1, <1>2 DEF OnTime
<1>3. CASE Timer
  BY <1>3, TickInOrder DEF Timer
<1>4. CASE UNCHANGED vars \/ IdleBlocks
  <2>1. UNCHANGED <<machine, th, sleepers>> /\ (cur' = cur \/ cur = Idle)
    BY <1>4 DEF vars, IdleBlocks, AlarmSame, Rest
  <2>2. OnTime
    BY <1>2, <2>1
  <2>3. InOrder'
    BY <2>1, PriorityAssumption DEF InOrder, SearchEnded
  <2> QED BY <2>2, <2>3
<1>5. ASSUME NEW t \in Thread, Continue(t) \/ Begin(t) PROVE InOrder' /\ OnTime
  <2>1. /\ cur = t /\ UNCHANGED machine
        /\ \A u \in Thread \ {t} : th'[u].pc = th[u].pc /\ th'[u].wake = th[u].wake
        /\ \/ Link(t)
           \/ \E n \in machine.naps : TimerSleep(t, n)
           \/ UNCHANGED sleepers /\ th'[t].wake = th[t].wake /\ th'[t].pc # "link"
    BY <1>5, OwnStep
  <2>2. CASE Link(t)
    <3>1. th \in [Thread -> ThreadRecord] /\ th[t] \in ThreadRecord
          /\ th' = [th EXCEPT ![t].pc = "nap", ![t].succ = None]
      BY <2>2 DEF IInv, TypeOK, Link
    <3>2. th'[t].wake = th[t].wake
      BY <3>1 DEF ThreadRecord
    <3> QED BY <1>1, <1>2, <2>1, <2>2, <3>2, LinkInOrder
  <2>3. ASSUME NEW n \in machine.naps, TimerSleep(t, n) PROVE InOrder' /\ OnTime
    <3>1. t \notin ToSet(sleepers)
      BY <1>1, <2>3 DEF TimerSleep, Call, Running
    <3>2. /\ InOrder' /\ sleepers' = sleepers
          /\ \A u \in ToSet(sleepers) : u \in Thread \ {t}
      BY <1>1, <2>3, <3>1, TimerSleepInOrder DEF TimerSleep, AlarmSame
    <3>3. \A u \in ToSet(sleepers) : th'[u].wake = th[u].wake
      BY <2>1, <3>2
    <3>4. ToSet(sleepers) \subseteq ToSet(sleepers')
      BY <3>2
    <3>5. OnTime
      BY <1>2, <3>3, <3>4
    <3> QED BY <3>2, <3>5
  <2>4. CASE UNCHANGED sleepers /\ th'[t].wake = th[t].wake /\ th'[t].pc # "link"
    <3>1. \A u \in Thread : th'[u].wake = th[u].wake
      BY <2>1, <2>4
    <3>2. OnTime
      <4>1. ToSet(sleepers) \subseteq ToSet(sleepers')
        BY <2>4
      <4>2. \A u \in ToSet(sleepers) : th'[u].wake = th[u].wake
        BY <1>1, <3>1
      <4> QED BY <1>2, <4>1, <4>2
    <3>3. ASSUME ~machine.disturbed PROVE \A u \in Thread : th'[u].pc # "link"
      BY <2>1, <2>4, <3>3 DEF InOrder
    <3>4. \A i \in DOMAIN sleepers : sleepers[i] \in Thread
      BY <1>1 DEF ToSet
    <3>5. InOrder'
      BY <2>1, <2>4, <3>1, <3>3, <3>4 DEF InOrder
    <3> QED BY <3>2, <3>5
  <2> QED BY <2>1, <2>2, <2>3, <2>4
<1> QED BY <1>3, <1>4, <1>5 DEF Next

\* The machine is what it is.
LEMMA MachineStays ==
  ASSUME IInv, [Next]_vars
  PROVE  machine' = machine
<1>1. ASSUME NEW t \in Thread, Continue(t) \/ Begin(t) PROVE machine' = machine
  BY <1>1, OwnStep
<1> QED BY <1>1 DEF Next, Timer, Tick, IdleBlocks, Rest, vars

----------------------------------------------------------------------------
(* Who runs, where no lock is used *)

\* Nobody has a lock, ready_list is in order, and the running thread comes before
\* it, unless it has just changed its priority.
Urgent ==
  "lock" \notin machine.calls =>
    /\ \A t \in Thread : /\ th[t].locks = <<>> /\ th[t].pc \in {"home", "compare", "link", "nap"}
                         /\ th[t].pc = "compare" => th[t].new = th[t].prio
    /\ Ahead(ready, PriorityOf, Thread)
    /\ (cur # Idle => th[cur].pc # "compare") => Top(cur, ready, PriorityOf, Thread)

\* What is asked of the types.
LEMMA Keys ==
  ASSUME IInv
  PROVE  /\ PriorityOf \in [Thread -> Nat] /\ \A t \in Thread : PriorityOf[t] = th[t].prio
         /\ ready \in Seq(Thread) /\ ToSet(ready) \subseteq Thread /\ cur \in Thread \cup {Idle}
         /\ cur \notin ToSet(ready) /\ th \in [Thread -> ThreadRecord]
         /\ \A t \in Thread : th[t] \in ThreadRecord
<1>1. /\ th \in [Thread -> ThreadRecord] /\ \A t \in Thread : th[t] \in ThreadRecord
      /\ ready \in Seq(Thread) /\ cur \in Thread \cup {Idle} /\ cur \notin ToSet(ready)
      /\ IsInjective(ready)
  BY DEF IInv, TypeOK, OnePlace
<1>2. \A t \in Thread : th[t].prio \in Nat
  BY <1>1, PriorityAssumption DEF ThreadRecord
<1>3. PriorityOf \in [Thread -> Nat] /\ \A t \in Thread : PriorityOf[t] = th[t].prio
  BY <1>2 DEF PriorityOf
<1>4. ToSet(ready) \subseteq Thread
  BY <1>1, SeqLists
<1> QED BY <1>1, <1>3, <1>4

\* A list is in order as long as the priorities of those on it stay.
LEMMA OrderStays ==
  ASSUME NEW q, NEW key, NEW new, NEW P, \A x \in ToSet(q) : new[x] = key[x]
  PROVE  /\ Ahead(q, key, P) => Ahead(q, new, P)
         /\ \A c : Top(c, q, key, P) /\ new[c] = key[c] => Top(c, q, new, P)
<1>1. \A i \in DOMAIN q : q[i] \in ToSet(q)
  BY DEF ToSet
<1> QED BY <1>1 DEF Ahead, Top

\* Without locks threads do few things.
LEMMA LocklessSteps ==
  ASSUME IInv, Urgent, "lock" \notin machine.calls, NEW t \in Thread, Continue(t) \/ Begin(t)
  PROVE  \/ Compare(t) \/ Link(t) \/ Nap(t)
         \/ \E p \in Prios : SetPriority(t, p)
         \/ \E n \in machine.naps : TimerSleep(t, n)
<1>1. th[t].locks = <<>> /\ th[t].pc \in {"home", "compare", "link", "nap"}
  BY DEF Urgent
<1>2. \A x : ~Contains(th[t].locks, x)
  BY <1>1 DEF Contains
<1>3. CASE Continue(t)
  <2>1. /\ ~Running(t, "check") /\ ~Running(t, "donate") /\ ~Running(t, "down")
        /\ ~Running(t, "got") /\ ~Running(t, "record") /\ ~Running(t, "restore")
        /\ ~Running(t, "clear") /\ ~Running(t, "up") /\ ~Running(t, "await")
        /\ ~Running(t, "broadcast")
    BY <1>1 DEF Running
  <2> QED BY <1>3, <2>1 DEF Continue, Check, Donate, AcquireDown, Got, Record, Restore, Clear, Up,
                           CondDown, BroadcastMore
<1>4. CASE Begin(t)
  BY <1>2, <1>4 DEF Begin, Acquire, Release, CondWait, CondSignal, CondBroadcast, Call
<1> QED BY <1>3, <1>4

\* Every step keeps the most urgent thread running.
LEMMA UrgentStep ==
  ASSUME IInv, Urgent, [Next]_vars, "lock" \notin machine.calls
  PROVE  Urgent'
<1> DEFINE key == PriorityOf
<1>1. /\ key \in [Thread -> Nat] /\ \A t \in Thread : key[t] = th[t].prio
      /\ ready \in Seq(Thread) /\ ToSet(ready) \subseteq Thread /\ cur \in Thread \cup {Idle}
      /\ cur \notin ToSet(ready) /\ th \in [Thread -> ThreadRecord]
      /\ \A t \in Thread : th[t] \in ThreadRecord
  BY Keys
<1> HIDE DEF key
<1>2. /\ \A t \in Thread : /\ th[t].locks = <<>> /\ th[t].pc \in {"home", "compare", "link", "nap"}
                           /\ th[t].pc = "compare" => th[t].new = th[t].prio
      /\ Ahead(ready, key, Thread)
      /\ (cur # Idle => th[cur].pc # "compare") => Top(cur, ready, key, Thread)
  BY DEF Urgent, key
<1>3. ASSUME \A t \in Thread : /\ th'[t].locks = <<>> /\ th'[t].prio = th[t].prio
                               /\ th'[t].pc \in {"home", "compare", "link", "nap"}
                               /\ th'[t].pc = "compare" => th'[t].new = th'[t].prio,
             Ahead(ready', key, Thread),
             (cur' # Idle => th'[cur'].pc # "compare") => Top(cur', ready', key, Thread)
      PROVE  Urgent'
  <2>1. PriorityOf' = key
    BY <1>3 DEF PriorityOf, key
  <2> QED BY <1>3, <2>1 DEF Urgent
<1>4. CASE UNCHANGED vars
  BY <1>2, <1>3, <1>4 DEF vars
<1>5. CASE IdleBlocks
  <2>1. RunNext(ready) /\ UNCHANGED th
    BY <1>5 DEF IdleBlocks
  <2>2. Ahead(ready', key, Thread) /\ Top(cur', ready', key, Thread)
    BY <1>1, <1>2, <2>1, RunNextAhead
  <2> QED BY <1>2, <1>3, <2>1, <2>2
<1>6. ASSUME NEW over \in BOOLEAN, Tick(over) PROVE Urgent'
  <2> DEFINE n == Cardinality(Due(Aged))
             rung == SubSeq(sleepers, 1, n)
             woken == {u \in ToSet(rung) : sem[u].waiters # <<>>}
             q == InsertAll(ready, rung, woken, PriorityOf)
  <2>1. /\ th' = Aged
        /\ \/ YieldWith(q, PriorityOf)
           \/ ready' = q /\ UNCHANGED cur /\ ~\E u \in woken : Outranks(u, PriorityOf)
    BY <1>6 DEF Tick
  <2>2. \A t \in Thread : /\ th'[t].locks = <<>> /\ th'[t].prio = th[t].prio
                          /\ th'[t].pc \in {"home", "compare", "link", "nap"}
                          /\ th'[t].pc = th[t].pc /\ th'[t].new = th[t].new
    BY <1>1, <1>2, <2>1 DEF Aged, ThreadRecord
  <2>3. rung \in Seq(Thread) /\ woken \subseteq Thread /\ IsInjective(rung)
    <3>1. sleepers \in Seq(Thread) /\ Lists(sleepers, ToSet(sleepers)) /\ n \in 0 .. Len(sleepers)
      <4>1. sleepers \in Seq(Thread) /\ IsInjective(sleepers)
        BY DEF IInv, TypeOK
      <4> QED BY <4>1, SeqLists, DuePrefix
    <3> HIDE DEF n
    <3>2. Lists(rung, ToSet(rung)) /\ ToSet(rung) \subseteq ToSet(sleepers)
      BY <3>1, CutLists
    <3>3. ToSet(sleepers) \subseteq Thread
      BY <3>1, SeqLists DEF Lists
    <3> HIDE DEF rung
    <3>4. rung \in Seq(Thread) /\ IsInjective(rung)
      BY <3>2, <3>3, ListsSeq
    <3> QED BY <3>2, <3>3, <3>4
  <2> HIDE DEF rung
  <2>4. q \in Seq(Thread) /\ Ahead(q, key, Thread)
    BY <1>1, <1>2, <2>3, InsertAllAhead DEF key
  <2>5. CASE YieldWith(q, PriorityOf)
    <3>1. Ahead(ready', key, Thread) /\ Top(cur', ready', key, Thread)
      <4> HIDE DEF q
      <4> QED BY <1>1, <2>4, <2>5, YieldAhead DEF key
    <3> QED BY <1>2, <1>3, <2>2, <3>1
  <2>6. CASE ready' = q /\ UNCHANGED cur /\ ~\E u \in woken : Outranks(u, PriorityOf)
    <3>1. ToSet(q) \subseteq ToSet(ready) \cup woken
      <4>1. Lists(ready, ToSet(ready))
        BY SeqLists DEF IInv, TypeOK, OnePlace
      <4>2. Lists(rung, ToSet(rung))
        BY <2>3, SeqLists
      <4>3. ToSet(ready) \cap ToSet(rung) \cap woken = {}
        <5> SUFFICES ASSUME NEW u \in ToSet(ready), u \in woken PROVE FALSE
          OBVIOUS
        <5>1. u \in Thread /\ u \in Sema /\ sem[u].waiters # <<>>
          BY <2>3 DEF Sema
        <5>2. sem[u].waiters \in Seq(Thread) /\ ToSet(sem[u].waiters) \cap ToSet(ready) = {}
          BY <5>1 DEF IInv, TypeOK, OnePlace
        <5>3. PICK x \in ToSet(sem[u].waiters) : TRUE
          BY <5>1, <5>2, WaitingNobody
        <5>4. x = u
          <6>1. Waiting[u] = ToSet(sem[u].waiters)
            BY <5>1 DEF Waiting
          <6> QED BY <5>1, <5>3, <6>1 DEF IInv, Waits
        <5> QED BY <5>2, <5>3, <5>4
      <4> HIDE DEF woken
      <4>4. Lists(q, ToSet(ready) \cup (ToSet(rung) \cap woken))
        BY <4>1, <4>2, <4>3, InsertAllLists
      <4> QED BY <4>4 DEF Lists
    <3>2. ASSUME cur # Idle PROVE \A u \in woken : key[cur] >= key[u]
      <4>1. \A u \in woken : ~(key[u] > key[cur]) /\ key[u] \in Nat /\ key[cur] \in Nat
        BY <1>1, <2>3, <2>6, <3>2 DEF Outranks, key
      <4> QED BY <4>1
    <3>3. ASSUME Top(cur, ready, key, Thread) PROVE Top(cur', ready', key, Thread)
      <4> HIDE DEF q, woken
      <4> QED BY <2>6, <3>1, <3>2, <3>3 DEF Top
    <3>4. cur' # Idle => th'[cur'].pc = th[cur].pc
      BY <1>1, <2>2, <2>6
    <3> HIDE DEF q, woken
    <3> QED BY <1>2, <1>3, <2>2, <2>4, <2>6, <3>3, <3>4
  <2> HIDE DEF q, woken
  <2> QED BY <2>1, <2>5, <2>6
<1>7. ASSUME NEW t \in Thread, Compare(t) PROVE Urgent'
  <2>1. /\ cur = t /\ th[t].pc = "compare" /\ th[t].new = key[t] /\ th' = At(t, "home")
        /\ IF ready # <<>> /\ th[t].new < th[Head(ready)].prio THEN YieldWith(ready, PriorityOf)
           ELSE UNCHANGED <<cur, ready>>
    BY <1>1, <1>2, <1>7 DEF Compare, Running
  <2>2. \A u \in Thread : /\ th'[u].locks = <<>> /\ th'[u].prio = th[u].prio
                          /\ th'[u].pc \in {"home", "compare", "link", "nap"}
                          /\ th'[u].pc = "compare" => th'[u].new = th'[u].prio
    BY <1>1, <1>2, <2>1 DEF At, ThreadRecord
  <2>3. Ahead(ready', key, Thread) /\ Top(cur', ready', key, Thread)
    <3>1. CASE ready # <<>> /\ th[t].new < th[Head(ready)].prio
      BY <1>1, <2>1, <3>1, YieldAhead DEF key
    <3>2. CASE ready = <<>>
      BY <1>2, <2>1, <3>2 DEF Top, ToSet
    <3>3. CASE ready # <<>> /\ ~(th[t].new < th[Head(ready)].prio)
      <4>1. /\ Len(ready) \in Nat /\ DOMAIN ready = 1 .. Len(ready) /\ 1 \in DOMAIN ready
            /\ Head(ready) = ready[1]
        <5>1. Len(ready) \in Nat \ {0} /\ Head(ready) = ready[1]
          BY <1>1, <3>3, HeadTailProperties, LenProperties
        <5> QED BY <1>1, <5>1, LenProperties
      <4>2. \A i \in DOMAIN ready : ready[i] \in Thread
        BY <1>1, <4>1 DEF ToSet
      <4>3. key[t] >= key[ready[1]]
        BY <1>1, <2>1, <3>3, <4>1, <4>2
      <4>4. \A i \in DOMAIN ready : key[ready[1]] >= key[ready[i]]
        <5> TAKE i \in DOMAIN ready
        <5>1. i = 1 \/ 1 < i
          BY <4>1
        <5>2. key[ready[1]] \in Nat
          BY <1>1, <4>1, <4>2
        <5> QED BY <1>2, <4>1, <4>2, <5>1, <5>2 DEF Ahead
      <4>5. \A i \in DOMAIN ready : key[t] >= key[ready[i]]
        BY <1>1, <4>1, <4>2, <4>3, <4>4
      <4> QED BY <1>2, <2>1, <3>3, <4>5 DEF Top, ToSet
    <3> QED BY <3>1, <3>2, <3>3
  <2> QED BY <1>3, <2>2, <2>3
<1>8. ASSUME NEW t \in Thread, NEW p \in Prios, SetPriority(t, p) PROVE Urgent'
  <2>1. /\ cur = t /\ th[t].locks = <<>> /\ UNCHANGED <<cur, ready, machine>>
        /\ th' = [th EXCEPT ![t].base = p, ![t].new = p, ![t].pc = "compare",
                            ![t].prio = IF th[t].locks # <<>> /\ p <= @ THEN @ ELSE p]
    BY <1>2, <1>8 DEF SetPriority, Call, Running, SchedulerSame, Rest
  <2>2. /\ \A u \in Thread \ {t} : th'[u] = th[u]
        /\ th'[t].locks = <<>> /\ th'[t].pc = "compare" /\ th'[t].new = p /\ th'[t].prio = p
    BY <1>1, <2>1 DEF ThreadRecord
  <2>3. \A x \in ToSet(ready) : PriorityOf'[x] = key[x]
    BY <1>1, <2>1, <2>2 DEF PriorityOf
  <2>4. Ahead(ready', PriorityOf', Thread)
    BY <1>2, <2>1, <2>3, OrderStays
  <2>5. cur' # Idle /\ th'[cur'].pc = "compare"
    BY <2>1, <2>2, PriorityAssumption
  <2> QED BY <1>2, <2>2, <2>4, <2>5 DEF Urgent
<1>9. ASSUME NEW t \in Thread, NEW n \in machine.naps, TimerSleep(t, n) PROVE Urgent'
  <2> DEFINE next == LET later == {i \in DOMAIN sleepers : th[sleepers[i]].wake > n}
                     IN  IF later = {} THEN EndOfList ELSE sleepers[Min(later)]
  <2>1. /\ cur = t /\ th[t].pc = "home" /\ UNCHANGED <<cur, ready>>
        /\ th' = [th EXCEPT ![t].wake = n, ![t].pc = "link", ![t].succ = next]
    BY <1>9 DEF TimerSleep, Call, Running
  <2> HIDE DEF next
  <2>2. \A u \in Thread : /\ th'[u].locks = <<>> /\ th'[u].prio = th[u].prio
                          /\ th'[u].pc \in {"home", "compare", "link", "nap"}
                          /\ th'[u].pc = "compare" => th'[u].new = th'[u].prio
    <3>1. /\ \A u \in Thread \ {t} : th'[u] = th[u]
          /\ th'[t].locks = th[t].locks /\ th'[t].prio = th[t].prio /\ th'[t].pc = "link"
      BY <1>1, <2>1 DEF ThreadRecord
    <3> QED BY <1>2, <3>1
  <2>3. Top(cur', ready', key, Thread)
    BY <1>2, <2>1
  <2> QED BY <1>2, <1>3, <2>1, <2>2, <2>3
<1>10. ASSUME NEW t \in Thread, Link(t) PROVE Urgent'
  <2>1. /\ cur = t /\ th[t].pc = "link" /\ UNCHANGED <<cur, ready>>
        /\ th' = [th EXCEPT ![t].pc = "nap", ![t].succ = None]
    BY <1>10 DEF Link, Running, SchedulerSame
  <2>2. \A u \in Thread : /\ th'[u].locks = <<>> /\ th'[u].prio = th[u].prio
                          /\ th'[u].pc \in {"home", "compare", "link", "nap"}
                          /\ th'[u].pc = "compare" => th'[u].new = th'[u].prio
    <3>1. /\ \A u \in Thread \ {t} : th'[u] = th[u]
          /\ th'[t].locks = th[t].locks /\ th'[t].prio = th[t].prio /\ th'[t].pc = "nap"
      BY <1>1, <2>1 DEF ThreadRecord
    <3> QED BY <1>2, <3>1
  <2>3. Top(cur', ready', key, Thread)
    BY <1>2, <2>1
  <2> QED BY <1>2, <1>3, <2>1, <2>2, <2>3
<1>11. ASSUME NEW t \in Thread, Nap(t) PROVE Urgent'
  <2>1. /\ cur = t /\ th[t].pc = "nap"
        /\ \/ /\ th' = [th EXCEPT ![t].pc = "home", ![t].off = FALSE]
              /\ UNCHANGED <<cur, ready>>
           \/ th' = [th EXCEPT ![t].off = TRUE] /\ RunNext(ready)
    BY <1>11 DEF Nap, Down, Running
  <2>2. \A u \in Thread : /\ th'[u].locks = <<>> /\ th'[u].prio = th[u].prio
                          /\ th'[u].pc \in {"home", "compare", "link", "nap"}
                          /\ th'[u].pc = "compare" => th'[u].new = th'[u].prio
    <3>1. /\ \A u \in Thread \ {t} : th'[u] = th[u]
          /\ th'[t].locks = th[t].locks /\ th'[t].prio = th[t].prio /\ th'[t].pc \in {"home", "nap"}
      BY <1>1, <2>1 DEF ThreadRecord
    <3> QED BY <1>2, <3>1
  <2>3. Ahead(ready', key, Thread) /\ Top(cur', ready', key, Thread)
    <3>1. CASE UNCHANGED <<cur, ready>>
      BY <1>2, <2>1, <3>1
    <3>2. CASE RunNext(ready)
      BY <1>1, <1>2, <3>2, RunNextAhead
    <3> QED BY <2>1, <3>1, <3>2
  <2> QED BY <1>3, <2>2, <2>3
<1>12. ASSUME NEW t \in Thread, Continue(t) \/ Begin(t) PROVE Urgent'
  BY <1>7, <1>8, <1>9, <1>10, <1>11, <1>12, LocklessSteps
<1> QED BY <1>4, <1>5, <1>6, <1>12 DEF Next, Timer

----------------------------------------------------------------------------
(* Priority donation, in its plain form *)

\* The case that DonationPlain is about.
Plain == ~machine.nested /\ ~machine.disturbed /\ "set" \notin machine.calls

Wants(t, l) == th[t].pc = "down" /\ th[t].lk = l
Wanting == {t \in Thread : th[t].pc = "down"}

\* t is done waiting for l and has not begun to give it back.
Has(t, l) == l \in ToSet(th[t].locks) \/ (th[t].lk = l /\ th[t].pc \in {"got", "record"})

\* Only the running thread is in a call's middle, and who asks for a lock has none.
Calm(t) ==
  /\ th[t].pc # "compare"
  /\ t # cur => th[t].pc \in {"home", "down", "await", "nap", "broadcast"}
  /\ \A k, l \in ToSet(th[t].locks) : k = l
  /\ th[t].pc \in {"check", "donate", "down", "got", "record", "clear", "up", "await"} =>
       th[t].locks = <<>>
  /\ th[t].waiting # None => th[t].pc \in {"donate", "down", "got", "record"}
  /\ th[t].pc = "donate" => th[t].at = th[t].lk /\ lck[th[t].lk].holder # None

\* A lock names nobody who does not have it.
NamesOwner(l) ==
  lck[l].holder # None =>
    LET h == lck[l].holder
    IN  l \in ToSet(th[h].locks) \/ (th[h].lk = l /\ th[h].pc \in {"record", "clear"})

OneAtATime == broken = "no" /\ (\A t \in Thread : Calm(t)) /\ \A l \in Lock : NamesOwner(l)

\* d wants l, and t is no more urgent than d.
Donor(d, t, l) == Wants(d, l) /\ th[d].prio >= th[t].prio /\ (d \in Waiting[l] \/ d = cur)

\* A thread's priority is its own or that of somebody who waits for its lock.
Given ==
  \A t \in Thread :
    /\ th[t].locks = <<>> => th[t].prio = th[t].base
    /\ \A l \in ToSet(th[t].locks) :
         /\ lck[l].old = th[t].base /\ th[t].prio >= th[t].base
         /\ th[t].prio = th[t].base \/ \E d \in Thread : Donor(d, t, l)

\* Nobody who wants a lock is more urgent than who has it.
Reaching ==
  \A t, w \in Thread : \A l \in Lock : Has(t, l) /\ Wants(w, l) => th[t].prio >= th[w].prio

\* Who wants a lock that is up comes to it by the priorities: nobody waits who is
\* more urgent than all that are on the way.
FirstComes ==
  \A l \in Lock : \A w \in Waiting[l] : sem[l].value > 0 =>
    \E p \in Runnable : Wants(p, l) /\ th[p].prio >= th[w].prio

\* In ready_list, who wants a lock has nobody less urgent in front, and the running
\* thread comes before them, unless it has just given its priority back: then it
\* is about to put up a lock that somebody more urgent waits for.
InLine ==
  /\ Ahead(ready, PriorityOf, Wanting)
  /\ \/ Top(cur, ready, PriorityOf, Wanting)
     \/ /\ cur # Idle /\ th[cur].pc \in {"clear", "up"}
        /\ \E d \in Waiting[th[cur].lk] : th[d].prio > th[cur].prio

Donated == OneAtATime /\ Given /\ Reaching /\ FirstComes /\ InLine

\* Who wants and who has the locks, with what priority, stays the same, or fewer
\* have them.
SameCalls ==
  \A u \in Thread :
    /\ th'[u].prio = th[u].prio
    /\ th'[u].pc = "down" <=> th[u].pc = "down"
    /\ th[u].pc = "down" => th'[u].lk = th[u].lk
    /\ \A l \in Lock : Has(u, l)' => Has(u, l)

\* What is asked of the types, once more.
LEMMA Places ==
  ASSUME IInv
  PROVE  /\ \A s \in Sema : Waiting[s] \in SUBSET Thread
         /\ Runnable \in SUBSET Thread /\ \A u \in Runnable : u = cur \/ u \in ToSet(ready)
         /\ \A u \in ToSet(ready) : u \in Runnable /\ u # cur
         /\ Lock \subseteq Sema /\ Thread \subseteq Sema /\ Lock \cap Thread = {}
         /\ \A u \in Thread : /\ ToSet(th[u].locks) \subseteq Lock
                              /\ th[u].prio \in Nat /\ th[u].base \in Nat
<1>1. Partition(cur, ready, sem, Runnable, Waiting)
  BY PlacesPartition DEF IInv, TypeOK
<1>2. ToSet(ready) \subseteq Thread /\ cur \notin ToSet(ready) /\ Idle \notin Thread
  BY Keys, PriorityAssumption
<1>3. \A u \in Thread : /\ ToSet(th[u].locks) \subseteq Lock
                        /\ th[u].prio \in Nat /\ th[u].base \in Nat
  BY LocksListed, Keys, PriorityAssumption DEF ThreadRecord
<1>4. Lock \subseteq Sema /\ Thread \subseteq Sema /\ Lock \cap Thread = {}
  BY PriorityAssumption DEF Sema
<1>5. \A s \in Sema : Waiting[s] \in SUBSET Thread
  BY <1>1 DEF Partition
<1>6. Runnable \in SUBSET Thread
  BY <1>1 DEF Partition
<1> QED BY <1>2, <1>3, <1>4, <1>5, <1>6 DEF Runnable

\* Then who has a lock stays as urgent as who wants it.
LEMMA ReachingStays ==
  ASSUME Reaching, SameCalls
  PROVE  /\ Reaching' /\ PriorityOf' = PriorityOf /\ Wanting' = Wanting
         /\ \A u \in Thread : th'[u].prio = th[u].prio
         /\ \A u \in Thread : \A l \in Lock : Wants(u, l)' <=> Wants(u, l)
<1>1. /\ \A u \in Thread : th'[u].prio = th[u].prio
      /\ \A u \in Thread : \A l \in Lock : Wants(u, l)' <=> Wants(u, l)
      /\ \A u \in Thread : \A l \in Lock : Has(u, l)' => Has(u, l)
      /\ PriorityOf' = PriorityOf /\ Wanting' = Wanting
  BY DEF SameCalls, Wants, PriorityOf, Wanting
<1>2. Reaching'
  BY <1>1 DEF Reaching
<1> QED BY <1>1, <1>2

\* And so do the waiters of the locks that are up, where they are the same.
LEMMA CallsKeep ==
  ASSUME IInv, Reaching, FirstComes, SameCalls,
         \A l \in Lock : sem'[l].value > 0 =>
           /\ sem[l].value > 0 /\ Waiting'[l] = Waiting[l]
           /\ \A u \in Runnable : Wants(u, l) => u \in Runnable'
  PROVE  Reaching' /\ FirstComes' /\ PriorityOf' = PriorityOf /\ Wanting' = Wanting
<1>1. /\ \A s \in Sema : Waiting[s] \in SUBSET Thread
      /\ Runnable \in SUBSET Thread /\ Lock \subseteq Sema
  BY Places
<1>2. /\ Reaching' /\ PriorityOf' = PriorityOf /\ Wanting' = Wanting
      /\ \A u \in Thread : th'[u].prio = th[u].prio
      /\ \A u \in Thread : \A l \in Lock : Wants(u, l)' <=> Wants(u, l)
  BY ReachingStays
<1>3. FirstComes'
  <2> SUFFICES ASSUME NEW l \in Lock, NEW w \in Waiting'[l], sem'[l].value > 0
               PROVE  \E p \in Runnable' : Wants(p, l)' /\ th'[p].prio >= th'[w].prio
    BY DEF FirstComes
  <2>1. PICK p \in Runnable : Wants(p, l) /\ th[p].prio >= th[w].prio
    BY DEF FirstComes
  <2>2. p \in Runnable' /\ p \in Thread /\ w \in Thread
    BY <1>1, <2>1
  <2> QED BY <1>2, <2>1, <2>2
<1> QED BY <1>2, <1>3

\* Priorities stay explained while the donors wait, or go to wait.
LEMMA GivenStays ==
  ASSUME IInv, Given, SameCalls,
         \A u \in Thread : th'[u].base = th[u].base /\ th'[u].locks = th[u].locks,
         \A u \in Thread : \A l \in ToSet(th[u].locks) :
           lck'[l].old = lck[l].old /\ Waiting[l] \subseteq Waiting'[l],
         cur' = cur \/ \A l \in Lock : cur \in Thread /\ Wants(cur, l) => cur \in Waiting'[l]
  PROVE  Given'
<1>1. \A u \in Thread : ToSet(th[u].locks) \subseteq Lock
  BY Places
<1>2. /\ \A u \in Thread : th'[u].prio = th[u].prio
      /\ \A u \in Thread : \A l \in Lock : Wants(u, l)' <=> Wants(u, l)
  BY DEF SameCalls, Wants
<1>3. ASSUME NEW t \in Thread, NEW l \in ToSet(th[t].locks), NEW d \in Thread, Donor(d, t, l)
      PROVE  Donor(d, t, l)'
  <2>1. l \in Lock
    BY <1>1
  <2>2. d \in Waiting'[l] \/ d = cur'
    BY <1>3, <2>1 DEF Donor
  <2> QED BY <1>2, <1>3, <2>1, <2>2 DEF Donor
<1> QED BY <1>2, <1>3 DEF Given

\* What a step of cur's must see to, for OneAtATime.
LEMMA CalmStays ==
  ASSUME OneAtATime, NEW t \in Thread, cur = t, broken' = "no", Calm(t)',
         \A u \in Thread \ {t} : /\ th'[u].pc = th[u].pc /\ th'[u].lk = th[u].lk
                                 /\ th'[u].waiting = th[u].waiting /\ th'[u].locks = th[u].locks,
         \A l \in Lock : lck'[l].holder \in {None, t, lck[l].holder},
         \A l \in Lock : lck'[l].holder \in Thread \cup {None},
         \A l \in Lock : lck'[l].holder = t =>
           l \in ToSet(th'[t].locks) \/ (th'[t].lk = l /\ th'[t].pc \in {"record", "clear"})
  PROVE  OneAtATime'
<1>1. ASSUME NEW u \in Thread, u # t PROVE Calm(u)'
  <2>1. th[u].pc \in {"home", "down", "await", "nap", "broadcast"} /\ Calm(u)
    BY <1>1 DEF OneAtATime, Calm
  <2> QED BY <1>1, <2>1 DEF Calm
<1>2. ASSUME NEW l \in Lock PROVE NamesOwner(l)'
  <2>1. CASE lck'[l].holder = t \/ lck'[l].holder = None
    BY <2>1 DEF NamesOwner
  <2>2. CASE lck'[l].holder # t /\ lck'[l].holder # None
    <3>1. lck'[l].holder = lck[l].holder /\ lck[l].holder \in Thread \ {t} /\ NamesOwner(l)
      BY <2>2 DEF OneAtATime
    <3> QED BY <2>2, <3>1 DEF NamesOwner
  <2> QED BY <2>1, <2>2
<1> QED BY <1>1, <1>2 DEF OneAtATime

\* A step of cur's own that nobody who waits or wants a lock takes notice of.
LEMMA QuietStep ==
  ASSUME IInv, Donated, NEW t \in Thread, cur = t, UNCHANGED <<cur, ready, broken>>,
         \A u \in Thread \ {t} : th'[u] = th[u],
         th'[t].prio = th[t].prio, th'[t].base = th[t].base, th'[t].locks = th[t].locks,
         th[t].pc # "down", th'[t].pc # "down",
         th'[t].pc \in {"got", "record"} => th[t].pc \in {"got", "record"} /\ th'[t].lk = th[t].lk,
         th[t].pc \in {"clear", "up"} => th'[t].pc \in {"clear", "up"} /\ th'[t].lk = th[t].lk,
         Waiting' = Waiting, Runnable' = Runnable,
         \A l \in Lock : sem'[l].value = sem[l].value,
         \A u \in Thread : \A l \in ToSet(th[u].locks) : lck'[l].old = lck[l].old,
         OneAtATime'
  PROVE  Donated'
<1>1. SameCalls
  BY DEF SameCalls, Has
<1>2. /\ Given' /\ Reaching' /\ FirstComes'
      /\ PriorityOf' = PriorityOf /\ Wanting' = Wanting
  <2>1. Given'
    BY <1>1, GivenStays DEF Donated
  <2> QED BY <1>1, <2>1, CallsKeep DEF Donated
<1>3. InLine'
  <2>1. /\ \A s \in Sema : Waiting[s] \in SUBSET Thread
        /\ th[t].pc \in {"clear", "up"} => th[t].lk \in Sema
    BY Places DEF IInv, Calls
  <2>2. \A u \in Thread : th'[u].prio = th[u].prio
    OBVIOUS
  <2>3. CASE Top(cur, ready, PriorityOf, Wanting)
    BY <1>2, <2>3 DEF InLine, Donated
  <2>4. CASE th[t].pc \in {"clear", "up"} /\ \E d \in Waiting[th[t].lk] : th[d].prio > th[t].prio
    <3>1. PICK d \in Waiting[th[t].lk] : th[d].prio > th[t].prio
      BY <2>4
    <3>2. d \in Waiting'[th'[t].lk] /\ th'[d].prio > th'[t].prio
      BY <2>1, <2>2, <2>4, <3>1
    <3>3. Ahead(ready', PriorityOf', Wanting') /\ cur' = t /\ t # Idle
      BY <1>2, PriorityAssumption DEF InLine, Donated
    <3> QED BY <2>4, <3>2, <3>3 DEF InLine
  <2> QED BY <2>3, <2>4 DEF InLine, Donated
<1> QED BY <1>2, <1>3 DEF Donated

\* The same, outside of the steps of lock_acquire and lock_release that go on with
\* a lock at hand.
LEMMA QuietCall ==
  ASSUME IInv, Donated, NEW t \in Thread, cur = t, UNCHANGED <<cur, ready, lck, broken>>,
         \A u \in Thread \ {t} : th'[u] = th[u],
         th'[t].prio = th[t].prio, th'[t].base = th[t].base, th'[t].locks = th[t].locks,
         th[t].pc \notin {"down", "record", "clear", "up"},
         th'[t].pc \notin {"down", "got", "record"},
         Waiting' = Waiting, Runnable' = Runnable,
         \A l \in Lock : sem'[l].value = sem[l].value,
         Calm(t)'
  PROVE  Donated'
<1>1. \A l \in Lock : lck[l].holder \in Thread \cup {None}
  BY DEF IInv, TypeOK, LockRecord
<1>2. OneAtATime /\ broken = "no"
  BY DEF Donated, OneAtATime
<1>3. \A l \in Lock : lck[l].holder = t => l \in ToSet(th[t].locks)
  BY <1>2, PriorityAssumption DEF OneAtATime, NamesOwner
<1>4. OneAtATime'
  BY <1>1, <1>2, <1>3, CalmStays
<1> QED BY <1>4, QuietStep

\* lock_acquire and lock_release begin.
LEMMA AcquireDonated ==
  ASSUME IInv, Donated, Plain, NEW t \in Thread,
         \E l \in Lock : Acquire(t, l) \/ Release(t, l)
  PROVE  Donated'
<1>1. PICK l \in Lock : Acquire(t, l) \/ Release(t, l)
  OBVIOUS
<1>2. /\ cur = t /\ th[t].pc = "home" /\ UNCHANGED <<cur, ready, sem, lck, broken>>
      /\ th \in [Thread -> ThreadRecord] /\ th[t] \in ThreadRecord
  BY <1>1 DEF Acquire, Release, Call, Running, SchedulerSame, IInv, TypeOK
<1>3. \A u \in Thread \ {t} : th'[u] = th[u]
  BY <1>1, <1>2 DEF Acquire, Release
<1>4. /\ th'[t].pc \in {"check", "restore"} /\ th'[t].prio = th[t].prio
      /\ th'[t].base = th[t].base /\ th'[t].locks = th[t].locks /\ th'[t].waiting = th[t].waiting
  <2>1. CASE Acquire(t, l)
    BY <1>2, <2>1 DEF Acquire, ThreadRecord
  <2>2. CASE Release(t, l)
    BY <1>2, <2>2 DEF Release, ThreadRecord
  <2> QED BY <1>1, <2>1, <2>2
<1>5. th'[t].pc = "check" => th[t].locks = <<>>
  <2> SUFFICES ASSUME th'[t].pc = "check" PROVE th[t].locks = <<>>
    OBVIOUS
  <2>1. Acquire(t, l)
    BY <1>1, <1>2 DEF Release, ThreadRecord
  <2>2. DOMAIN th[t].locks = {}
    BY <2>1 DEF Acquire, MayAcquire, Plain
  <2>3. th[t].locks \in Seq(Lock) /\ DOMAIN th[t].locks = 1 .. Len(th[t].locks)
    BY LocksListed, LenProperties
  <2> QED BY <2>2, <2>3, EmptySeq
<1>6. Calm(t)'
  <2>1. Calm(t)
    BY DEF Donated, OneAtATime
  <2> QED BY <1>2, <1>4, <1>5, <2>1 DEF Calm
<1>7. Waiting' = Waiting /\ Runnable' = Runnable
  BY <1>2 DEF Waiting, Runnable
<1> QED BY <1>2, <1>3, <1>4, <1>6, <1>7, QuietCall

\* lock_acquire finds a holder, to whom it will donate.
LEMMA CheckDonates ==
  ASSUME IInv, Donated, NEW t \in Thread, Check(t), lck[th[t].lk].holder # None
  PROVE  Donated'
<1>1. /\ cur = t /\ th[t].pc = "check" /\ UNCHANGED <<cur, ready, sem, lck, broken>>
      /\ th \in [Thread -> ThreadRecord] /\ th[t] \in ThreadRecord
      /\ th' = [th EXCEPT ![t].pc = "donate", ![t].waiting = th[t].lk, ![t].at = th[t].lk]
  BY DEF Check, Running, SchedulerSame, IInv, TypeOK
<1>2. /\ \A u \in Thread \ {t} : th'[u] = th[u]
      /\ th'[t].pc = "donate" /\ th'[t].prio = th[t].prio /\ th'[t].at = th[t].lk
      /\ th'[t].base = th[t].base /\ th'[t].locks = th[t].locks /\ th'[t].lk = th[t].lk
  BY <1>1 DEF ThreadRecord
<1>3. Calm(t)'
  <2>1. Calm(t)
    BY DEF Donated, OneAtATime
  <2> QED BY <1>1, <1>2, <2>1 DEF Calm
<1>4. Waiting' = Waiting /\ Runnable' = Runnable
  BY <1>1 DEF Waiting, Runnable
<1> QED BY <1>1, <1>2, <1>3, <1>4, QuietCall

\* The lock is taken over.
LEMMA GotDonated ==
  ASSUME IInv, Donated, NEW t \in Thread, Got(t)
  PROVE  Donated'
<1> DEFINE l == th[t].lk
<1>1. /\ cur = t /\ th[t].pc = "got" /\ l \in Lock
      /\ th \in [Thread -> ThreadRecord] /\ lck \in [Lock -> LockRecord]
      /\ th[t] \in ThreadRecord /\ th' = At(t, "record")
      /\ UNCHANGED <<cur, ready, sem, broken>> /\ lck' = [lck EXCEPT ![l].holder = t]
  BY DEF IInv, TypeOK, Calls, Got, Running, SchedulerSame
<1>2. /\ \A u \in Thread \ {t} : th'[u] = th[u]
      /\ th'[t].pc = "record" /\ th'[t].lk = l /\ th'[t].prio = th[t].prio
      /\ th'[t].base = th[t].base /\ th'[t].locks = th[t].locks /\ th'[t].waiting = th[t].waiting
  BY <1>1 DEF At, ThreadRecord
<1> HIDE DEF l
<1>3. /\ \A k \in Lock : lck'[k].old = lck[k].old
      /\ \A k \in Lock : lck'[k].holder = IF k = l THEN t ELSE lck[k].holder
      /\ \A k \in Lock : lck[k].holder \in Thread \cup {None}
  BY <1>1 DEF LockRecord
<1>4. OneAtATime /\ broken = "no" /\ Calm(t)
  BY DEF Donated, OneAtATime
<1>5. Calm(t)'
  BY <1>1, <1>2, <1>4 DEF Calm
<1>6. \A k \in Lock : lck'[k].holder = t =>
        k \in ToSet(th'[t].locks) \/ (th'[t].lk = k /\ th'[t].pc \in {"record", "clear"})
  BY <1>1, <1>2, <1>3, <1>4, PriorityAssumption DEF OneAtATime, NamesOwner
<1>7. OneAtATime'
  BY <1>1, <1>2, <1>3, <1>4, <1>5, <1>6, CalmStays
<1>8. Waiting' = Waiting /\ Runnable' = Runnable
  BY <1>1 DEF Waiting, Runnable
<1>9. /\ \A u \in Thread : \A k \in ToSet(th[u].locks) : lck'[k].old = lck[k].old
      /\ \A k \in Lock : sem'[k].value = sem[k].value
  BY <1>1, <1>3, Places
<1>10. th'[t].lk = th[t].lk
  BY <1>2 DEF l
<1> QED BY <1>1, <1>2, <1>7, <1>8, <1>9, <1>10, QuietStep

\* The lock names nobody any more.
LEMMA ClearDonated ==
  ASSUME IInv, Donated, NEW t \in Thread, Clear(t)
  PROVE  Donated'
<1> DEFINE l == th[t].lk
<1>1. /\ cur = t /\ th[t].pc = "clear" /\ l \in Lock
      /\ th \in [Thread -> ThreadRecord] /\ lck \in [Lock -> LockRecord]
      /\ th[t] \in ThreadRecord /\ th' = At(t, "up")
      /\ UNCHANGED <<cur, ready, sem, broken>>
      /\ lck' = [lck EXCEPT ![l] = [holder |-> None, highest |-> Unset, old |-> Unset]]
  BY DEF IInv, TypeOK, Calls, Clear, Running, SchedulerSame
<1>2. /\ \A u \in Thread \ {t} : th'[u] = th[u]
      /\ th'[t].pc = "up" /\ th'[t].lk = l /\ th'[t].prio = th[t].prio
      /\ th'[t].base = th[t].base /\ th'[t].locks = th[t].locks /\ th'[t].waiting = th[t].waiting
  BY <1>1 DEF At, ThreadRecord
<1>3. \A u \in Thread : l \notin ToSet(th[u].locks)
  <2>1. Holds(t, l) /\ l \notin ToSet(th[t].locks)
    BY <1>1 DEF Holds, IInv, Calls
  <2> QED BY <1>1, <2>1 DEF Holds, IInv, OneOwner
<1> HIDE DEF l
<1>4. /\ \A k \in Lock \ {l} : lck'[k] = lck[k]
      /\ \A k \in Lock : lck'[k].holder = IF k = l THEN None ELSE lck[k].holder
      /\ \A k \in Lock : lck[k].holder \in Thread \cup {None}
  BY <1>1 DEF LockRecord
<1>5. OneAtATime /\ broken = "no" /\ Calm(t) /\ th[t].locks = <<>>
  BY <1>1 DEF Donated, OneAtATime, Calm
<1>6. Calm(t)'
  BY <1>1, <1>2, <1>5 DEF Calm
<1>7. \A k \in Lock : lck'[k].holder # t
  <2> SUFFICES ASSUME NEW k \in Lock, k # l, lck[k].holder = t PROVE FALSE
    BY <1>4, PriorityAssumption
  <2>1. k \notin ToSet(th[t].locks)
    BY <1>5 DEF ToSet
  <2> QED BY <1>5, <2>1, PriorityAssumption DEF OneAtATime, NamesOwner, l
<1>8. OneAtATime'
  BY <1>1, <1>2, <1>4, <1>5, <1>6, <1>7, CalmStays
<1>9. Waiting' = Waiting /\ Runnable' = Runnable
  BY <1>1 DEF Waiting, Runnable
<1>10. /\ \A u \in Thread : \A k \in ToSet(th[u].locks) : lck'[k].old = lck[k].old
       /\ \A k \in Lock : sem'[k].value = sem[k].value
  <2>1. \A u \in Thread : ToSet(th[u].locks) \subseteq Lock
    BY Places
  <2> QED BY <1>1, <1>3, <1>4, <2>1
<1>11. th'[t].lk = th[t].lk
  BY <1>2 DEF l
<1> QED BY <1>1, <1>2, <1>8, <1>9, <1>10, <1>11, QuietStep

\* cond_wait and timer_sleep begin, with the caller's own semaphore.
LEMMA OwnSemaDonated ==
  ASSUME IInv, Donated, NEW t \in Thread,
         CondWait(t) \/ \E n \in machine.naps : TimerSleep(t, n)
  PROVE  Donated'
<1>1. /\ cur = t /\ th[t].pc = "home" /\ UNCHANGED <<cur, ready, lck, broken>>
      /\ th \in [Thread -> ThreadRecord] /\ th[t] \in ThreadRecord
      /\ sem' = [sem EXCEPT ![t] = [value |-> 0, waiters |-> <<>>]]
  BY DEF CondWait, TimerSleep, Call, Running, IInv, TypeOK
<1>2. \A u \in Thread \ {t} : th'[u] = th[u]
  BY <1>1 DEF CondWait, TimerSleep
<1>3. /\ th'[t].pc \in {"restore", "link"} /\ th'[t].prio = th[t].prio
      /\ th'[t].base = th[t].base /\ th'[t].locks = th[t].locks /\ th'[t].waiting = th[t].waiting
  <2>1. CASE CondWait(t)
    BY <1>1, <2>1 DEF CondWait, ThreadRecord
  <2>2. ASSUME NEW n \in machine.naps, TimerSleep(t, n)
        PROVE  /\ th'[t].pc \in {"restore", "link"} /\ th'[t].prio = th[t].prio
               /\ th'[t].base = th[t].base /\ th'[t].locks = th[t].locks
               /\ th'[t].waiting = th[t].waiting
    <3> DEFINE next == LET later == {i \in DOMAIN sleepers : th[sleepers[i]].wake > n}
                       IN  IF later = {} THEN EndOfList ELSE sleepers[Min(later)]
    <3>1. th' = [th EXCEPT ![t].wake = n, ![t].pc = "link", ![t].succ = next]
      BY <2>2 DEF TimerSleep
    <3> HIDE DEF next
    <3> QED BY <1>1, <3>1 DEF ThreadRecord
  <2> QED BY <2>1, <2>2
<1>4. Calm(t)'
  <2>1. Calm(t)
    BY DEF Donated, OneAtATime
  <2> QED BY <1>1, <1>3, <2>1 DEF Calm
<1>5. /\ Waiting' = Waiting /\ Runnable' = Runnable
      /\ \A s \in Sema : sem'[s].value = IF s = t THEN 0 ELSE sem[s].value
  BY <1>1, OwnSema
<1>6. \A l \in Lock : sem'[l].value = sem[l].value
  BY <1>5, Places
<1> QED BY <1>1, <1>2, <1>3, <1>4, <1>5, <1>6, QuietCall

\* The sleeper is linked in.
LEMMA LinkDonated ==
  ASSUME IInv, InOrder, Donated, Plain, NEW t \in Thread, Link(t)
  PROVE  Donated'
<1>1. /\ cur = t /\ th[t].pc = "link" /\ UNCHANGED <<cur, ready, sem, lck>>
      /\ th \in [Thread -> ThreadRecord] /\ th[t] \in ThreadRecord
      /\ th' = [th EXCEPT ![t].pc = "nap", ![t].succ = None]
  BY DEF Link, Running, SchedulerSame, IInv, TypeOK
<1>2. broken' = broken
  BY LinkInOrder DEF Plain
<1>3. /\ \A u \in Thread \ {t} : th'[u] = th[u]
      /\ th'[t].pc = "nap" /\ th'[t].prio = th[t].prio
      /\ th'[t].base = th[t].base /\ th'[t].locks = th[t].locks /\ th'[t].waiting = th[t].waiting
  BY <1>1 DEF ThreadRecord
<1>4. Calm(t)'
  <2>1. Calm(t)
    BY DEF Donated, OneAtATime
  <2> QED BY <1>1, <1>3, <2>1 DEF Calm
<1>5. Waiting' = Waiting /\ Runnable' = Runnable
  BY <1>1 DEF Waiting, Runnable
<1> QED BY <1>1, <1>2, <1>3, <1>4, <1>5, QuietCall

\* Now the running thread wants a lock, and who has it is as urgent.
LEMMA WantStep ==
  ASSUME IInv, Donated, NEW t \in Thread, cur = t, th[t].pc \in {"check", "donate"},
         UNCHANGED <<cur, ready, sem, broken>>,
         \A u \in Thread \ {t} :
           /\ th'[u].pc = th[u].pc /\ th'[u].lk = th[u].lk /\ th'[u].waiting = th[u].waiting
           /\ th'[u].locks = th[u].locks /\ th'[u].base = th[u].base
           /\ \/ th'[u].prio = th[u].prio
              \/ /\ th'[u].prio = th[t].prio /\ th[t].prio >= th[u].prio
                 /\ th[t].lk \in ToSet(th[u].locks),
         th'[t].pc = "down", th'[t].lk = th[t].lk, th'[t].locks = th[t].locks,
         th'[t].prio = th[t].prio, th'[t].base = th[t].base,
         \A u \in Thread \ {t} : Has(u, th[t].lk) => th'[u].prio >= th[t].prio,
         \A k \in Lock : lck'[k].holder = lck[k].holder /\ lck'[k].old = lck[k].old
  PROVE  Donated'
<1> DEFINE l == th[t].lk
<1>1. /\ l \in Lock /\ OneAtATime /\ broken = "no" /\ Given /\ Reaching /\ FirstComes /\ InLine
      /\ \A u \in Thread : Calm(u)
  BY DEF IInv, Calls, Donated, OneAtATime
<1>2. /\ \A u \in Thread : th[u].prio \in Nat /\ th'[u].prio \in Nat /\ th'[u].prio >= th[u].prio
      /\ \A u \in Thread : ToSet(th[u].locks) \subseteq Lock
      /\ \A s \in Sema : Waiting[s] \in SUBSET Thread
      /\ Runnable \in SUBSET Thread /\ Lock \subseteq Sema
  <2>1. /\ \A u \in Thread : th[u].prio \in Nat /\ ToSet(th[u].locks) \subseteq Lock
        /\ \A s \in Sema : Waiting[s] \in SUBSET Thread
        /\ Runnable \in SUBSET Thread /\ Lock \subseteq Sema
    BY Places
  <2> QED BY <2>1
<1>3. Waiting' = Waiting /\ Runnable' = Runnable
  BY DEF Waiting, Runnable
<1>4. \A u \in Thread : th[u].locks = <<>> =>
        ToSet(th[u].locks) = {} /\ th'[u].prio = th[u].prio
  <2>1. ToSet(<<>>) = {}
    BY DEF ToSet
  <2> QED BY <2>1
<1>5. /\ th[t].locks = <<>>
      /\ \A u \in Thread : th[u].pc = "down" => u # t /\ th'[u].prio = th[u].prio
  BY <1>1, <1>4 DEF Calm
<1>6. /\ \A u \in Thread \ {t} : \A k \in Lock : Wants(u, k)' <=> Wants(u, k)
      /\ \A k \in Lock : ~Wants(t, k) /\ (Wants(t, k)' <=> k = l)
      /\ \A u \in Thread : \A k \in Lock : Has(u, k)' <=> Has(u, k)
      /\ \A k \in Lock : ~Has(t, k)
  BY <1>4, <1>5 DEF Wants, Has
<1> HIDE DEF l
<1>7. OneAtATime'
  <2>1. Calm(t)'
    <3>0. th'[t].locks = <<>> /\ ToSet(th'[t].locks) = {}
      BY <1>4, <1>5
    <3>1. /\ th'[t].pc = "down" /\ th'[t].locks = <<>> /\ cur' = t
          /\ \A k, m \in ToSet(th'[t].locks) : k = m
      BY <3>0
    <3> QED BY <3>1 DEF Calm
  <2>2. \A k \in Lock : lck[k].holder \in Thread \cup {None}
    BY DEF IInv, TypeOK, LockRecord
  <2>3. \A k \in Lock : lck[k].holder = t => k \in ToSet(th[t].locks)
    BY <1>1, PriorityAssumption DEF OneAtATime, NamesOwner
  <2> QED BY <1>1, <2>1, <2>2, <2>3, CalmStays
<1>8. Given'
  <2> SUFFICES ASSUME NEW u \in Thread
               PROVE  /\ th'[u].locks = <<>> => th'[u].prio = th'[u].base
                      /\ \A k \in ToSet(th'[u].locks) :
                           /\ lck'[k].old = th'[u].base /\ th'[u].prio >= th'[u].base
                           /\ th'[u].prio = th'[u].base \/ \E d \in Thread : Donor(d, u, k)'
    BY DEF Given
  <2>1. th'[u].locks = th[u].locks /\ th'[u].base = th[u].base
    OBVIOUS
  <2>2. th[u].locks = <<>> => th'[u].prio = th'[u].base
    BY <1>1, <1>4, <2>1 DEF Given
  <2>3. ASSUME NEW k \in ToSet(th[u].locks)
        PROVE  /\ lck'[k].old = th'[u].base /\ th'[u].prio >= th'[u].base
               /\ th'[u].prio = th'[u].base \/ \E d \in Thread : Donor(d, u, k)'
    <3>1. k \in Lock /\ u # t /\ lck[k].old = th[u].base /\ th[u].prio >= th[u].base
      BY <1>1, <1>2, <1>4, <1>5 DEF Given
    <3>4. th'[u].prio >= th'[u].base
      <4>1. th[u].base \in Nat
        BY Places
      <4> QED BY <1>2, <2>1, <3>1, <4>1
    <3>2. CASE th'[u].prio = th[u].prio
      <4>1. ASSUME NEW d \in Thread, Donor(d, u, k) PROVE Donor(d, u, k)'
        <5>1. d # t /\ d \in Waiting[k] /\ th'[d].prio = th[d].prio /\ Wants(d, k)'
          BY <1>5, <1>6, <3>1, <4>1 DEF Donor, Wants
        <5> QED BY <1>3, <3>2, <4>1, <5>1 DEF Donor
      <4> QED BY <1>1, <2>1, <3>1, <3>2, <3>4, <4>1 DEF Given
    <3>3. CASE th'[u].prio = th[t].prio /\ l \in ToSet(th[u].locks)
      <4>1. k = l
        BY <1>1, <3>3 DEF Calm
      <4>2. Wants(t, k)' /\ th'[t].prio >= th'[u].prio
        BY <1>1, <1>2, <1>6, <3>3, <4>1
      <4>3. Donor(t, u, k)'
        BY <4>2 DEF Donor
      <4> QED BY <2>1, <3>1, <3>4, <4>3
    <3> QED BY <3>1, <3>2, <3>3 DEF l
  <2> QED BY <2>1, <2>2, <2>3
<1>9. Reaching'
  <2> SUFFICES ASSUME NEW u \in Thread, NEW w \in Thread, NEW k \in Lock, Has(u, k)', Wants(w, k)'
               PROVE  th'[u].prio >= th'[w].prio
    BY DEF Reaching
  <2>1. Has(u, k) /\ u # t
    BY <1>6
  <2>2. CASE w = t
    BY <1>6, <2>1, <2>2 DEF l
  <2>3. CASE w # t
    <3>1. Wants(w, k) /\ th'[w].prio = th[w].prio
      BY <1>5, <1>6, <2>3 DEF Wants
    <3>2. th[u].prio >= th[w].prio
      BY <1>1, <2>1, <3>1 DEF Reaching
    <3> QED BY <1>2, <3>1, <3>2
  <2> QED BY <2>2, <2>3
<1>10. FirstComes'
  <2> SUFFICES ASSUME NEW k \in Lock, NEW w \in Waiting[k], sem[k].value > 0
               PROVE  \E p \in Runnable : Wants(p, k)' /\ th'[p].prio >= th'[w].prio
    BY <1>3 DEF FirstComes
  <2>1. PICK p \in Runnable : Wants(p, k) /\ th[p].prio >= th[w].prio
    BY <1>1 DEF FirstComes
  <2>2. p \in Thread /\ w \in Thread /\ p # t /\ th'[p].prio = th[p].prio
    BY <1>2, <1>5, <2>1 DEF Wants
  <2>3. th[w].pc = "down"
    BY <1>2 DEF IInv, Waits
  <2> QED BY <1>5, <1>6, <2>1, <2>2, <2>3
<1>11. InLine'
  <2>1. /\ ready \in Seq(Thread) /\ ToSet(ready) \subseteq Thread /\ t \notin ToSet(ready)
        /\ \A u \in Thread : PriorityOf[u] = th[u].prio
    BY Keys
  <2>2. \A u \in Thread : PriorityOf'[u] = th'[u].prio
    BY DEF PriorityOf
  <2>3. \A u \in ToSet(ready) : u \in Wanting' <=> u \in Wanting
    BY <2>1 DEF Wanting
  <2>4. \A u \in Wanting : th'[u].prio = th[u].prio
    BY <1>5 DEF Wanting
  <2>5. \A i \in DOMAIN ready : ready[i] \in ToSet(ready)
    BY DEF ToSet
  <2>6. Ahead(ready, PriorityOf, Wanting) /\ Top(t, ready, PriorityOf, Wanting)
    BY <1>1 DEF InLine
  <2>7. Ahead(ready, PriorityOf', Wanting')
    <3> SUFFICES ASSUME NEW i \in DOMAIN ready, NEW j \in DOMAIN ready, j < i,
                        ready[i] \in Wanting'
                 PROVE  PriorityOf'[ready[j]] >= PriorityOf'[ready[i]]
      BY DEF Ahead
    <3>1. ready[i] \in Wanting /\ ready[i] \in Thread /\ ready[j] \in Thread
      BY <2>1, <2>3, <2>5
    <3>2. th[ready[j]].prio >= th[ready[i]].prio
      BY <2>1, <2>6, <3>1 DEF Ahead
    <3>3. th'[ready[j]].prio >= th[ready[i]].prio
      BY <1>2, <3>1, <3>2
    <3> QED BY <2>2, <2>4, <3>1, <3>3
  <2>8. Top(t, ready, PriorityOf', Wanting')
    <3> SUFFICES ASSUME NEW x \in ToSet(ready) \cap Wanting', t # Idle
                 PROVE  PriorityOf'[t] >= PriorityOf'[x]
      BY DEF Top
    <3>1. x \in Wanting /\ x \in Thread /\ PriorityOf[t] >= PriorityOf[x]
      BY <2>1, <2>3, <2>6 DEF Top
    <3> QED BY <2>1, <2>2, <2>4, <3>1
  <2> QED BY <2>7, <2>8 DEF InLine
<1> QED BY <1>7, <1>8, <1>9, <1>10, <1>11 DEF Donated

\* Who has a lock that the running thread asks for is the one it names.
LEMMA OwnerIsNamed ==
  ASSUME IInv, Donated, NEW t \in Thread, cur = t, th[t].pc \in {"check", "donate"},
         NEW u \in Thread, Has(u, th[t].lk)
  PROVE  u # t /\ th[t].lk \in ToSet(th[u].locks) /\ lck[th[t].lk].holder = u
<1>1. th[t].lk \in Lock \ ToSet(th[t].locks)
  BY DEF IInv, Calls
<1>2. u # t
  BY <1>1 DEF Has
<1>3. th[u].pc \notin {"got", "record", "clear", "up"}
  BY <1>2 DEF Donated, OneAtATime, Calm
<1>4. th[t].lk \in ToSet(th[u].locks)
  BY <1>3 DEF Has
<1> QED BY <1>1, <1>2, <1>3, <1>4 DEF IInv, OneOwner, Holds

\* lock_acquire finds no holder.
LEMMA CheckPasses ==
  ASSUME IInv, Donated, NEW t \in Thread, Check(t), lck[th[t].lk].holder = None
  PROVE  Donated'
<1>1. /\ cur = t /\ th[t].pc = "check" /\ UNCHANGED <<cur, ready, sem, lck, broken>>
      /\ th \in [Thread -> ThreadRecord] /\ th[t] \in ThreadRecord /\ th' = At(t, "down")
  BY DEF Check, Running, SchedulerSame, IInv, TypeOK
<1>2. /\ \A u \in Thread \ {t} : th'[u] = th[u]
      /\ th'[t].pc = "down" /\ th'[t].prio = th[t].prio /\ th'[t].lk = th[t].lk
      /\ th'[t].base = th[t].base /\ th'[t].locks = th[t].locks
  BY <1>1 DEF At, ThreadRecord
<1>3. \A u \in Thread \ {t} : ~Has(u, th[t].lk)
  BY <1>1, OwnerIsNamed, PriorityAssumption
<1> QED BY <1>1, <1>2, <1>3, WantStep

\* The holder gets the priority, or is as urgent already; it waits for no lock.
LEMMA DonateDonated ==
  ASSUME IInv, Donated, NEW t \in Thread, Donate(t)
  PROVE  Donated'
<1> DEFINE h == lck[th[t].at].holder
<1>1. /\ cur = t /\ th[t].pc = "donate" /\ th[t].at \in Lock
      /\ UNCHANGED <<machine, cur, ready, sem, sleepers, condq>>
      /\ \/ h = None /\ broken' = "null holder" /\ UNCHANGED <<th, lck>>
         \/ Gives(t, h)
         \/ GivesNothing(t, h)
  BY DonateEffect
<1>2. /\ th[t].at = th[t].lk /\ h # None /\ OneAtATime
      /\ \A u \in Thread : th[u].prio \in Nat
  <2>1. Calm(t)
    BY DEF Donated, OneAtATime
  <2> QED BY <1>1, <2>1, Places DEF Calm, Donated
<1>3. /\ th \in [Thread -> ThreadRecord] /\ th[t] \in ThreadRecord
      /\ h \in Thread => th[h] \in ThreadRecord
  BY Keys
<1> HIDE DEF h
<1>4. CASE Gives(t, h)
  <2>1. /\ h \in Thread \ {t} /\ th[t].prio > th[h].prio /\ UNCHANGED broken
        /\ \A u \in Thread \ {t, h} : th'[u] = th[u]
        /\ th'[h] = [th[h] EXCEPT !.prio = th[t].prio]
        /\ th'[t] = [th[t] EXCEPT !.pc = IF th[h].waiting = None THEN "down" ELSE "donate",
                                  !.at = th[h].waiting]
        /\ \A k \in Lock : lck'[k].holder = lck[k].holder /\ lck'[k].old = lck[k].old
    BY <1>4 DEF Gives
  <2>2. th[t].lk \in ToSet(th[h].locks) /\ th[h].waiting = None
    <3>1. NamesOwner(th[t].lk) /\ lck[th[t].lk].holder = h
      BY <1>1, <1>2 DEF OneAtATime, h
    <3>2. Calm(h)
      BY <1>2, <2>1 DEF OneAtATime
    <3>3. th[t].lk \in ToSet(th[h].locks)
      BY <1>1, <1>2, <2>1, <3>1, <3>2 DEF NamesOwner, Calm
    <3>4. th[h].locks # <<>>
      BY <3>3 DEF ToSet
    <3> QED BY <3>2, <3>3, <3>4 DEF Calm
  <2>3. /\ th'[t].pc = "down" /\ th'[t].prio = th[t].prio /\ th'[t].lk = th[t].lk
        /\ th'[t].base = th[t].base /\ th'[t].locks = th[t].locks
    BY <1>3, <2>1, <2>2 DEF ThreadRecord
  <2>4. /\ th'[h].pc = th[h].pc /\ th'[h].lk = th[h].lk /\ th'[h].waiting = th[h].waiting
        /\ th'[h].locks = th[h].locks /\ th'[h].base = th[h].base /\ th'[h].prio = th[t].prio
        /\ th[t].prio >= th[h].prio /\ th[t].prio >= th[t].prio
    BY <1>2, <1>3, <2>1 DEF ThreadRecord
  <2>5. \A u \in Thread \ {t} : Has(u, th[t].lk) => u = h
    BY <1>1, <1>2, OwnerIsNamed DEF h
  <2>6. \A u \in Thread \ {t} :
          /\ th'[u].pc = th[u].pc /\ th'[u].lk = th[u].lk /\ th'[u].waiting = th[u].waiting
          /\ th'[u].locks = th[u].locks /\ th'[u].base = th[u].base
          /\ \/ th'[u].prio = th[u].prio
             \/ /\ th'[u].prio = th[t].prio /\ th[t].prio >= th[u].prio
                /\ th[t].lk \in ToSet(th[u].locks)
    BY <2>1, <2>2, <2>4
  <2>7. \A u \in Thread \ {t} : Has(u, th[t].lk) => th'[u].prio >= th[t].prio
    BY <2>4, <2>5
  <2> QED BY <1>1, <2>1, <2>3, <2>6, <2>7, WantStep
<1>5. CASE GivesNothing(t, h)
  <2>1. /\ h \in Thread /\ th[h].prio >= th[t].prio /\ UNCHANGED <<broken, lck>>
        /\ th' = [th EXCEPT ![t].pc = "down", ![t].at = None]
    BY <1>5 DEF GivesNothing
  <2>2. /\ \A u \in Thread \ {t} : th'[u] = th[u]
        /\ th'[t].pc = "down" /\ th'[t].prio = th[t].prio /\ th'[t].lk = th[t].lk
        /\ th'[t].base = th[t].base /\ th'[t].locks = th[t].locks
    BY <1>3, <2>1 DEF ThreadRecord
  <2>3. \A u \in Thread \ {t} : Has(u, th[t].lk) => u = h
    BY <1>1, <1>2, OwnerIsNamed DEF h
  <2>4. \A u \in Thread \ {t} : Has(u, th[t].lk) => th'[u].prio >= th[t].prio
    BY <2>1, <2>2, <2>3
  <2> QED BY <1>1, <2>1, <2>2, <2>4, WantStep
<1> QED BY <1>1, <1>2, <1>4, <1>5

\* Who gets the lock is as urgent as all who want it.
LEMMA AcquirePasses ==
  ASSUME IInv, Donated, NEW t \in Thread, AcquireDown(t), sem[th[t].lk].value > 0
  PROVE  Donated'
<1> DEFINE l == th[t].lk
<1>1. /\ cur = t /\ th[t].pc = "down" /\ l \in Lock /\ sem[l].value > 0
      /\ th \in [Thread -> ThreadRecord] /\ th[t] \in ThreadRecord
      /\ UNCHANGED <<cur, ready, lck, broken>> /\ Down(t, l, "got")
      /\ th' = [th EXCEPT ![t].pc = "got", ![t].off = FALSE]
  BY DEF IInv, TypeOK, Calls, AcquireDown, Down, Running
<1>2. /\ \A u \in Thread \ {t} : th'[u] = th[u]
      /\ th'[t].pc = "got" /\ th'[t].lk = l /\ th'[t].prio = th[t].prio
      /\ th'[t].base = th[t].base /\ th'[t].locks = th[t].locks /\ th'[t].waiting = th[t].waiting
  BY <1>1 DEF ThreadRecord
<1>3. /\ \A s \in Sema : Waiting[s] \in SUBSET Thread
      /\ Runnable \in SUBSET Thread /\ \A u \in Runnable : u = cur \/ u \in ToSet(ready)
      /\ Lock \subseteq Sema /\ \A u \in Thread : th[u].prio \in Nat
      /\ \A u \in Thread : ToSet(th[u].locks) \subseteq Lock
  BY Places
<1>4. /\ Waiting' = Waiting /\ Runnable' = Runnable /\ sem'[l].value = 0
      /\ \A s \in Sema : s # l => sem'[s].value = sem[s].value
  <2>1. /\ OnePlace /\ sem \in [Sema -> [value : 0 .. 1, waiters : Seq(Thread)]] /\ l \in Sema
    BY <1>1, <1>3 DEF IInv, TypeOK
  <2> HIDE DEF l
  <2>2. sem[l].value \in 0 .. 1
    BY <2>1
  <2>3. sem[l].value # 0
    BY <1>1, <2>2
  <2> QED BY <1>1, <2>1, <2>3, DownPlaces
<1>5. /\ OneAtATime /\ Calm(t) /\ broken = "no" /\ Given /\ Reaching /\ FirstComes /\ InLine
      /\ th[t].locks = <<>>
  BY <1>1 DEF Donated, OneAtATime, Calm
<1>6. \A u \in Thread : ~Holds(u, l) /\ ~Has(u, l)
  <2>1. \A u \in Thread : ~Holds(u, l)
    BY <1>1 DEF IInv, OneOwner
  <2> QED BY <2>1 DEF Has, Holds
<1> HIDE DEF l
<1>7. OneAtATime'
  <2>1. Calm(t)'
    BY <1>1, <1>2, <1>5 DEF Calm
  <2>2. \A k \in Lock : lck[k].holder \in Thread \cup {None}
    BY DEF IInv, TypeOK, LockRecord
  <2>3. \A k \in Lock : lck[k].holder = t => k \in ToSet(th[t].locks)
    BY <1>1, <1>5, PriorityAssumption DEF OneAtATime, NamesOwner
  <2> QED BY <1>1, <1>2, <1>5, <2>1, <2>2, <2>3, CalmStays
<1>8. \A w \in Thread : Wants(w, l) => th[t].prio >= th[w].prio
  <2>1. Top(t, ready, PriorityOf, Wanting) /\ t # Idle
    BY <1>1, <1>5, PriorityAssumption DEF InLine
  <2>2. ASSUME NEW p \in Runnable, Wants(p, l) PROVE th[t].prio >= th[p].prio
    <3>1. CASE p = t
      BY <1>3, <3>1
    <3>2. CASE p # t
      <4>1. p \in ToSet(ready) \cap Wanting /\ p \in Thread
        BY <1>1, <1>3, <2>2, <3>2 DEF Wants, Wanting
      <4> QED BY <2>1, <4>1 DEF Top, PriorityOf
    <3> QED BY <3>1, <3>2
  <2> SUFFICES ASSUME NEW w \in Thread, Wants(w, l), w \notin Runnable
               PROVE  th[t].prio >= th[w].prio
    BY <2>2
  <2>3. PICK s \in Sema : w \in Waiting[s]
    <3>1. Partition(cur, ready, sem, Runnable, Waiting)
      BY PlacesPartition DEF IInv, TypeOK
    <3> QED BY <3>1 DEF Partition
  <2>4. s = l
    BY <2>3 DEF IInv, Waits, Wants, Sema
  <2>5. PICK p \in Runnable : Wants(p, l) /\ th[p].prio >= th[w].prio
    BY <1>1, <1>5, <2>3, <2>4 DEF FirstComes, l
  <2>6. th[t].prio >= th[p].prio /\ p \in Thread
    BY <1>3, <2>2, <2>5
  <2> QED BY <1>3, <2>5, <2>6
<1>9. /\ \A u \in Thread : th'[u].prio = th[u].prio
      /\ \A u \in Thread \ {t} : \A k \in Lock : Wants(u, k)' <=> Wants(u, k)
      /\ \A k \in Lock : ~Wants(t, k)' /\ (Wants(t, k) <=> k = l)
      /\ \A u \in Thread : \A k \in Lock : Has(u, k)' => Has(u, k) \/ (u = t /\ k = l)
  <2>1. \A k \in Lock : k \notin ToSet(th[t].locks)
    BY <1>5 DEF ToSet
  <2> QED BY <1>1, <1>2, <2>1 DEF Wants, Has, l
<1>10. Given'
  <2>1. ASSUME NEW u \in Thread, NEW k \in ToSet(th[u].locks), NEW d \in Thread, Donor(d, u, k)
        PROVE  Donor(d, u, k)'
    <3>1. k \in Lock /\ k # l
      BY <1>3, <1>6 DEF Has
    <3>2. d # t
      BY <1>9, <2>1, <3>1 DEF Donor
    <3>3. d \in Waiting[k] /\ Wants(d, k)'
      BY <1>1, <1>9, <2>1, <3>1, <3>2 DEF Donor
    <3> QED BY <1>4, <1>9, <2>1, <3>3 DEF Donor
  <2>2. \A u \in Thread : th'[u].locks = th[u].locks /\ th'[u].base = th[u].base
    BY <1>2
  <2>3. \A u \in Thread : th'[u].prio = th[u].prio /\ lck' = lck
    BY <1>1, <1>9
  <2>4. \A u \in Thread : th[u].locks = <<>> => th[u].prio = th[u].base
    BY <1>5 DEF Given
  <2>5. ASSUME NEW u \in Thread, NEW k \in ToSet(th[u].locks)
        PROVE  /\ lck[k].old = th[u].base /\ th[u].prio >= th[u].base
               /\ th[u].prio = th[u].base \/ \E d \in Thread : Donor(d, u, k)'
    BY <1>5, <2>1, <2>5 DEF Given
  <2> QED BY <2>2, <2>3, <2>4, <2>5 DEF Given
<1>11. Reaching'
  <2> SUFFICES ASSUME NEW u \in Thread, NEW w \in Thread, NEW k \in Lock, Has(u, k)', Wants(w, k)'
               PROVE  th[u].prio >= th[w].prio
    BY <1>9 DEF Reaching
  <2>1. w # t /\ Wants(w, k)
    BY <1>9
  <2>2. CASE Has(u, k)
    BY <1>5, <2>1, <2>2 DEF Reaching
  <2>3. CASE u = t /\ k = l
    BY <1>8, <2>1, <2>3
  <2> QED BY <1>9, <2>2, <2>3
<1>12. FirstComes'
  <2> SUFFICES ASSUME NEW k \in Lock, NEW w \in Waiting[k], sem'[k].value > 0
               PROVE  \E p \in Runnable : Wants(p, k)' /\ th'[p].prio >= th'[w].prio
    BY <1>4 DEF FirstComes
  <2>1. k # l /\ sem[k].value > 0
    BY <1>3, <1>4
  <2>2. PICK p \in Runnable : Wants(p, k) /\ th[p].prio >= th[w].prio
    BY <1>5, <2>1 DEF FirstComes
  <2> QED BY <1>3, <1>9, <2>1, <2>2
<1>13. InLine'
  <2>1. \A x \in ToSet(ready) : x \in Wanting' => x \in Wanting
    BY <1>2 DEF Wanting
  <2>2. PriorityOf' = PriorityOf
    BY <1>9 DEF PriorityOf
  <2>3. Ahead(ready, PriorityOf, Wanting) /\ Top(t, ready, PriorityOf, Wanting)
    BY <1>1, <1>5 DEF InLine
  <2>4. \A i \in DOMAIN ready : ready[i] \in ToSet(ready)
    BY DEF ToSet
  <2>5. Ahead(ready, PriorityOf, Wanting') /\ Top(t, ready, PriorityOf, Wanting')
    BY <2>1, <2>3, <2>4 DEF Ahead, Top
  <2> QED BY <1>1, <2>2, <2>5 DEF InLine
<1> QED BY <1>7, <1>10, <1>11, <1>12, <1>13 DEF Donated

\* Who waits in sema_down, for a lock or in a semaphore of its own, leaves the CPU
\* to the next in line.
LEMMA DownBlocks ==
  ASSUME IInv, Donated, NEW t \in Thread, cur = t, NEW s \in Sema, NEW next, Down(t, s, next),
         ~(sem[s].value > 0), th[t].pc \in {"down", "await", "nap"},
         th[t].pc = "down" => s = th[t].lk
  PROVE  Donated'
<1>1. /\ th \in [Thread -> ThreadRecord] /\ th[t] \in ThreadRecord
      /\ UNCHANGED <<lck, broken>> /\ RunNext(ready) /\ th' = [th EXCEPT ![t].off = TRUE]
  BY DEF IInv, TypeOK, Down
<1>2. \A u \in Thread : /\ th'[u].pc = th[u].pc /\ th'[u].lk = th[u].lk
                        /\ th'[u].prio = th[u].prio /\ th'[u].base = th[u].base
                        /\ th'[u].locks = th[u].locks /\ th'[u].waiting = th[u].waiting
                        /\ th'[u].at = th[u].at
  BY <1>1 DEF ThreadRecord
<1>3. /\ Waiting' = [Waiting EXCEPT ![s] = @ \cup {t}] /\ Runnable' = Runnable \ {t}
      /\ sem'[s].value = 0
      /\ \A r \in Sema : r # s => sem'[r].value = sem[r].value
  <2>1. OnePlace /\ sem \in [Sema -> [value : 0 .. 1, waiters : Seq(Thread)]]
    BY DEF IInv, TypeOK
  <2>2. sem[s].value \in 0 .. 1
    BY <2>1
  <2>3. sem[s].value # 1
    BY <2>2
  <2> QED BY <2>1, <2>3, DownPlaces
<1>4. /\ \A r \in Sema : Waiting'[r] = IF r = s THEN Waiting[s] \cup {t} ELSE Waiting[r]
      /\ Lock \subseteq Sema /\ Runnable \in SUBSET Thread
      /\ \A u \in Thread : ToSet(th[u].locks) \subseteq Lock
  BY <1>3, Places DEF Waiting
<1>5. /\ OneAtATime /\ Calm(t) /\ broken = "no" /\ Given /\ Reaching /\ FirstComes /\ InLine
  BY DEF Donated, OneAtATime
<1>6. OneAtATime'
  <2>1. Calm(t)'
    BY <1>1, <1>2, <1>5 DEF Calm
  <2>2. \A k \in Lock : lck[k].holder \in Thread \cup {None}
    BY DEF IInv, TypeOK, LockRecord
  <2>3. \A k \in Lock : lck[k].holder = t => k \in ToSet(th[t].locks)
    BY <1>5, PriorityAssumption DEF OneAtATime, NamesOwner
  <2> QED BY <1>1, <1>2, <1>5, <2>1, <2>2, <2>3, CalmStays
<1>7. SameCalls
  BY <1>2 DEF SameCalls, Has
<1>8. Given'
  <2>1. \A l \in Lock : Wants(t, l) => t \in Waiting'[l]
    BY <1>4 DEF Wants
  <2> QED BY <1>1, <1>2, <1>4, <1>5, <1>7, <2>1, GivenStays
<1>9. Reaching' /\ FirstComes' /\ PriorityOf' = PriorityOf /\ Wanting' = Wanting
  <2>1. ASSUME NEW l \in Lock, sem'[l].value > 0
        PROVE  /\ sem[l].value > 0 /\ Waiting'[l] = Waiting[l]
               /\ \A u \in Runnable : Wants(u, l) => u \in Runnable'
    <3>1. l # s /\ l \in Sema
      BY <1>3, <1>4, <2>1
    <3>2. ~Wants(t, l)
      BY <3>1 DEF Wants
    <3> QED BY <1>3, <1>4, <2>1, <3>1, <3>2
  <2> QED BY <1>5, <1>7, <2>1, CallsKeep
<1>10. InLine'
  <2>1. PriorityOf \in [Thread -> Nat] /\ ready \in Seq(Thread)
    BY Keys
  <2>2. Ahead(ready, PriorityOf, Wanting)
    BY <1>5 DEF InLine
  <2>3. Ahead(ready', PriorityOf, Wanting) /\ Top(cur', ready', PriorityOf, Wanting)
    BY <1>1, <2>1, <2>2, RunNextAhead
  <2> QED BY <1>9, <2>3 DEF InLine
<1> QED BY <1>6, <1>8, <1>9, <1>10 DEF Donated

\* The lock enters its owner's list, with the priority to go back to.
LEMMA RecordDonated ==
  ASSUME IInv, Donated, NEW t \in Thread, Record(t)
  PROVE  Donated'
<1> DEFINE l == th[t].lk
           q == InsertDesc(th[t].locks, l, [k \in Lock |-> lck[k].highest])
<1>1. /\ cur = t /\ th[t].pc = "record" /\ l \in Lock
      /\ th \in [Thread -> ThreadRecord] /\ lck \in [Lock -> LockRecord] /\ th[t] \in ThreadRecord
      /\ UNCHANGED <<cur, ready, sem, broken>>
      /\ th' = [th EXCEPT ![t].waiting = None, ![t].locks = q,
                          ![t].pc = "home", ![t].lk = None, ![t].cond = FALSE]
      /\ lck' = [lck EXCEPT ![l] = [@ EXCEPT !.highest = th[t].prio, !.old = th[t].prio]]
  BY DEF IInv, TypeOK, Calls, Record, Running, SchedulerSame
<1>2. /\ OneAtATime /\ Calm(t) /\ broken = "no" /\ Given /\ Reaching /\ FirstComes /\ InLine
      /\ th[t].locks = <<>> /\ ToSet(th[t].locks) = {}
  <2>1. ToSet(<<>>) = {}
    BY DEF ToSet
  <2> QED BY <1>1, <2>1 DEF Donated, OneAtATime, Calm
<1>3. ToSet(q) = {l}
  <2>1. Lists(th[t].locks, {})
    BY <1>2, LocksListed
  <2>2. Lists(q, {} \cup {l})
    BY <2>1, InsertDescLists
  <2> HIDE DEF q
  <2> QED BY <2>2 DEF Lists
<1> HIDE DEF q
<1>4. /\ \A u \in Thread \ {t} : th'[u] = th[u]
      /\ th'[t].pc = "home" /\ th'[t].locks = q /\ th'[t].prio = th[t].prio
      /\ th'[t].base = th[t].base /\ th'[t].waiting = None
  BY <1>1 DEF ThreadRecord
<1>5. /\ \A k \in Lock : lck'[k].holder = lck[k].holder
      /\ \A k \in Lock : lck[k].holder \in Thread \cup {None}
      /\ \A k \in Lock \ {l} : lck'[k] = lck[k]
      /\ lck'[l].old = th[t].prio
  BY <1>1 DEF LockRecord
<1>6. \A u \in Thread \ {t} : l \notin ToSet(th[u].locks)
  <2>1. Holds(t, l)
    BY <1>1 DEF Holds
  <2> QED BY <1>1, <2>1 DEF Holds, IInv, OneOwner
<1>7. \A k \in Lock : Has(t, k)' => Has(t, k)
  BY <1>1, <1>3, <1>4 DEF Has
<1>8. NamesOwner(l) /\ \A k \in Lock : lck[k].holder = t => k = l
  <2>1. t # None /\ \A k \in Lock : NamesOwner(k)
    BY <1>2, PriorityAssumption DEF OneAtATime
  <2>2. l \in Lock /\ ToSet(th[t].locks) = {}
    BY <1>1, <1>2
  <2> QED BY <2>1, <2>2 DEF NamesOwner
<1>9. Waiting' = Waiting /\ Runnable' = Runnable /\ \A k \in Lock : Waiting[k] \in SUBSET Thread
  BY <1>1, Places DEF Waiting, Runnable
<1> HIDE DEF l
<1>10. OneAtATime'
  <2>1. Calm(t)'
    <3>1. \A k, m \in ToSet(th'[t].locks) : k = m
      BY <1>3, <1>4
    <3> QED BY <1>4, <3>1 DEF Calm
  <2> QED BY <1>1, <1>2, <1>3, <1>4, <1>5, <1>8, <2>1, CalmStays
<1>11. SameCalls
  <2>1. \A u \in Thread : \A k \in Lock : Has(u, k)' => Has(u, k)
    BY <1>4, <1>7 DEF Has
  <2> QED BY <1>1, <1>4, <2>1 DEF SameCalls
<1>12. Reaching' /\ FirstComes' /\ PriorityOf' = PriorityOf /\ Wanting' = Wanting
  BY <1>1, <1>2, <1>9, <1>11, CallsKeep
<1>13. Given'
  <2> SUFFICES ASSUME NEW u \in Thread
               PROVE  /\ th'[u].locks = <<>> => th'[u].prio = th'[u].base
                      /\ \A k \in ToSet(th'[u].locks) :
                           /\ lck'[k].old = th'[u].base /\ th'[u].prio >= th'[u].base
                           /\ th'[u].prio = th'[u].base \/ \E d \in Thread : Donor(d, u, k)'
    BY DEF Given
  <2>1. CASE u = t
    <3>1. th[t].prio = th[t].base /\ th[t].prio \in Nat
      BY <1>2, Places DEF Given
    <3> QED BY <1>3, <1>4, <1>5, <2>1, <3>1
  <2>2. CASE u # t
    <3>1. ASSUME NEW k \in ToSet(th[u].locks)
          PROVE  /\ k \in Lock /\ lck'[k] = lck[k]
                 /\ \A d \in Thread : Donor(d, u, k) => Donor(d, u, k)'
      <4>1. k \in Lock /\ k # l
        BY <1>6, <2>2, Places
      <4>2. ASSUME NEW d \in Thread, Donor(d, u, k) PROVE Donor(d, u, k)'
        <5>1. d # t
          BY <1>1, <4>2 DEF Donor, Wants
        <5> QED BY <1>1, <1>4, <1>9, <2>2, <4>2, <5>1 DEF Donor, Wants
      <4> QED BY <1>5, <4>1, <4>2
    <3> QED BY <1>2, <1>4, <2>2, <3>1 DEF Given
  <2> QED BY <2>1, <2>2
<1>14. InLine'
  <2>1. Ahead(ready, PriorityOf, Wanting) /\ Top(cur, ready, PriorityOf, Wanting)
    BY <1>1, <1>2 DEF InLine
  <2> QED BY <1>1, <1>12, <2>1 DEF InLine
<1> QED BY <1>10, <1>12, <1>13, <1>14 DEF Donated

\* The priority is given back: there is a waiter to whom the donor's turn comes.
LEMMA RestoreDonated ==
  ASSUME IInv, Donated, NEW t \in Thread, Restore(t)
  PROVE  Donated'
<1> DEFINE l == th[t].lk
           left == Without(th[t].locks, l)
           p == Restored(t, left)
<1>1. /\ cur = t /\ th[t].pc = "restore" /\ l \in ToSet(th[t].locks) /\ l \in Lock
      /\ th \in [Thread -> ThreadRecord] /\ th[t] \in ThreadRecord
      /\ UNCHANGED <<cur, ready, sem, lck, broken>>
      /\ th' = [th EXCEPT ![t].prio = p, ![t].locks = left, ![t].pc = "clear"]
  BY LocksListed DEF IInv, TypeOK, Calls, Restore, Running, SchedulerSame
<1>2. /\ OneAtATime /\ Calm(t) /\ broken = "no" /\ Given /\ Reaching /\ FirstComes /\ InLine
      /\ \A k \in ToSet(th[t].locks) : k = l
  BY <1>1 DEF Donated, OneAtATime, Calm
<1>3. left = <<>>
  <2>1. Lists(left, ToSet(th[t].locks) \ {l})
    BY <1>1, LocksListed, WithoutLists
  <2>2. ToSet(th[t].locks) \ {l} = {}
    BY <1>2
  <2> HIDE DEF left
  <2> QED BY <2>1, <2>2, EmptyLists
<1>4. p = th[t].base /\ th[t].prio >= p /\ (th[t].prio = p \/ \E d \in Thread : Donor(d, t, l))
  <2>1. p = lck[l].old
    BY <1>3 DEF Restored
  <2> QED BY <1>1, <1>2, <2>1 DEF Given
<1> HIDE DEF left, p
<1>5. /\ \A u \in Thread \ {t} : th'[u] = th[u]
      /\ th'[t].pc = "clear" /\ th'[t].locks = <<>> /\ th'[t].prio = p
      /\ th'[t].base = th[t].base /\ th'[t].waiting = th[t].waiting /\ th'[t].lk = l
  BY <1>1, <1>3 DEF ThreadRecord
<1> HIDE DEF l
<1>6. /\ \A k \in Lock : Waiting[k] \in SUBSET Thread
      /\ Runnable \in SUBSET Thread /\ Waiting' = Waiting /\ Runnable' = Runnable
      /\ \A u \in Thread : th[u].prio \in Nat /\ th[u].base \in Nat
      /\ \A u \in Thread : ToSet(th[u].locks) \subseteq Lock
  <2>1. /\ \A s \in Sema : Waiting[s] \in SUBSET Thread
        /\ Runnable \in SUBSET Thread /\ Lock \subseteq Sema
        /\ \A u \in Thread : th[u].prio \in Nat /\ th[u].base \in Nat
        /\ \A u \in Thread : ToSet(th[u].locks) \subseteq Lock
    BY Places
  <2> QED BY <1>1, <2>1 DEF Waiting, Runnable
<1>7. ToSet(th'[t].locks) = {}
  <2>1. ToSet(<<>>) = {}
    BY DEF ToSet
  <2> QED BY <1>5, <2>1
<1>8. OneAtATime'
  <2>1. Calm(t)'
    <3>1. \A k, m \in ToSet(th'[t].locks) : k = m
      BY <1>7
    <3> QED BY <1>1, <1>2, <1>5, <3>1 DEF Calm
  <2>2. \A k \in Lock : lck[k].holder \in Thread \cup {None}
    BY DEF IInv, TypeOK, LockRecord
  <2>3. \A k \in Lock : lck[k].holder = t => k = l
    <3>1. t # None /\ \A k \in Lock : NamesOwner(k)
      BY <1>2, PriorityAssumption DEF OneAtATime
    <3>2. th[t].pc = "restore" /\ \A k \in ToSet(th[t].locks) : k = l
      BY <1>1, <1>2
    <3> QED BY <3>1, <3>2 DEF NamesOwner
  <2> QED BY <1>1, <1>2, <1>5, <2>1, <2>2, <2>3, CalmStays
<1>9. /\ \A u \in Thread : \A k \in Lock : Wants(u, k)' <=> Wants(u, k)
      /\ \A u \in Thread : \A k \in Lock : Has(u, k)' => u # t /\ Has(u, k)
      /\ \A u \in Thread : \A k \in Lock : Wants(u, k) => u # t /\ th'[u].prio = th[u].prio
      /\ Wanting' = Wanting
  BY <1>1, <1>5, <1>7 DEF Wants, Has, Wanting
<1>10. Reaching'
  BY <1>2, <1>5, <1>9 DEF Reaching
<1>11. FirstComes'
  <2> SUFFICES ASSUME NEW k \in Lock, NEW w \in Waiting[k], sem[k].value > 0
               PROVE  \E u \in Runnable : Wants(u, k)' /\ th'[u].prio >= th'[w].prio
    BY <1>1, <1>6 DEF FirstComes
  <2>1. PICK u \in Runnable : Wants(u, k) /\ th[u].prio >= th[w].prio
    BY <1>2 DEF FirstComes
  <2>2. Wants(w, k) /\ w \in Thread /\ u \in Thread
    BY <1>6 DEF IInv, Waits, Wants, Sema
  <2> QED BY <1>9, <2>1, <2>2
<1>12. Given'
  <2> SUFFICES ASSUME NEW u \in Thread
               PROVE  /\ th'[u].locks = <<>> => th'[u].prio = th'[u].base
                      /\ \A k \in ToSet(th'[u].locks) :
                           /\ lck'[k].old = th'[u].base /\ th'[u].prio >= th'[u].base
                           /\ th'[u].prio = th'[u].base \/ \E d \in Thread : Donor(d, u, k)'
    BY DEF Given
  <2>1. CASE u = t
    BY <1>4, <1>5, <1>7, <2>1
  <2>2. CASE u # t
    <3>1. ASSUME NEW k \in ToSet(th[u].locks), NEW d \in Thread, Donor(d, u, k)
          PROVE  Donor(d, u, k)'
      <4>1. k \in Lock
        BY <1>6
      <4> QED BY <1>1, <1>5, <1>6, <1>9, <2>2, <3>1, <4>1 DEF Donor
    <3> QED BY <1>1, <1>2, <1>5, <2>2, <3>1 DEF Given
  <2> QED BY <2>1, <2>2
<1>13. InLine'
  <2>1. Ahead(ready, PriorityOf, Wanting) /\ Top(t, ready, PriorityOf, Wanting) /\ t # Idle
    BY <1>1, <1>2, PriorityAssumption DEF InLine
  <2>2. \A x \in ToSet(ready) : PriorityOf'[x] = PriorityOf[x]
    <3>1. t \notin ToSet(ready) /\ ToSet(ready) \subseteq Thread
      BY <1>1, Keys
    <3> QED BY <1>5, <3>1 DEF PriorityOf
  <2>3. Ahead(ready, PriorityOf', Wanting)
    BY <2>1, <2>2, OrderStays
  <2>4. CASE th[t].prio = p
    <3>1. PriorityOf'[t] = PriorityOf[t]
      BY <1>5, <2>4 DEF PriorityOf
    <3>2. Top(t, ready, PriorityOf', Wanting)
      BY <2>1, <2>2, <3>1, OrderStays
    <3> QED BY <1>1, <1>9, <2>3, <3>2 DEF InLine
  <2>5. CASE th[t].prio # p
    <3>1. PICK d \in Thread : Donor(d, t, l)
      BY <1>4, <2>5
    <3>2. d # t /\ d \in Waiting[l]
      BY <1>1, <3>1 DEF Donor, Wants
    <3>3. th[d].prio > p
      BY <1>4, <1>6, <2>5, <3>1 DEF Donor
    <3>4. d \in Waiting'[th'[cur'].lk] /\ th'[d].prio > th'[cur'].prio
      BY <1>1, <1>5, <1>6, <3>2, <3>3
    <3>5. cur' # Idle /\ th'[cur'].pc \in {"clear", "up"} /\ Ahead(ready', PriorityOf', Wanting')
      BY <1>1, <1>5, <1>9, <2>1, <2>3
    <3> QED BY <3>4, <3>5 DEF InLine
  <2> QED BY <2>4, <2>5
<1> QED BY <1>8, <1>10, <1>11, <1>12, <1>13 DEF Donated

\* cond_wait and timer_sleep go on past their semaphore.
LEMMA DownPasses ==
  ASSUME IInv, Donated, NEW t \in Thread, CondDown(t) \/ Nap(t), sem[t].value > 0
  PROVE  Donated'
<1>1. /\ cur = t /\ th[t].pc \in {"await", "nap"} /\ t \in Sema
      /\ th \in [Thread -> ThreadRecord] /\ th[t] \in ThreadRecord
      /\ OnePlace /\ sem \in [Sema -> [value : 0 .. 1, waiters : Seq(Thread)]]
  BY Places DEF IInv, TypeOK, CondDown, Nap, Running
<1>2. PICK next \in {"check", "home"} :
        (next = "check" => th[t].pc = "await") /\ Down(t, t, next)
  BY <1>1 DEF CondDown, Nap, Running
<1>3. /\ UNCHANGED <<cur, ready, lck, broken>>
      /\ th' = [th EXCEPT ![t].pc = next, ![t].off = FALSE]
  BY <1>2 DEF Down
<1>4. /\ \A u \in Thread \ {t} : th'[u] = th[u]
      /\ th'[t].pc = next /\ th'[t].prio = th[t].prio
      /\ th'[t].base = th[t].base /\ th'[t].locks = th[t].locks /\ th'[t].waiting = th[t].waiting
  BY <1>1, <1>3 DEF ThreadRecord
<1>5. Waiting' = Waiting /\ Runnable' = Runnable /\ \A l \in Lock : sem'[l].value = sem[l].value
  <2>1. sem[t].value \in 0 .. 1
    BY <1>1
  <2>2. sem[t].value # 0 /\ \A l \in Lock : l \in Sema /\ l # t
    BY <2>1, Places
  <2> QED BY <1>1, <1>2, <2>2, DownPlaces
<1>6. Calm(t)'
  <2>1. Calm(t)
    BY DEF Donated, OneAtATime
  <2> QED BY <1>1, <1>2, <1>3, <1>4, <2>1 DEF Calm
<1> QED BY <1>1, <1>2, <1>3, <1>4, <1>5, <1>6, QuietCall

\* sema_up wakes the most urgent of the waiters.
LEMMA SemaUpFirst ==
  ASSUME IInv, NEW s \in Sema, sem[s].value = 0, SemaUp(s)
  PROVE  \/ /\ Waiting[s] = {} /\ Waiting' = Waiting
            /\ Runnable' = Runnable /\ UNCHANGED <<cur, ready>>
         \/ \E u \in Waiting[s] : /\ Waiting' = [Waiting EXCEPT ![s] = @ \ {u}]
                                  /\ Runnable' = Runnable \cup {u}
                                  /\ \A w \in Waiting[s] : th[u].prio >= th[w].prio
                                  /\ Unblock(u, PriorityOf)
<1> DEFINE w == SortDesc(sem[s].waiters, PriorityOf)
           W == Waiting[s]
<1>1. /\ OnePlace /\ sem \in [Sema -> [value : 0 .. 1, waiters : Seq(Thread)]]
      /\ PriorityOf \in [Thread -> Nat] /\ \A t \in Thread : PriorityOf[t] = th[t].prio
      /\ sem[s].waiters \in Seq(Thread) /\ W \in SUBSET Thread
  BY Keys, Places DEF IInv, TypeOK
<1>2. /\ sem' = [sem EXCEPT ![s] = [value |-> @.value + 1,
                                    waiters |-> IF w = <<>> THEN <<>> ELSE Tail(w)]]
      /\ w = <<>> => UNCHANGED <<cur, ready>>
      /\ w # <<>> => Unblock(Head(w), PriorityOf)
  BY DEF SemaUp
<1>3. \/ W = {} /\ Waiting' = Waiting /\ Runnable' = Runnable
      \/ \E u \in W : /\ Waiting' = [Waiting EXCEPT ![s] = @ \ {u}]
                      /\ Runnable' = Runnable \cup {u}
  <2>1. \/ Waiting[s] = {} /\ Waiting' = Waiting /\ Runnable' = Runnable
        \/ \E u \in Waiting[s] : /\ Waiting' = [Waiting EXCEPT ![s] = @ \ {u}]
                                 /\ Runnable' = Runnable \cup {u}
    BY <1>1, SemaUpPlaces
  <2> QED BY <2>1
<1>4. w \in Seq(Thread) /\ Ahead(w, PriorityOf, Thread) /\ Lists(w, W)
  <2>1. Lists(sem[s].waiters, W)
    <3>1. Partition(cur, ready, sem, Runnable, Waiting)
      BY <1>1, PlacesPartition
    <3> QED BY <3>1 DEF Partition
  <2> QED BY <1>1, <2>1, SortLists, SortAhead
<1>5. sem'[s].waiters = IF w = <<>> THEN <<>> ELSE Tail(w)
  BY <1>1, <1>2
<1>6. Waiting'[s] = ToSet(sem'[s].waiters)
  BY DEF Waiting
<1> HIDE DEF w, W
<1>7. CASE w = <<>>
  BY <1>2, <1>3, <1>4, <1>7, EmptyLists DEF W
<1>8. CASE w # <<>>
  <2>1. Head(w) \in W /\ Lists(Tail(w), W \ {Head(w)})
    BY <1>4, <1>8, HeadTailLists
  <2>2. ToSet(Tail(w)) = W \ {Head(w)}
    BY <2>1 DEF Lists
  <2>3. PICK u \in W : Waiting' = [Waiting EXCEPT ![s] = @ \ {u}] /\ Runnable' = Runnable \cup {u}
    BY <1>3, <2>1
  <2>4. u = Head(w)
    <3>1. Waiting'[s] = W \ {u}
      BY <2>3 DEF Waiting, W
    <3> QED BY <1>5, <1>6, <1>8, <2>1, <2>2, <3>1
  <2>5. \A x \in W : th[u].prio >= th[x].prio
    <3>1. Top(Head(w), Tail(w), PriorityOf, Thread)
      BY <1>1, <1>4, <1>8, FrontAhead
    <3>2. u \in Thread /\ u # Idle /\ th[u].prio \in Nat
      BY <1>1, PriorityAssumption, Places
    <3>3. ASSUME NEW x \in W PROVE th[u].prio >= th[x].prio
      <4>1. x = u \/ x \in ToSet(Tail(w))
        BY <2>2, <2>4
      <4>2. x \in Thread
        BY <1>1
      <4> QED BY <1>1, <2>4, <3>1, <3>2, <4>1, <4>2 DEF Top
    <3> QED BY <3>3
  <2> QED BY <1>2, <1>8, <2>3, <2>4, <2>5 DEF W
<1> QED BY <1>7, <1>8

\* After sema_up the line is in order, if the running thread was in its place or
\* wakes somebody more urgent, to whom it yields.
LEMMA SemaUpLine ==
  ASSUME IInv, Donated, NEW t \in Thread, cur = t, NEW s \in Sema, sem[s].value = 0, SemaUp(s),
         \/ Top(cur, ready, PriorityOf, Wanting)
         \/ \E d \in Waiting[s] : th[d].prio > th[t].prio,
         PriorityOf' = PriorityOf, Wanting' = Wanting
  PROVE  InLine'
<1>1. /\ PriorityOf \in [Thread -> Nat] /\ \A u \in Thread : PriorityOf[u] = th[u].prio
      /\ ready \in Seq(Thread) /\ t # Idle /\ Ahead(ready, PriorityOf, Wanting)
      /\ Waiting[s] \in SUBSET Thread /\ \A u \in Runnable : u = cur \/ u \in ToSet(ready)
  BY Keys, Places, PriorityAssumption DEF Donated, InLine
<1>2. CASE Waiting[s] = {} /\ UNCHANGED <<cur, ready>>
  BY <1>1, <1>2 DEF InLine
<1>3. ASSUME NEW u \in Waiting[s], Runnable' = Runnable \cup {u}, Unblock(u, PriorityOf),
             \A w \in Waiting[s] : th[u].prio >= th[w].prio
      PROVE  InLine'
  <2>1. /\ Ahead(ready', PriorityOf, Wanting)
        /\ \/ Top(cur', ready', PriorityOf, Wanting)
           \/ cur' = cur /\ PriorityOf[cur] >= PriorityOf[u]
    <3>1. u \in Thread /\ cur \in Thread \cup {Idle}
      BY <1>1
    <3> QED BY <1>1, <1>3, <3>1, UnblockAhead
  <2>2. ASSUME cur' = cur, PriorityOf[cur] >= PriorityOf[u]
        PROVE  Top(cur', ready', PriorityOf, Wanting)
    <3>1. Top(cur, ready, PriorityOf, Wanting)
      <4> SUFFICES ASSUME NEW d \in Waiting[s], th[d].prio > th[t].prio PROVE FALSE
        OBVIOUS
      <4>1. /\ th[u].prio >= th[d].prio /\ th[t].prio >= th[u].prio
            /\ th[u].prio \in Nat /\ th[d].prio \in Nat /\ th[t].prio \in Nat
        BY <1>1, <1>3, <2>2
      <4> QED BY <4>1
    <3>2. ASSUME NEW x \in ToSet(ready') \cap Wanting PROVE PriorityOf[t] >= PriorityOf[x]
      <4>1. x \in Runnable' /\ x # cur'
        <5>1. OnePlace'
          BY SemaUpPlaces DEF IInv, TypeOK
        <5>2. x \in Thread /\ x # cur'
          BY <5>1 DEF OnePlace, Wanting
        <5> QED BY <5>2, PriorityAssumption DEF Runnable
      <4>2. x = u \/ x \in ToSet(ready)
        BY <1>1, <1>3, <2>2, <4>1
      <4> QED BY <1>1, <2>2, <3>1, <4>2 DEF Top
    <3> QED BY <2>2, <3>2 DEF Top
  <2> QED BY <2>1, <2>2 DEF InLine
<1> QED BY <1>2, <1>3, SemaUpFirst

\* The lock is put up: the most urgent of its waiters is on the way.
LEMMA UpDonated ==
  ASSUME IInv, Donated, NEW t \in Thread, Up(t)
  PROVE  Donated'
<1> DEFINE l == th[t].lk
<1>1. /\ cur = t /\ th[t].pc = "up" /\ l \in Lock \ ToSet(th[t].locks)
      /\ th \in [Thread -> ThreadRecord] /\ th[t] \in ThreadRecord
      /\ UNCHANGED <<lck, broken>> /\ SemaUp(l)
  BY DEF IInv, TypeOK, Calls, Up, Running
<1>2. /\ \A u \in Thread \ {t} : th'[u] = th[u]
      /\ th'[t].pc \in {"home", "await"} /\ th'[t].locks = th[t].locks
      /\ th'[t].prio = th[t].prio /\ th'[t].base = th[t].base /\ th'[t].waiting = th[t].waiting
  <2>1. CASE th[t].cond
    <3>1. th' = [th EXCEPT ![t].pc = "await"]
      BY <2>1 DEF Up, At
    <3> QED BY <1>1, <3>1 DEF ThreadRecord
  <2>2. CASE ~th[t].cond
    <3>1. th' = [th EXCEPT ![t].pc = "home", ![t].lk = None]
      BY <2>2 DEF Up
    <3> QED BY <1>1, <3>1 DEF ThreadRecord
  <2> QED BY <2>1, <2>2
<1>3. /\ OneAtATime /\ Calm(t) /\ broken = "no" /\ Given /\ Reaching /\ FirstComes /\ InLine
      /\ th[t].locks = <<>>
  BY <1>1 DEF Donated, OneAtATime, Calm
<1>4. sem[l].value = 0 /\ \A u \in Thread : l \notin ToSet(th[u].locks)
  <2>1. Holds(t, l)
    BY <1>1 DEF Holds
  <2> QED BY <1>1, <2>1 DEF Holds, IInv, OneOwner
<1>5. /\ \A s \in Sema : Waiting[s] \in SUBSET Thread
      /\ Waiting \in [Sema -> SUBSET Thread] /\ Lock \subseteq Sema /\ l \in Sema
      /\ \A u \in Thread : ToSet(th[u].locks) \subseteq Lock
  <2>1. /\ \A s \in Sema : Waiting[s] \in SUBSET Thread
        /\ Lock \subseteq Sema
        /\ \A u \in Thread : ToSet(th[u].locks) \subseteq Lock
    BY Places
  <2> QED BY <1>1, <2>1 DEF Waiting
<1> HIDE DEF l
<1>6. \A k \in Lock : sem'[k].value = IF k = l THEN 1 ELSE sem[k].value
  <2>1. OnePlace /\ sem \in [Sema -> [value : 0 .. 1, waiters : Seq(Thread)]]
    BY DEF IInv, TypeOK
  <2>2. \A r \in Sema : sem'[r].value = IF r = l THEN 1 ELSE sem[r].value
    BY <1>1, <1>4, <1>5, <2>1, SemaUpPlaces
  <2> QED BY <1>5, <2>2
<1>7. \/ /\ Waiting[l] = {} /\ Waiting' = Waiting /\ Runnable' = Runnable
         /\ UNCHANGED <<cur, ready>>
      \/ \E u \in Waiting[l] : /\ Waiting' = [Waiting EXCEPT ![l] = @ \ {u}]
                               /\ Runnable' = Runnable \cup {u}
                               /\ \A w \in Waiting[l] : th[u].prio >= th[w].prio
                               /\ Unblock(u, PriorityOf)
  BY <1>1, <1>4, <1>5, SemaUpFirst
<1>8. /\ \A k \in Lock : k # l => Waiting'[k] = Waiting[k]
      /\ Waiting'[l] \subseteq Waiting[l] /\ Runnable \subseteq Runnable'
      /\ \A w \in Waiting'[l] : \E u \in Waiting[l] : u \in Runnable' /\ th[u].prio >= th[w].prio
  BY <1>5, <1>7
<1>9. OneAtATime'
  <2>1. Calm(t)'
    BY <1>1, <1>2, <1>3 DEF Calm
  <2>2. \A k \in Lock : lck[k].holder \in Thread \cup {None}
    BY DEF IInv, TypeOK, LockRecord
  <2>3. \A k \in Lock : lck[k].holder = t => k \in ToSet(th[t].locks)
    BY <1>1, <1>3, PriorityAssumption DEF OneAtATime, NamesOwner
  <2> QED BY <1>1, <1>2, <1>3, <2>1, <2>2, <2>3, CalmStays
<1>10. SameCalls
  BY <1>1, <1>2 DEF SameCalls, Has
<1>11. /\ Reaching' /\ PriorityOf' = PriorityOf /\ Wanting' = Wanting
       /\ \A u \in Thread : th'[u].prio = th[u].prio
       /\ \A u \in Thread : \A k \in Lock : Wants(u, k)' <=> Wants(u, k)
  BY <1>3, <1>10, ReachingStays
<1>12. Given'
  <2>1. \A u \in Thread : th'[u].base = th[u].base /\ th'[u].locks = th[u].locks
    BY <1>2
  <2>2. \A u \in Thread : \A k \in ToSet(th[u].locks) :
          lck'[k].old = lck[k].old /\ Waiting[k] \subseteq Waiting'[k]
    BY <1>1, <1>4, <1>5, <1>8
  <2>3. \A k \in Lock : cur \in Thread /\ Wants(cur, k) => cur \in Waiting'[k]
    BY <1>1 DEF Wants
  <2> QED BY <1>3, <1>10, <2>1, <2>2, <2>3, GivenStays
<1>13. FirstComes'
  <2> SUFFICES ASSUME NEW k \in Lock, NEW w \in Waiting'[k], sem'[k].value > 0
               PROVE  \E p \in Runnable' : Wants(p, k)' /\ th'[p].prio >= th'[w].prio
    BY DEF FirstComes
  <2>1. CASE k = l
    <3>1. PICK u \in Waiting[l] : u \in Runnable' /\ th[u].prio >= th[w].prio
      BY <1>8, <2>1
    <3>2. u \in Thread /\ w \in Thread /\ Wants(u, l)
      <4>1. w \in Waiting[l]
        BY <1>8, <2>1
      <4>2. th[u].pc = "down" /\ th[u].lk = l
        BY <1>1, <1>5 DEF IInv, Waits
      <4> QED BY <1>5, <4>1, <4>2 DEF Wants
    <3> QED BY <1>11, <2>1, <3>1, <3>2
  <2>2. CASE k # l
    <3>1. w \in Waiting[k] /\ sem[k].value > 0 /\ w \in Thread
      BY <1>5, <1>6, <1>8, <2>2
    <3>2. PICK p \in Runnable : Wants(p, k) /\ th[p].prio >= th[w].prio
      BY <1>3, <3>1 DEF FirstComes
    <3>3. p \in Thread /\ p \in Runnable'
      BY <1>8, <3>2, Places
    <3> QED BY <1>11, <3>1, <3>2, <3>3
  <2> QED BY <2>1, <2>2
<1>14. InLine'
  <2>1. \/ Top(cur, ready, PriorityOf, Wanting)
        \/ \E d \in Waiting[l] : th[d].prio > th[t].prio
    BY <1>1, <1>3 DEF InLine, l
  <2> QED BY <1>1, <1>4, <1>5, <1>11, <2>1, SemaUpLine
<1> QED BY <1>9, <1>11, <1>12, <1>13, <1>14 DEF Donated

\* cond_signal, and a turn of cond_broadcast: who is woken wants no lock yet.
LEMMA SignalDonated ==
  ASSUME IInv, Donated, NEW t \in Thread, CondSignal(t) \/ CondBroadcast(t) \/ BroadcastMore(t)
  PROVE  Donated'
<1>1. /\ cur = t /\ th[t].pc \in {"home", "broadcast"} /\ Signalling(t)
      /\ th \in [Thread -> ThreadRecord] /\ th[t] \in ThreadRecord
      /\ \/ UNCHANGED th
         \/ th' = At(t, IF condq = <<>> THEN "home" ELSE "broadcast")
  BY DEF IInv, TypeOK, CondSignal, CondBroadcast, BroadcastMore, Call, Running
<1>2. /\ \A u \in Thread \ {t} : th'[u] = th[u]
      /\ th'[t].pc \in {"home", "broadcast"} /\ th'[t].locks = th[t].locks
      /\ th'[t].prio = th[t].prio /\ th'[t].base = th[t].base /\ th'[t].waiting = th[t].waiting
  <2>1. CASE UNCHANGED th
    BY <1>1, <2>1
  <2>2. CASE th' = At(t, IF condq = <<>> THEN "home" ELSE "broadcast")
    <3>1. PICK p \in {"home", "broadcast"} : th' = [th EXCEPT ![t].pc = p]
      BY <2>2 DEF At
    <3> QED BY <1>1, <3>1 DEF ThreadRecord
  <2> QED BY <1>1, <2>1, <2>2
<1>3. UNCHANGED <<lck, broken>>
  BY <1>1 DEF Signalling
<1>4. Calm(t)'
  <2>1. Calm(t)
    BY DEF Donated, OneAtATime
  <2> QED BY <1>1, <1>2, <2>1 DEF Calm
<1>5. CASE condq = <<>>
  <2>1. UNCHANGED <<cur, ready, sem>>
    BY <1>1, <1>5 DEF Signalling
  <2>2. Waiting' = Waiting /\ Runnable' = Runnable
    BY <2>1 DEF Waiting, Runnable
  <2> QED BY <1>1, <1>2, <1>3, <1>4, <2>1, <2>2, QuietCall
<1>6. CASE condq # <<>>
  <2> DEFINE s == Head(condq)
  <2>1. SemaUp(s) /\ s \in Thread /\ sem[s].value = 0
    <3>1. Lists(condq, ToSet(condq)) /\ ToSet(condq) \subseteq Thread
      BY SeqLists DEF IInv, TypeOK
    <3>2. s \in ToSet(condq)
      BY <1>6, <3>1, HeadTailLists
    <3> QED BY <1>1, <1>6, <3>1, <3>2 DEF Signalling, IInv, Signals
  <2> HIDE DEF s
  <2>2. /\ Lock \subseteq Sema /\ s \in Sema /\ s \notin Lock
        /\ Waiting \in [Sema -> SUBSET Thread]
        /\ \A u \in Thread : ToSet(th[u].locks) \subseteq Lock
    BY <2>1, Places DEF Waiting
  <2>3. /\ \A k \in Lock : Waiting'[k] = Waiting[k] /\ sem'[k].value = sem[k].value
        /\ Runnable \subseteq Runnable'
    <3>1. OnePlace /\ sem \in [Sema -> [value : 0 .. 1, waiters : Seq(Thread)]]
      BY DEF IInv, TypeOK
    <3>2. /\ \A r \in Sema : sem'[r].value = IF r = s THEN 1 ELSE sem[r].value
          /\ \/ Waiting[s] = {} /\ Waiting' = Waiting /\ Runnable' = Runnable
             \/ \E u \in Waiting[s] : /\ Waiting' = [Waiting EXCEPT ![s] = @ \ {u}]
                                      /\ Runnable' = Runnable \cup {u}
      BY <2>1, <2>2, <3>1, SemaUpPlaces
    <3> QED BY <2>2, <3>2
  <2>4. /\ OneAtATime /\ Calm(t) /\ broken = "no" /\ Given /\ Reaching /\ FirstComes /\ InLine
    BY DEF Donated, OneAtATime
  <2>5. OneAtATime'
    <3>1. \A k \in Lock : lck[k].holder \in Thread \cup {None}
      BY DEF IInv, TypeOK, LockRecord
    <3>2. \A k \in Lock : lck[k].holder = t => k \in ToSet(th[t].locks)
      BY <1>1, <2>4, PriorityAssumption DEF OneAtATime, NamesOwner
    <3> QED BY <1>1, <1>2, <1>3, <1>4, <2>4, <3>1, <3>2, CalmStays
  <2>6. SameCalls
    BY <1>1, <1>2 DEF SameCalls, Has
  <2>7. Given'
    <3>1. \A u \in Thread : th'[u].base = th[u].base /\ th'[u].locks = th[u].locks
      BY <1>2
    <3>2. \A u \in Thread : \A k \in ToSet(th[u].locks) :
            lck'[k].old = lck[k].old /\ Waiting[k] \subseteq Waiting'[k]
      BY <1>3, <2>2, <2>3
    <3>3. \A k \in Lock : cur \in Thread /\ Wants(cur, k) => cur \in Waiting'[k]
      BY <1>1 DEF Wants
    <3> QED BY <2>4, <2>6, <3>1, <3>2, <3>3, GivenStays
  <2>8. Reaching' /\ FirstComes' /\ PriorityOf' = PriorityOf /\ Wanting' = Wanting
    BY <2>3, <2>4, <2>6, CallsKeep
  <2>9. InLine'
    <3>1. Top(cur, ready, PriorityOf, Wanting)
      BY <1>1, <2>4 DEF InLine
    <3> QED BY <1>1, <2>1, <2>2, <2>8, <3>1, SemaUpLine
  <2> QED BY <2>5, <2>7, <2>8, <2>9 DEF Donated
<1> QED BY <1>5, <1>6

\* A step of the timer or of the idle thread, in which the calls stay where they are
\* and nobody goes to sleep.
LEMMA OthersStep ==
  ASSUME IInv, OnePlace', Donated, UNCHANGED <<lck, broken>>,
         \A u \in Thread : /\ th'[u].pc = th[u].pc /\ th'[u].lk = th[u].lk
                           /\ th'[u].prio = th[u].prio /\ th'[u].base = th[u].base
                           /\ th'[u].locks = th[u].locks /\ th'[u].waiting = th[u].waiting
                           /\ th'[u].at = th[u].at,
         \A k \in Lock : Waiting'[k] = Waiting[k] /\ sem'[k].value = sem[k].value,
         \A s \in Sema : Waiting'[s] \subseteq Waiting[s],
         cur # Idle => th[cur].pc = "home",
         Ahead(ready', PriorityOf, Wanting),
         Top(cur', ready', PriorityOf, Wanting) \/ cur' = cur
  PROVE  Donated'
<1>1. /\ OneAtATime /\ (\A u \in Thread : Calm(u)) /\ broken = "no"
      /\ Given /\ Reaching /\ FirstComes /\ InLine
  BY DEF Donated, OneAtATime
<1>2. /\ Partition(cur, ready, sem, Runnable, Waiting) /\ Idle \notin Thread
      /\ \A u \in Thread : ToSet(th[u].locks) \subseteq Lock
      /\ Lock \subseteq Sema /\ \A u \in Runnable : u = cur \/ u \in ToSet(ready)
  BY PlacesPartition, PriorityAssumption, Places DEF IInv, TypeOK
<1>3. Runnable \subseteq Runnable'
  <2> SUFFICES ASSUME NEW u \in Runnable, u \notin Runnable' PROVE FALSE
    OBVIOUS
  <2>1. u \in Thread /\ \A s \in Sema : u \notin Waiting[s]
    BY <1>2 DEF Partition
  <2>2. \A s \in Sema : u \notin ToSet(sem'[s].waiters)
    BY <2>1 DEF Waiting
  <2> QED BY <1>2, <2>1, <2>2 DEF OnePlace, Runnable
<1>4. OneAtATime'
  <2>1. \A u \in Thread : Calm(u)'
    <3> TAKE u \in Thread
    <3>1. u = cur => th[u].pc = "home"
      BY <1>2
    <3> QED BY <1>1, <3>1 DEF Calm
  <2>2. \A l \in Lock : NamesOwner(l)'
    <3> TAKE l \in Lock
    <3>1. NamesOwner(l) /\ lck[l].holder \in Thread \cup {None}
      BY <1>1 DEF OneAtATime, IInv, TypeOK, LockRecord
    <3> QED BY <3>1 DEF NamesOwner
  <2> QED BY <1>1, <2>1, <2>2 DEF OneAtATime
<1>5. SameCalls
  BY DEF SameCalls, Has
<1>6. Given'
  <2>1. \A u \in Thread : \A k \in ToSet(th[u].locks) :
          lck'[k].old = lck[k].old /\ Waiting[k] \subseteq Waiting'[k]
    BY <1>2
  <2>2. \A k \in Lock : cur \in Thread /\ Wants(cur, k) => cur \in Waiting'[k]
    BY <1>2 DEF Wants
  <2> QED BY <1>1, <1>5, <2>1, <2>2, GivenStays
<1>7. Reaching' /\ FirstComes' /\ PriorityOf' = PriorityOf /\ Wanting' = Wanting
  BY <1>1, <1>3, <1>5, CallsKeep
<1>8. InLine'
  <2>1. ASSUME cur' = cur PROVE Top(cur', ready', PriorityOf, Wanting)
    <3> SUFFICES ASSUME cur # Idle, NEW x \in ToSet(ready') \cap Wanting
                 PROVE  PriorityOf[cur] >= PriorityOf[x]
      BY <2>1 DEF Top
    <3>1. x \in Thread /\ th[x].pc = "down" /\ x # cur
      BY <2>1 DEF OnePlace, Wanting
    <3>2. \A s \in Sema : x \notin Waiting[s]
      <4> SUFFICES ASSUME NEW s \in Sema, x \in Waiting[s] PROVE FALSE
        OBVIOUS
      <4>1. s \in Lock
        BY <3>1 DEF IInv, Waits, Sema
      <4>2. x \in Waiting'[s] /\ x \in ToSet(ready')
        BY <4>1
      <4> QED BY <4>2 DEF OnePlace, Waiting
    <3>3. x \in ToSet(ready)
      BY <1>2, <3>1, <3>2 DEF Partition
    <3>4. Top(cur, ready, PriorityOf, Wanting)
      BY <1>1 DEF InLine
    <3> QED BY <3>3, <3>4 DEF Top
  <2> QED BY <1>7, <2>1 DEF InLine
<1> QED BY <1>4, <1>6, <1>7, <1>8 DEF Donated

\* The idle thread gives way.
LEMMA IdleDonated ==
  ASSUME IInv, IInv', Donated, IdleBlocks
  PROVE  Donated'
<1>1. cur = Idle /\ RunNext(ready) /\ UNCHANGED <<th, lck, sem, broken>>
  BY DEF IdleBlocks
<1>2. Ahead(ready', PriorityOf, Wanting) /\ Top(cur', ready', PriorityOf, Wanting)
  <2>1. PriorityOf \in [Thread -> Nat] /\ ready \in Seq(Thread) /\ Ahead(ready, PriorityOf, Wanting)
    BY Keys DEF Donated, InLine
  <2> QED BY <1>1, <2>1, RunNextAhead
<1>3. Waiting' = Waiting /\ OnePlace'
  BY <1>1 DEF Waiting, IInv, TypeOK
<1> QED BY <1>1, <1>2, <1>3, OthersStep

\* The timer interrupt finds the running thread in no call.
LEMMA TickDonated ==
  ASSUME IInv, IInv', Donated, Plain, NEW over \in BOOLEAN, Tick(over)
  PROVE  Donated'
<1> DEFINE n == Cardinality(Due(Aged))
           rung == SubSeq(sleepers, 1, n)
           woken == {u \in ToSet(rung) : sem[u].waiters # <<>>}
           q == InsertAll(ready, rung, woken, PriorityOf)
<1>1. /\ MayInterrupt /\ th' = Aged /\ UNCHANGED <<lck, broken>>
      /\ sem' = [s \in Sema |-> IF Contains(rung, s)
                                THEN [value |-> sem[s].value + 1, waiters |-> <<>>] ELSE sem[s]]
      /\ YieldWith(q, PriorityOf) \/ (ready' = q /\ UNCHANGED cur)
  BY DEF Tick
<1>2. rung \in Seq(Thread)
  <2>1. Lists(sleepers, ToSet(sleepers)) /\ n \in 0 .. Len(sleepers)
        /\ ToSet(sleepers) \subseteq Thread
    <3>1. sleepers \in Seq(Thread) /\ IsInjective(sleepers)
      BY DEF IInv, TypeOK
    <3> QED BY <3>1, SeqLists, DuePrefix
  <2> HIDE DEF n
  <2>2. Lists(rung, ToSet(rung)) /\ ToSet(rung) \subseteq ToSet(sleepers)
    BY <2>1, CutLists
  <2> HIDE DEF rung
  <2> QED BY <2>1, <2>2, ListsSeq
<1> HIDE DEF n, rung
<1>3. \A k \in Lock : sem'[k] = sem[k]
  <2>1. \A k \in Lock : k \notin ToSet(rung) /\ k \in Sema
    BY <1>2, SeqLists, Places DEF ToSet
  <2>2. \A x : Contains(rung, x) <=> x \in ToSet(rung)
    BY <1>2, ContainsIn
  <2> QED BY <1>1, <2>1, <2>2
<1>4. \A s \in Sema : Waiting'[s] \subseteq Waiting[s]
  <2>1. ToSet(<<>>) = {}
    BY DEF ToSet
  <2>2. \A s \in Sema : sem'[s].waiters = sem[s].waiters \/ sem'[s].waiters = <<>>
    BY <1>1
  <2> QED BY <2>1, <2>2 DEF Waiting
<1>5. \A k \in Lock : Waiting'[k] = Waiting[k] /\ sem'[k].value = sem[k].value
  BY <1>3, Places DEF Waiting
<1>6. cur # Idle => th[cur].pc = "home"
  BY <1>1 DEF MayInterrupt, Plain
<1>7. \A u \in Thread : /\ th'[u].pc = th[u].pc /\ th'[u].lk = th[u].lk
                        /\ th'[u].prio = th[u].prio /\ th'[u].base = th[u].base
                        /\ th'[u].locks = th[u].locks /\ th'[u].waiting = th[u].waiting
                        /\ th'[u].at = th[u].at
  BY <1>1, Keys DEF Aged, ThreadRecord
<1>8. q \in Seq(Thread) /\ Ahead(q, PriorityOf, Wanting)
  <2>1. PriorityOf \in [Thread -> Nat] /\ ready \in Seq(Thread) /\ Ahead(ready, PriorityOf, Wanting)
    BY Keys DEF Donated, InLine
  <2> HIDE DEF woken
  <2> QED BY <1>2, <2>1, InsertAllAhead
<1> HIDE DEF q
<1>9. /\ Ahead(ready', PriorityOf, Wanting)
      /\ Top(cur', ready', PriorityOf, Wanting) \/ cur' = cur
  <2>1. PriorityOf \in [Thread -> Nat] /\ cur \in Thread \cup {Idle}
    BY Keys
  <2>2. CASE YieldWith(q, PriorityOf)
    BY <1>8, <2>1, <2>2, YieldAhead
  <2> QED BY <1>1, <1>8, <2>2
<1>10. OnePlace'
  BY DEF IInv, TypeOK
<1> QED BY <1>1, <1>4, <1>5, <1>6, <1>7, <1>9, <1>10, OthersStep

\* Every step keeps donation in order, where it is plain.
LEMMA DonatedStep ==
  ASSUME IInv, IInv', InOrder, Donated, Plain, [Next]_vars
  PROVE  Donated'
<1>1. CASE UNCHANGED vars
  <2>1. UNCHANGED <<cur, ready, th, lck, sem, broken>>
    BY <1>1 DEF vars
  <2>2. Waiting' = Waiting /\ Runnable' = Runnable /\ PriorityOf' = PriorityOf /\ Wanting' = Wanting
    BY <2>1 DEF Waiting, Runnable, PriorityOf, Wanting
  <2>3. OneAtATime' /\ Given' /\ Reaching'
    BY <2>1, <2>2 DEF Donated, OneAtATime, Calm, NamesOwner, Given, Donor, Wants, Reaching, Has
  <2>4. FirstComes' /\ InLine'
    BY <2>1, <2>2 DEF Donated, FirstComes, Wants, InLine
  <2> QED BY <2>3, <2>4 DEF Donated
<1>2. CASE Timer
  BY <1>2, TickDonated DEF Timer
<1>3. CASE IdleBlocks
  BY <1>3, IdleDonated
<1>4. ASSUME NEW t \in Thread, Continue(t) PROVE Donated'
  <2>1. CASE Check(t)
    BY <2>1, CheckDonates, CheckPasses
  <2>2. CASE Donate(t)
    BY <2>2, DonateDonated
  <2>3. CASE AcquireDown(t)
    <3>1. CASE sem[th[t].lk].value > 0
      BY <2>3, <3>1, AcquirePasses
    <3>2. CASE ~(sem[th[t].lk].value > 0)
      <4>1. cur = t /\ th[t].pc = "down" /\ Down(t, th[t].lk, "got")
        BY <2>3 DEF AcquireDown, Running
      <4>2. th[t].lk \in Sema
        BY <4>1, Places DEF IInv, Calls
      <4> QED BY <3>2, <4>1, <4>2, DownBlocks
    <3> QED BY <3>1, <3>2
  <2>4. CASE Got(t)
    BY <2>4, GotDonated
  <2>5. CASE Record(t)
    BY <2>5, RecordDonated
  <2>6. CASE Restore(t)
    BY <2>6, RestoreDonated
  <2>7. CASE Clear(t)
    BY <2>7, ClearDonated
  <2>8. CASE Up(t)
    BY <2>8, UpDonated
  <2>9. CASE Compare(t)
    <3>1. th[t].pc # "compare"
      BY DEF Donated, OneAtATime, Calm
    <3> QED BY <2>9, <3>1 DEF Compare, Running
  <2>10. CASE CondDown(t) \/ Nap(t)
    <3>1. CASE sem[t].value > 0
      BY <2>10, <3>1, DownPasses
    <3>2. CASE ~(sem[t].value > 0)
      <4>1. /\ cur = t /\ th[t].pc \in {"await", "nap"} /\ t \in Sema
            /\ Down(t, t, "check") \/ Down(t, t, "home")
        BY <2>10, Places DEF CondDown, Nap, Running
      <4>2. th[t].pc \in {"down", "await", "nap"} /\ (th[t].pc = "down" => t = th[t].lk)
        BY <4>1
      <4>3. CASE Down(t, t, "check")
        BY <3>2, <4>1, <4>2, <4>3, DownBlocks
      <4>4. CASE Down(t, t, "home")
        BY <3>2, <4>1, <4>2, <4>4, DownBlocks
      <4> QED BY <4>1, <4>3, <4>4
    <3> QED BY <3>1, <3>2
  <2>11. CASE BroadcastMore(t)
    BY <2>11, SignalDonated
  <2>12. CASE Link(t)
    BY <2>12, LinkDonated
  <2> QED BY <1>4, <2>1, <2>2, <2>3, <2>4, <2>5, <2>6, <2>7, <2>8, <2>9, <2>10, <2>11, <2>12
          DEF Continue
<1>5. ASSUME NEW t \in Thread, Begin(t) PROVE Donated'
  <2>1. \A p \in Prios : ~SetPriority(t, p)
    BY DEF SetPriority, Call, Plain
  <2> QED BY <1>5, <2>1, AcquireDonated, OwnSemaDonated, SignalDonated DEF Begin
<1> QED BY <1>1, <1>2, <1>3, <1>4, <1>5 DEF Next

----------------------------------------------------------------------------
(* The theorems *)

\* The invariant holds, whatever the threads call and whenever interrupts come.
THEOREM Invariant == Spec => []IInv
<1>1. ASSUME IInv, [Next]_vars PROVE IInv'
  <2>1. ASSUME Timer PROVE IInv'
    BY <1>1, <2>1, TickStep DEF Timer
  <2>2. ASSUME IdleBlocks PROVE IInv'
    BY <1>1, <2>2, IdleBlocksStep
  <2>3. ASSUME NEW t \in Thread, Continue(t) PROVE IInv'
    BY <1>1, <2>3, CheckStep, DonateStep, DownSteps, GotStep, RecordStep, RestoreStep,
       ClearStep, UpStep, CompareStep, SignalSteps, LinkStep DEF Continue
  <2>4. ASSUME NEW t \in Thread, Begin(t) PROVE IInv'
    BY <1>1, <2>4, AcquireStep, ReleaseStep, SetPriorityStep, CondWaitStep, SignalSteps,
       TimerSleepStep DEF Begin
  <2>5. CASE UNCHANGED vars
    BY <1>1, <2>5, StutterStep
  <2> QED BY <1>1, <2>1, <2>2, <2>3, <2>4, <2>5 DEF Next
<1> QED BY <1>1, InitIInv, PTL DEF Spec

\* Everything is of its type, and every thread but the running one is in exactly
\* one list of the scheduler.
THEOREM TypeCorrect == Spec => []TypeOK
<1>1. IInv => TypeOK
  BY DEF IInv
<1> QED BY <1>1, Invariant, PTL

\* Whoever has a lock among its locks is its holder, and the lock's semaphore is
\* down: nobody else gets through lock_acquire.
THEOREM LocksAlwaysExclude == Spec => []LocksExclude
<1>1. IInv => LocksExclude
  <2> SUFFICES ASSUME IInv, NEW l \in Lock, NEW t \in Thread, Contains(th[t].locks, l)
               PROVE  lck[l].holder = t /\ sem[l].value = 0
    BY DEF LocksExclude
  <2>1. l \in ToSet(th[t].locks)
    BY LocksListed
  <2>2. Holds(t, l) /\ ~(th[t].lk = l /\ th[t].pc \in {"got", "up"})
    BY <2>1 DEF Holds, IInv, Calls
  <2> QED BY <2>2 DEF IInv, OneOwner
<1> QED BY <1>1, Invariant, PTL

\* Threads do not sleep in a semaphore that is up, unless somebody who has been
\* woken is about to take it.
THEOREM NoWakeupIsLost == Spec => []NoLostWakeup
<1>1. IInv => NoLostWakeup
  BY DEF IInv
<1> QED BY <1>1, Invariant, PTL

\* Who sleeps for at least one tick leaves sleep_list in the step in which its
\* time comes, and in no other, where interrupts spare thread_sleep.
THEOREM AlarmsAreOnTime == Spec => AlarmsOnTime
<1>1. ASSUME Init PROVE InOrder
  <2>1. \A t \in Thread : th[t].pc = "home"
    BY <1>1 DEF Init, NewThread
  <2>2. DOMAIN sleepers = {}
    BY <1>1 DEF Init
  <2> QED BY <2>1, <2>2 DEF InOrder
<1>2. ASSUME IInv, InOrder, [Next]_vars
      PROVE  InOrder' /\ [OnTime]_vars
  BY <1>2, AlarmStep
<1> QED BY <1>1, <1>2, Invariant, PTL DEF Spec, AlarmsOnTime, OnTime

\* The running thread is at least as urgent as any ready one, where no lock is used
\* and the thread is not just about to compare.
THEOREM MostUrgentRuns == Spec => []HighestRuns
<1>1. ASSUME Init PROVE Urgent
  <2>1. PICK p \in machine.prios :
          /\ th = [t \in Thread |-> NewThread(p[t])]
          /\ LET q == SortDesc(SetToSeq(Thread), p) IN cur = Head(q) /\ ready = Tail(q)
    BY <1>1 DEF Init
  <2>2. p \in [Thread -> Nat]
    <3>1. machine \in Machines
      BY <1>1 DEF Init
    <3>2. p \in [Thread -> Prios]
      BY <2>1, <3>1, PriorityAssumption
    <3> QED BY <3>2, PriorityAssumption
  <2>3. \A t \in Thread : th[t].locks = <<>> /\ th[t].pc = "home" /\ th[t].prio = p[t]
    BY <2>1 DEF NewThread
  <2>4. PriorityOf = p
    BY <2>2, <2>3 DEF PriorityOf
  <2> DEFINE q == SortDesc(SetToSeq(Thread), p)
  <2>5. SetToSeq(Thread) \in Seq(Thread)
    BY ThreadsListed DEF Lists
  <2>6. q \in Seq(Thread) /\ Ahead(q, p, Thread)
    BY <2>2, <2>5, SortAhead
  <2>7. cur = Head(q) /\ ready = Tail(q)
    BY <2>1
  <2> HIDE DEF q
  <2>8. q # <<>>
    <3>1. Lists(q, Thread)
      BY ThreadsListed, SortLists DEF q
    <3> QED BY <3>1, EmptyLists, PriorityAssumption
  <2>9. Ahead(ready, p, Thread) /\ Top(cur, ready, p, Thread)
    BY <2>2, <2>6, <2>7, <2>8, FrontAhead
  <2> QED BY <2>3, <2>4, <2>9 DEF Urgent
<1>2. ASSUME IInv, Urgent, [Next]_vars PROVE Urgent'
  <2>1. machine' = machine
    BY <1>2, MachineStays
  <2> QED BY <1>2, <2>1, UrgentStep DEF Urgent
<1>3. ASSUME IInv, Urgent PROVE HighestRuns
  <2> SUFFICES ASSUME "lock" \notin machine.calls, AtRest, cur # Idle, NEW i \in DOMAIN ready
               PROVE  th[cur].prio >= th[ready[i]].prio
    BY DEF HighestRuns
  <2>1. ready[i] \in ToSet(ready)
    BY DEF ToSet
  <2>2. Top(cur, ready, PriorityOf, Thread)
    BY <1>3 DEF Urgent, AtRest
  <2> QED BY <1>3, <2>1, <2>2, Keys DEF Top
<1> QED BY <1>1, <1>2, <1>3, Invariant, PTL DEF Spec

\* Where threads hold one lock at a time, do not set their priority, and interrupts
\* spare their calls: no holder is NULL when it is donated to, who holds a lock is as
\* urgent as all that wait for it, and who has given its locks back has its own
\* priority again.
THEOREM DonationWorks == Spec => []DonationPlain
<1>1. ASSUME Init PROVE InOrder /\ (Plain => Donated)
  <2>1. PICK p \in machine.prios :
          /\ th = [t \in Thread |-> NewThread(p[t])]
          /\ LET q == SortDesc(SetToSeq(Thread), p) IN cur = Head(q) /\ ready = Tail(q)
    BY <1>1 DEF Init
  <2>2. \A t \in Thread : /\ th[t].locks = <<>> /\ th[t].pc = "home" /\ th[t].waiting = None
                          /\ th[t].prio = p[t] /\ th[t].base = p[t]
    BY <2>1 DEF NewThread
  <2>3. /\ broken = "no" /\ DOMAIN sleepers = {} /\ \A l \in Lock : lck[l].holder = None
        /\ \A s \in Sema : sem[s].waiters = <<>>
    BY <1>1 DEF Init
  <2>4. ToSet(<<>>) = {}
    BY DEF ToSet
  <2>5. InOrder
    BY <2>2, <2>3 DEF InOrder
  <2>6. OneAtATime
    <3>1. \A t \in Thread : \A k, l \in ToSet(th[t].locks) : k = l
      BY <2>2, <2>4
    <3> QED BY <2>2, <2>3, <3>1 DEF OneAtATime, Calm, NamesOwner
  <2>7. Given
    BY <2>2, <2>4 DEF Given
  <2>8. Reaching
    BY <2>2 DEF Reaching, Wants
  <2>9. FirstComes
    <3>1. \A l \in Lock : Waiting[l] = {}
      BY <2>3, <2>4 DEF Waiting, Sema
    <3> QED BY <3>1 DEF FirstComes
  <2>10. InLine
    <3>1. Wanting = {}
      BY <2>2 DEF Wanting
    <3> QED BY <3>1 DEF InLine, Ahead, Top
  <2> QED BY <2>5, <2>6, <2>7, <2>8, <2>9, <2>10 DEF Donated
<1>2. ASSUME IInv, IInv', InOrder, Plain => Donated, [Next]_vars
      PROVE  InOrder' /\ (Plain => Donated)'
  <2>1. machine' = machine
    BY <1>2, MachineStays
  <2>2. Plain' <=> Plain
    BY <2>1 DEF Plain
  <2> QED BY <1>2, <2>2, AlarmStep, DonatedStep
<1>3. ASSUME IInv, Plain => Donated PROVE DonationPlain
  <2> SUFFICES ASSUME Plain PROVE broken = "no" /\ PriorityRestored /\ DonationReaches
    BY DEF DonationPlain, Plain
  <2>1. broken = "no" /\ Given /\ Reaching
    BY <1>3 DEF Donated, OneAtATime
  <2>2. DonationReaches
    <3> SUFFICES ASSUME NEW h \in Thread, NEW l \in ToSet(th[h].locks),
                        NEW w \in ToSet(sem[l].waiters)
                 PROVE  th[h].prio >= th[w].prio
      BY DEF DonationReaches
    <3>1. l \in Lock /\ l \in Sema /\ Has(h, l)
      BY <1>3, Places DEF Has
    <3>2. w \in Waiting[l] /\ w \in Thread
      BY <1>3, <3>1, Places DEF Waiting
    <3>3. Wants(w, l)
      BY <1>3, <3>1, <3>2 DEF IInv, Waits, Wants
    <3> QED BY <2>1, <3>1, <3>2, <3>3 DEF Reaching
  <2> QED BY <2>1, <2>2 DEF Given, PriorityRestored
<1> QED BY <1>1, <1>2, <1>3, Invariant, PTL DEF Spec
=============================================================================
