-------------------------- MODULE FileSystemProofs --------------------------
(***************************************************************************)
(* What holds of the disk of src/CS439/Project4 for any number of sectors, *)
(* any sizes of sectors, index blocks and files, and any calls: no sector  *)
(* has two owners, and none is lost.  First, recursion over the natural    *)
(* numbers; then chains of index blocks, and what an allocation, an        *)
(* extension and the creation of a file do to them; then the inductive     *)
(* invariant, and each step.                                               *)
(***************************************************************************)
EXTENDS FileSystem, FiniteSetTheorems, NaturalsInduction, WellFoundedInduction, TLAPS

----------------------------------------------------------------------------
(* Numbers and recursion *)

\* A non-empty set of natural numbers has a least one.
LEMMA NatMin ==
  ASSUME NEW T \in SUBSET Nat, T # {}
  PROVE  \E n \in T : \A m \in T : ~ (m < n)
<1>1. \E n \in T : \A m \in T : ~ (<<m, n>> \in OpToRel(<, Nat))
  BY NatLessThanWellFounded, WFMin
<1> QED BY <1>1 DEF OpToRel

\* Induction, for a set instead of a predicate.
LEMMA NatInd ==
  ASSUME NEW S, 0 \in S, \A n \in Nat : n \in S => n + 1 \in S
  PROVE  \A n \in Nat : n \in S
<1> DEFINE T == {n \in Nat : n \notin S}
<1> SUFFICES ASSUME T # {} PROVE FALSE
  OBVIOUS
<1>1. PICK n \in T : \A m \in T : ~ (m < n)
  BY NatMin
<1>2. n \in Nat /\ n # 0
  OBVIOUS
<1>3. n - 1 \in Nat /\ n - 1 < n /\ n - 1 \in S
  BY <1>1, <1>2
<1> QED BY <1>1, <1>2, <1>3

\* Division, where a sector or an index block is looked for.
LEMMA Division ==
  ASSUME NEW k \in Nat \ {0}
  PROVE  /\ \A a \in Nat : a \div k \in Nat /\ a % k \in 0..(k - 1)
         /\ \A a, b \in Nat : a <= b => a \div k <= b \div k
<1>1. ASSUME NEW a \in Nat PROVE a \div k \in Nat /\ a % k \in 0..(k - 1)
  OBVIOUS
<1>2. ASSUME NEW a \in Nat, NEW b \in Nat, a <= b PROVE a \div k <= b \div k
  BY <1>2
<1> QED BY <1>1, <1>2

\* A function that is given step by step exists: the loops of the model.
IsLoop(g, base, step) == g = [i \in Nat |-> IF i = 0 THEN base ELSE step[<<g[i - 1], i>>]]

\* What is given turn by turn is a function of the number of turns.
LEMMA Loop ==
  ASSUME NEW base, NEW step
  PROVE  \E g : IsLoop(g, base, step)
<1> DEFINE Body(g, i) == IF i = 0 THEN base ELSE step[<<g[i - 1], i>>]
           Upto(g, n) == g = [i \in 0..n |-> Body(g, i)]
           T == {n \in Nat : \E g : Upto(g, n)}
<1>1. 0 \in T
  <2> DEFINE g == [i \in 0..0 |-> base]
  <2>1. g = [i \in 0..0 |-> Body(g, i)]
    OBVIOUS
  <2> QED BY <2>1
<1>2. ASSUME NEW n \in Nat, n \in T PROVE n + 1 \in T
  <2>1. PICK g : Upto(g, n)
    BY <1>2
  <2> DEFINE h == [i \in 0..(n + 1) |-> IF i = n + 1 THEN step[<<g[n], n + 1>>] ELSE g[i]]
  <2>2. \A i \in 0..n : h[i] = g[i]
    OBVIOUS
  <2>3. \A i \in 0..(n + 1) : h[i] = Body(h, i)
    <3> TAKE i \in 0..(n + 1)
    <3>1. CASE i = 0
      <4>1. h[i] = g[i] /\ g[0] = base
        BY <2>1, <2>2, <3>1
      <4> QED BY <4>1, <3>1
    <3>2. CASE i = n + 1
      <4>1. h[i - 1] = g[n] /\ i # 0
        BY <3>2, <2>2
      <4> QED BY <4>1, <3>2
    <3>3. CASE i \in 1..n
      <4>1. h[i] = g[i] /\ h[i - 1] = g[i - 1]
        BY <3>3, <2>2
      <4>2. g[i] = step[<<g[i - 1], i>>]
        BY <3>3, <2>1
      <4> QED BY <4>1, <4>2, <3>3
    <3> QED BY <3>1, <3>2, <3>3
  <2>4. Upto(h, n + 1)
    <3> HIDE DEF h
    <3>0. PICK w : w = [i \in 0..(n + 1) |-> Body(h, i)]
      OBVIOUS
    <3>1. h = [i \in 0..(n + 1) |-> h[i]]
      BY DEF h
    <3>2. w = [i \in 0..(n + 1) |-> w[i]]
      BY <3>0
    <3>3. \A i \in 0..(n + 1) : h[i] = w[i]
      BY <2>3, <3>0
    <3>4. h = w
      BY <3>1, <3>2, <3>3
    <3> QED BY <3>0, <3>4
  <2> HIDE DEF h, Upto
  <2> QED BY <2>4
<1>3. \A n \in Nat : \E g : Upto(g, n)
  <2> HIDE DEF T
  <2>1. \A n \in Nat : n \in T
    BY <1>1, <1>2, NatInd
  <2> QED BY <2>1 DEF T
<1>4. ASSUME NEW n \in Nat, NEW m \in Nat, NEW g, NEW h, Upto(g, n), Upto(h, m)
      PROVE  \A i \in Nat : i <= n /\ i <= m => g[i] = h[i]
  <2> DEFINE S == {i \in Nat : i <= n /\ i <= m => g[i] = h[i]}
  <2>1. 0 \in S
    BY <1>4
  <2>2. ASSUME NEW i \in Nat, i \in S PROVE i + 1 \in S
    <3> SUFFICES ASSUME i + 1 <= n, i + 1 <= m PROVE g[i + 1] = h[i + 1]
      OBVIOUS
    <3>1. i + 1 \in 0..n /\ i + 1 \in 0..m /\ i + 1 # 0 /\ (i + 1) - 1 = i /\ g[i] = h[i]
      BY <2>2
    <3>2. g[i + 1] = step[<<g[i], i + 1>>] /\ h[i + 1] = step[<<h[i], i + 1>>]
      BY <1>4, <3>1
    <3> QED BY <3>1, <3>2
  <2> HIDE DEF S
  <2>3. \A i \in Nat : i \in S
    BY <2>1, <2>2, NatInd
  <2> QED BY <2>3 DEF S
<1> DEFINE c == [n \in Nat |-> CHOOSE g : Upto(g, n)]
           f == [n \in Nat |-> c[n][n]]
<1>5. \A n \in Nat : Upto(c[n], n)
  <2> HIDE DEF Upto
  <2> QED BY <1>3
<1>6. \A n \in Nat : f[n] = Body(f, n)
  <2> TAKE n \in Nat
  <2>1. CASE n = 0
    <3>0. Upto(c[0], 0) /\ 0 \in 0..0
      BY <1>5
    <3>1. c[0][0] = base
      <4> HIDE DEF c
      <4> QED BY <3>0
    <3> QED BY <3>1, <2>1
  <2>2. CASE n # 0
    <3>1. n - 1 \in Nat /\ n \in 0..n
      BY <2>2
    <3>2. c[n][n] = step[<<c[n][n - 1], n>>]
      <4> HIDE DEF c
      <4> QED BY <1>5, <2>2, <3>1
    <3>3. c[n][n - 1] = c[n - 1][n - 1]
      <4> HIDE DEF c, Upto
      <4> QED BY <1>4, <1>5, <3>1
    <3>4. f[n] = c[n][n] /\ f[n - 1] = c[n - 1][n - 1]
      <4> HIDE DEF c
      <4> QED BY <3>1
    <3> HIDE DEF c, f
    <3> QED BY <2>2, <3>2, <3>3, <3>4
  <2> QED BY <2>1, <2>2
<1>7. f = [n \in Nat |-> Body(f, n)]
  <2> HIDE DEF c
  <2>0. PICK w : w = [n \in Nat |-> Body(f, n)]
    OBVIOUS
  <2>1. f = [n \in Nat |-> f[n]]
    OBVIOUS
  <2> HIDE DEF f
  <2>2. w = [n \in Nat |-> w[n]]
    BY <2>0
  <2>3. \A n \in Nat : f[n] = w[n]
    BY <1>6, <2>0
  <2>4. f = w
    BY <2>1, <2>2, <2>3
  <2> QED BY <2>0, <2>4
<1> HIDE DEF f
<1>8. IsLoop(f, base, step)
  BY <1>7 DEF IsLoop
<1> QED BY <1>8

\* The same for the chain of a file.
IsChain(g, d, start) == g = [i \in Nat |-> IF i = 0 THEN start ELSE d[g[i - 1]].next]

\* The same, for the blocks of a chain.
LEMMA Links ==
  ASSUME NEW start, NEW d
  PROVE  \E g : IsChain(g, d, start)
<1> DEFINE Body(g, i) == IF i = 0 THEN start ELSE d[g[i - 1]].next
           Upto(g, n) == g = [i \in 0..n |-> Body(g, i)]
           T == {n \in Nat : \E g : Upto(g, n)}
<1>1. 0 \in T
  <2> DEFINE g == [i \in 0..0 |-> start]
  <2>1. g = [i \in 0..0 |-> Body(g, i)]
    OBVIOUS
  <2> QED BY <2>1
<1>2. ASSUME NEW n \in Nat, n \in T PROVE n + 1 \in T
  <2>1. PICK g : Upto(g, n)
    BY <1>2
  <2> DEFINE h == [i \in 0..(n + 1) |-> IF i = n + 1 THEN d[g[n]].next ELSE g[i]]
  <2>2. \A i \in 0..n : h[i] = g[i]
    OBVIOUS
  <2>3. \A i \in 0..(n + 1) : h[i] = Body(h, i)
    <3> TAKE i \in 0..(n + 1)
    <3>1. CASE i = 0
      <4>1. h[i] = g[i] /\ g[0] = start
        BY <2>1, <2>2, <3>1
      <4> QED BY <4>1, <3>1
    <3>2. CASE i = n + 1
      <4>1. h[i - 1] = g[n] /\ i # 0
        BY <3>2, <2>2
      <4> QED BY <4>1, <3>2
    <3>3. CASE i \in 1..n
      <4>1. h[i] = g[i] /\ h[i - 1] = g[i - 1]
        BY <3>3, <2>2
      <4>2. g[i] = d[g[i - 1]].next
        BY <3>3, <2>1
      <4> QED BY <4>1, <4>2, <3>3
    <3> QED BY <3>1, <3>2, <3>3
  <2>4. Upto(h, n + 1)
    <3> HIDE DEF h
    <3>0. PICK w : w = [i \in 0..(n + 1) |-> Body(h, i)]
      OBVIOUS
    <3>1. h = [i \in 0..(n + 1) |-> h[i]]
      BY DEF h
    <3>2. w = [i \in 0..(n + 1) |-> w[i]]
      BY <3>0
    <3>3. \A i \in 0..(n + 1) : h[i] = w[i]
      BY <2>3, <3>0
    <3>4. h = w
      BY <3>1, <3>2, <3>3
    <3> QED BY <3>0, <3>4
  <2> HIDE DEF h, Upto
  <2> QED BY <2>4
<1>3. \A n \in Nat : \E g : Upto(g, n)
  <2> HIDE DEF T
  <2>1. \A n \in Nat : n \in T
    BY <1>1, <1>2, NatInd
  <2> QED BY <2>1 DEF T
<1>4. ASSUME NEW n \in Nat, NEW m \in Nat, NEW g, NEW h, Upto(g, n), Upto(h, m)
      PROVE  \A i \in Nat : i <= n /\ i <= m => g[i] = h[i]
  <2> DEFINE S == {i \in Nat : i <= n /\ i <= m => g[i] = h[i]}
  <2>1. 0 \in S
    BY <1>4
  <2>2. ASSUME NEW i \in Nat, i \in S PROVE i + 1 \in S
    <3> SUFFICES ASSUME i + 1 <= n, i + 1 <= m PROVE g[i + 1] = h[i + 1]
      OBVIOUS
    <3>1. i + 1 \in 0..n /\ i + 1 \in 0..m /\ i + 1 # 0 /\ (i + 1) - 1 = i /\ g[i] = h[i]
      BY <2>2
    <3>2. g[i + 1] = d[g[i]].next /\ h[i + 1] = d[h[i]].next
      BY <1>4, <3>1
    <3> QED BY <3>1, <3>2
  <2> HIDE DEF S
  <2>3. \A i \in Nat : i \in S
    BY <2>1, <2>2, NatInd
  <2> QED BY <2>3 DEF S
<1> DEFINE c == [n \in Nat |-> CHOOSE g : Upto(g, n)]
           f == [n \in Nat |-> c[n][n]]
<1>5. \A n \in Nat : Upto(c[n], n)
  <2> HIDE DEF Upto
  <2> QED BY <1>3
<1>6. \A n \in Nat : f[n] = Body(f, n)
  <2> TAKE n \in Nat
  <2>1. CASE n = 0
    <3>0. Upto(c[0], 0) /\ 0 \in 0..0
      <4> HIDE DEF c, Upto
      <4> QED BY <1>5
    <3>1. c[0][0] = start
      <4> HIDE DEF c
      <4> QED BY <3>0
    <3> QED BY <3>1, <2>1
  <2>2. CASE n # 0
    <3>1. n - 1 \in Nat /\ n \in 0..n
      BY <2>2
    <3>2. c[n][n] = d[c[n][n - 1]].next
      <4> HIDE DEF c
      <4> QED BY <1>5, <2>2, <3>1
    <3>3. c[n][n - 1] = c[n - 1][n - 1]
      <4> HIDE DEF c, Upto
      <4> QED BY <1>4, <1>5, <3>1
    <3>4. f[n] = c[n][n] /\ f[n - 1] = c[n - 1][n - 1]
      <4> HIDE DEF c
      <4> QED BY <3>1
    <3> HIDE DEF c, f
    <3> QED BY <2>2, <3>2, <3>3, <3>4
  <2> QED BY <2>1, <2>2
<1>7. f = [n \in Nat |-> Body(f, n)]
  <2> HIDE DEF c
  <2>0. PICK w : w = [n \in Nat |-> Body(f, n)]
    OBVIOUS
  <2>1. f = [n \in Nat |-> f[n]]
    OBVIOUS
  <2> HIDE DEF f
  <2>2. w = [n \in Nat |-> w[n]]
    BY <2>0
  <2>3. \A n \in Nat : f[n] = w[n]
    BY <1>6, <2>0
  <2>4. f = w
    BY <2>1, <2>2, <2>3
  <2> QED BY <2>0, <2>4
<1> HIDE DEF f
<1>8. IsChain(f, d, start)
  BY <1>7 DEF IsChain
<1> QED BY <1>8

----------------------------------------------------------------------------
(* Chains *)

\* The blocks of a chain, one after the other.
After(d, b) == d[b].next

\* The block a walk along the chain is at after n + 1 turns.
LEMMA NthBlock ==
  ASSUME NEW d, NEW start
  PROVE  /\ NthIndexBlock(d, start, 0) = start
         /\ \A n \in Nat : NthIndexBlock(d, start, n + 1) = After(d, NthIndexBlock(d, start, n))
<1> DEFINE f == CHOOSE g : IsChain(g, d, start)
<1>1. IsChain(f, d, start)
  BY Links
<1>2. \A n : NthIndexBlock(d, start, n) = f[n]
  BY DEF NthIndexBlock, IsChain
<1> HIDE DEF f
<1>3. f[0] = start /\ \A n \in Nat : f[n + 1] = d[f[n]].next
  <2>1. \A n \in Nat : n + 1 \in Nat /\ n + 1 # 0 /\ (n + 1) - 1 = n
    OBVIOUS
  <2> QED BY <1>1, <2>1 DEF IsChain
<1> QED BY <1>2, <1>3 DEF After

\* A set that has the first block, and with each its next, has the chain.
LEMMA ChainWithin ==
  ASSUME NEW d, NEW start, NEW C, start \in C, \A b \in C : d[b].next \in C
  PROVE  /\ \A n \in Nat : NthIndexBlock(d, start, n) \in C
         /\ Chain(d, start) \subseteq C
<1> DEFINE S == {n \in Nat : NthIndexBlock(d, start, n) \in C}
<1>1. 0 \in S
  BY NthBlock
<1>2. ASSUME NEW n \in Nat, n \in S PROVE n + 1 \in S
  <2>0. NthIndexBlock(d, start, n + 1) = After(d, NthIndexBlock(d, start, n))
    BY NthBlock, ZenonT(40)
  <2>1. NthIndexBlock(d, start, n + 1) = d[NthIndexBlock(d, start, n)].next
    BY <2>0 DEF After
  <2>2. d[NthIndexBlock(d, start, n)].next \in C
    BY <1>2
  <2> QED BY <2>1, <2>2
<1> HIDE DEF S
<1>3. \A n \in Nat : n \in S
  BY <1>1, <1>2, NatInd
<1>4. 0..Sectors \subseteq Nat
  OBVIOUS
<1> QED BY <1>3, <1>4 DEF S, Chain

\* As many steps as there are sectors reach every block of a chain.
LEMMA ChainClosed ==
  ASSUME NEW d, NEW start \in Sector, \A b \in Chain(d, start) : d[b].next \in Sector
  PROVE  /\ start \in Chain(d, start) /\ Chain(d, start) \subseteq Sector
         /\ \A b \in Chain(d, start) : d[b].next \in Chain(d, start)
         /\ \A n \in Nat : NthIndexBlock(d, start, n) \in Chain(d, start)
<1> DEFINE nth == [n \in Nat |-> NthIndexBlock(d, start, n)]
           C == Chain(d, start)
<1>1. Sectors \in Nat
  BY FileSystemAssumption
<1>2. /\ nth[0] = start /\ \A n \in Nat : nth[n + 1] = d[nth[n]].next
      /\ C = {nth[n] : n \in 0..Sectors}
  <2>1. \A n \in Nat : nth[n] = NthIndexBlock(d, start, n) /\ n + 1 \in Nat
    OBVIOUS
  <2>2. C = {nth[n] : n \in 0..Sectors}
    BY <1>1, <2>1 DEF Chain
  <2>3. \A n \in Nat : NthIndexBlock(d, start, n + 1) = After(d, NthIndexBlock(d, start, n))
    BY NthBlock
  <2> QED BY <2>1, <2>2, <2>3, NthBlock DEF After
<1>3. \A n \in Nat : nth[n] = NthIndexBlock(d, start, n)
  OBVIOUS
<1> HIDE DEF nth
<1>4. start \in C
  BY <1>1, <1>2
<1>5. C \subseteq Sector
  <2> SUFFICES ASSUME NEW n \in 0..Sectors PROVE nth[n] \in Sector
    BY <1>2
  <2>1. CASE n = 0
    BY <1>2, <2>1
  <2>2. CASE n # 0
    <3>1. n - 1 \in 0..Sectors /\ n - 1 \in Nat /\ (n - 1) + 1 = n
      BY <1>1, <2>2
    <3>2. nth[n - 1] \in C
      BY <1>2, <3>1
    <3>3. nth[n] = d[nth[n - 1]].next
      BY <1>2, <3>1
    <3> QED BY <3>2, <3>3
  <2> QED BY <2>1, <2>2
<1>6. PICK i \in 0..Sectors, j \in 0..Sectors : i < j /\ nth[i] = nth[j]
  <2> DEFINE f == [n \in 0..Sectors |-> nth[n]]
  <2>1. /\ IsFiniteSet(0..Sectors) /\ Cardinality(0..Sectors) = Sectors + 1
        /\ IsFiniteSet(Sector) /\ Cardinality(Sector) = Sectors
    <3>1. /\ IsFiniteSet(0..Sectors)
          /\ Cardinality(0..Sectors) = IF 0 > Sectors THEN 0 ELSE Sectors - 0 + 1
      BY <1>1, FS_Interval
    <3>2. /\ IsFiniteSet(0..(Sectors - 1))
          /\ Cardinality(0..(Sectors - 1)) = IF 0 > Sectors - 1 THEN 0 ELSE (Sectors - 1) - 0 + 1
      BY <1>1, FS_Interval
    <3> QED BY <1>1, <3>1, <3>2 DEF Sector
  <2>2. f \in [0..Sectors -> Sector]
    BY <1>2, <1>5
  <2>3. Cardinality(0..Sectors) > Cardinality(Sector)
    BY <1>1, <2>1
  <2>4. \E x, y \in 0..Sectors : x # y /\ f[x] = f[y]
    <3> HIDE DEF f
    <3> QED BY <2>1, <2>2, <2>3, FS_PigeonHole, ZenonT(40)
  <2>5. PICK x \in 0..Sectors, y \in 0..Sectors : x # y /\ nth[x] = nth[y]
    BY <2>4
  <2> QED BY <1>1, <2>5
<1>7. \A n \in Nat : \E k \in 0..(j - 1) : nth[n] = nth[k]
  <2> DEFINE S == {n \in Nat : \E k \in 0..(j - 1) : nth[n] = nth[k]}
  <2>1. 0 \in S
    BY <1>6
  <2>2. ASSUME NEW n \in Nat, n \in S PROVE n + 1 \in S
    <3>1. PICK k \in 0..(j - 1) : nth[n] = nth[k]
      BY <2>2
    <3>2. k \in Nat /\ nth[n + 1] = nth[k + 1]
      BY <1>2, <3>1
    <3>3. CASE k + 1 = j
      <4>1. i \in 0..(j - 1)
        BY <1>6
      <4> QED BY <1>6, <3>2, <3>3, <4>1
    <3>4. CASE k + 1 # j
      <4>1. k + 1 \in 0..(j - 1)
        BY <1>6, <3>4
      <4> QED BY <3>2, <4>1
    <3> QED BY <3>3, <3>4
  <2> HIDE DEF S
  <2>3. \A n \in Nat : n \in S
    BY <2>1, <2>2, NatInd
  <2> QED BY <2>3 DEF S
<1>8. \A n \in Nat : nth[n] \in C
  <2> TAKE n \in Nat
  <2>1. PICK k \in 0..(j - 1) : nth[n] = nth[k]
    BY <1>7
  <2>2. k \in 0..Sectors
    BY <1>1, <1>6
  <2> QED BY <1>2, <2>1, <2>2
<1>9. ASSUME NEW b \in C PROVE d[b].next \in C
  <2>1. PICK n \in 0..Sectors : b = nth[n]
    BY <1>2
  <2>2. n \in Nat /\ n + 1 \in Nat /\ nth[n + 1] = d[b].next
    BY <1>2, <2>1
  <2> QED BY <1>8, <2>2
<1> QED BY <1>3, <1>4, <1>5, <1>8, <1>9

\* A chain is the same on two disks that have the same next blocks in it.
LEMMA ChainSame ==
  ASSUME NEW d, NEW e, NEW start \in Sector,
         \A b \in Chain(d, start) : d[b].next \in Sector /\ e[b].next = d[b].next
  PROVE  /\ Chain(e, start) = Chain(d, start)
         /\ \A n \in Nat : NthIndexBlock(e, start, n) = NthIndexBlock(d, start, n)
<1>1. \A n \in Nat : NthIndexBlock(d, start, n) \in Chain(d, start)
  BY ChainClosed
<1> DEFINE S == {n \in Nat : NthIndexBlock(e, start, n) = NthIndexBlock(d, start, n)}
<1>2. 0 \in S
  BY NthBlock
<1>3. ASSUME NEW n \in Nat, n \in S PROVE n + 1 \in S
  <2>0. /\ NthIndexBlock(d, start, n + 1) = After(d, NthIndexBlock(d, start, n))
        /\ NthIndexBlock(e, start, n + 1) = After(e, NthIndexBlock(e, start, n))
    BY NthBlock
  <2>1. /\ NthIndexBlock(d, start, n + 1) = d[NthIndexBlock(d, start, n)].next
        /\ NthIndexBlock(e, start, n + 1) = e[NthIndexBlock(e, start, n)].next
    BY <2>0 DEF After
  <2>2. e[NthIndexBlock(d, start, n)].next = d[NthIndexBlock(d, start, n)].next
    BY <1>1
  <2>3. NthIndexBlock(e, start, n) = NthIndexBlock(d, start, n)
    BY <1>3
  <2> QED BY <2>1, <2>2, <2>3
<1> HIDE DEF S
<1>4. \A n \in Nat : n \in S
  BY <1>2, <1>3, NatInd
<1>5. \A n \in Nat : NthIndexBlock(e, start, n) = NthIndexBlock(d, start, n)
  BY <1>4 DEF S
<1>6. 0..Sectors \subseteq Nat
  OBVIOUS
<1> QED BY <1>5, <1>6 DEF Chain

----------------------------------------------------------------------------
(* Files on a disk d with the free map u *)

InodeRec == [start : Sector, end : Sector, length : Nat]
IndexRec == [next : Sector, data : [Slot -> Sector]]
DataRec == [bytes : [0..(SectorBytes - 1) -> Byte \cup {Zero}]]

\* The index blocks of the file with its inode in f, and all its sectors.
Blocks(d, f) == Chain(d, d[f].start)
Sects(d, f) == SectorsOf(d, f, d[f].start)
Owned(d, S) == UNION {Sects(d, f) : f \in S}

\* The file is as it should be: what it consists of is what it is taken for.
FileOK(d, f) ==
  /\ d[f] \in InodeRec /\ d[f].end \in Blocks(d, f)
  /\ \A b \in Blocks(d, f) : d[b] \in IndexRec /\ \A s \in DataOf(d, b) : d[s] \in DataRec
  /\ Whole(d, f, d[f].start)

\* All of the files S are, their sectors are marked, and no two share one.
Image(d, u, S) ==
  /\ d \in [Sector -> Block] /\ u \subseteq Sector /\ S \subseteq Sector
  /\ \A f \in S : FileOK(d, f) /\ Sects(d, f) \subseteq u
  /\ \A f, g \in S : f # g => Sects(d, f) \cap Sects(d, g) = {}

\* From one such image to the next, no inode and no chain changes, and no
\* sector is lost.
Kept(d, u, e, w, S) ==
  /\ Image(e, w, S) /\ u \subseteq w
  /\ \A g \in S : /\ e[g] = d[g] /\ Blocks(e, g) = Blocks(d, g)
                  /\ \A b \in Blocks(d, g) : e[b].next = d[b].next
  /\ u = Owned(d, S) => w = Owned(e, S)

\* A file in its parts.
LEMMA FileParts ==
  ASSUME NEW d, NEW f \in Sector, FileOK(d, f)
  PROVE  /\ d[f].start \in Blocks(d, f) /\ Blocks(d, f) \subseteq Sector
         /\ \A b \in Blocks(d, f) : d[b].next \in Blocks(d, f)
         /\ \A n \in Nat : NthIndexBlock(d, d[f].start, n) \in Blocks(d, f)
         /\ \A b \in Blocks(d, f) : /\ d[b] \in IndexRec
                                    /\ DataOf(d, b) \subseteq Sects(d, f) \ (Blocks(d, f) \cup {f})
                                    /\ \A s \in DataOf(d, b) : d[s] \in DataRec
         /\ f \notin Blocks(d, f)
         /\ {f} \cup Blocks(d, f) \subseteq Sects(d, f)
         /\ \A s \in Sects(d, f) : \/ s \in {f} \cup Blocks(d, f)
                                   \/ \E b \in Blocks(d, f) : s \in DataOf(d, b)
         /\ Sects(d, f) \subseteq Sector
<1>1. d[f].start \in Sector /\ \A b \in Blocks(d, f) : d[b].next \in Sector
  BY DEF FileOK, InodeRec, IndexRec
<1>2. /\ d[f].start \in Blocks(d, f) /\ Blocks(d, f) \subseteq Sector
      /\ \A b \in Blocks(d, f) : d[b].next \in Blocks(d, f)
      /\ \A n \in Nat : NthIndexBlock(d, d[f].start, n) \in Blocks(d, f)
  BY <1>1, ChainClosed DEF Blocks
<1>3. Sects(d, f) = {f} \cup UNION {{b} \cup DataOf(d, b) : b \in Blocks(d, f)}
  BY DEF Sects, SectorsOf, Blocks
<1>4. /\ f \notin Blocks(d, f)
      /\ \A b \in Blocks(d, f) : DataOf(d, b) \cap (Blocks(d, f) \cup {f}) = {}
  BY DEF FileOK, Whole, Blocks
<1>5. \A b \in Blocks(d, f) : d[b] \in IndexRec /\ \A s \in DataOf(d, b) : d[s] \in DataRec
  BY DEF FileOK
<1>6. \A b \in Blocks(d, f) : DataOf(d, b) \subseteq Sector
  BY <1>5 DEF DataOf, IndexRec
<1> HIDE DEF Blocks
<1> QED BY <1>2, <1>3, <1>4, <1>5, <1>6

\* Nothing happens to a file whose inode and index blocks are left alone and
\* whose data blocks stay such.
Alike(d, e, f) ==
  \A s \in Sects(d, f) : e[s] = d[s] \/ (s \notin Blocks(d, f) \cup {f} /\ e[s] \in DataRec)

\* A file is the same on two images that are alike in all of its sectors.
LEMMA FileSame ==
  ASSUME NEW d, NEW e, NEW f \in Sector, FileOK(d, f), Alike(d, e, f)
  PROVE  /\ FileOK(e, f) /\ e[f] = d[f]
         /\ Blocks(e, f) = Blocks(d, f) /\ Sects(e, f) = Sects(d, f)
         /\ \A b \in Blocks(d, f) : e[b] = d[b]
<1>1. e[f] = d[f] /\ \A b \in Blocks(d, f) : e[b] = d[b]
  BY FileParts DEF Alike
<1>2. Blocks(e, f) = Blocks(d, f)
  <2>1. d[f].start \in Sector /\ \A b \in Blocks(d, f) : d[b].next \in Sector
    BY FileParts
  <2>2. \A b \in Blocks(d, f) : e[b].next = d[b].next
    BY <1>1
  <2> QED BY <1>1, <2>1, <2>2, ChainSame DEF Blocks
<1>3. \A b \in Blocks(d, f) : DataOf(e, b) = DataOf(d, b)
  BY <1>1 DEF DataOf
<1>4. Sects(e, f) = Sects(d, f)
  <2>1. /\ Sects(e, f) = {f} \cup UNION {{b} \cup DataOf(e, b) : b \in Blocks(e, f)}
        /\ Sects(d, f) = {f} \cup UNION {{b} \cup DataOf(d, b) : b \in Blocks(d, f)}
    BY DEF Sects, SectorsOf, Blocks
  <2> QED BY <1>2, <1>3, <2>1
<1>5. Whole(e, f, e[f].start)
  <2>1. /\ f \notin Blocks(d, f)
        /\ \E b \in Blocks(d, f) : d[b].next = b
        /\ \A b \in Blocks(d, f) : DataOf(d, b) \cap (Blocks(d, f) \cup {f}) = {}
        /\ \A b, c \in Blocks(d, f), i, j \in Slot :
             d[b].data[i] = d[c].data[j] => b = c /\ (i = j \/ d[b].data[i] = b)
    BY DEF FileOK, Whole, Blocks
  <2>2. /\ f \notin Blocks(e, f)
        /\ \E b \in Blocks(e, f) : e[b].next = b
        /\ \A b \in Blocks(e, f) : DataOf(e, b) \cap (Blocks(e, f) \cup {f}) = {}
        /\ \A b, c \in Blocks(e, f), i, j \in Slot :
             e[b].data[i] = e[c].data[j] => b = c /\ (i = j \/ e[b].data[i] = b)
    BY <1>1, <1>2, <1>3, <2>1
  <2> QED BY <2>2 DEF Whole, Blocks
<1>6. \A b \in Blocks(d, f) : \A s \in DataOf(d, b) : e[s] \in DataRec
  BY FileParts DEF Alike
<1>7. FileOK(e, f)
  BY <1>1, <1>2, <1>3, <1>5, <1>6, FileParts DEF FileOK
<1> QED BY <1>1, <1>2, <1>4, <1>7

\* One file changes on the disk, the others do not see it.
LEMMA OthersSame ==
  ASSUME NEW d, NEW u, NEW S, Image(d, u, S), NEW f \in S, NEW e \in [Sector -> Block],
         \A s \in u \ Sects(d, f) : e[s] = d[s]
  PROVE  \A g \in S \ {f} : /\ FileOK(e, g) /\ e[g] = d[g]
                            /\ Blocks(e, g) = Blocks(d, g) /\ Sects(e, g) = Sects(d, g)
                            /\ \A b \in Blocks(d, g) : e[b] = d[b]
<1> TAKE g \in S \ {f}
<1>1. g \in Sector /\ FileOK(d, g) /\ Sects(d, g) \subseteq u \ Sects(d, f)
  BY DEF Image
<1>2. Alike(d, e, g)
  BY <1>1 DEF Alike
<1> QED BY <1>1, <1>2, FileSame

\* Slots of an index block b that were not set are given sectors N that were
\* free, each to one.
LEMMA Fill ==
  ASSUME NEW d, NEW u, NEW S, Image(d, u, S), NEW f \in S,
         NEW b \in Blocks(d, f), NEW N \in SUBSET (Sector \ u),
         NEW e \in [Sector -> Block], \A x \in N : e[x] \in DataRec,
         e[b] \in IndexRec, e[b].next = d[b].next,
         \A j \in Slot : \/ e[b].data[j] = d[b].data[j]
                         \/ d[b].data[j] = b /\ e[b].data[j] \in N,
         \A j, k \in Slot : e[b].data[j] \in N /\ e[b].data[j] = e[b].data[k] => j = k,
         \A x \in N : \E j \in Slot : e[b].data[j] = x,
         \A x \in Sector \ (N \cup {b}) : e[x] = d[x]
  PROVE  Kept(d, u, e, u \cup N, S)
<1>1. f \in Sector /\ FileOK(d, f) /\ Sects(d, f) \subseteq u
  BY DEF Image
<1>2. b \in Sects(d, f) /\ N \cap Sects(d, f) = {} /\ b # f /\ f \notin N /\ b \notin N
  BY <1>1, FileParts
<1>3. \A g \in S \ {f} : /\ FileOK(e, g) /\ e[g] = d[g]
                         /\ Blocks(e, g) = Blocks(d, g) /\ Sects(e, g) = Sects(d, g)
                         /\ \A x \in Blocks(d, g) : e[x] = d[x]
  <2>1. \A x \in u \ Sects(d, f) : e[x] = d[x]
    BY <1>1, <1>2 DEF Image
  <2> QED BY <2>1, OthersSame
<1>4. e[f] = d[f] /\ \A x \in Blocks(d, f) : e[x] = d[x] \/ x = b
  BY <1>1, <1>2, FileParts
<1>5. \A x \in Blocks(d, f) : e[x].next = d[x].next
  BY <1>4
<1>6. Blocks(e, f) = Blocks(d, f)
  <2>1. d[f].start \in Sector /\ \A x \in Blocks(d, f) : d[x].next \in Sector
    BY <1>1, FileParts
  <2> QED BY <1>4, <1>5, <2>1, ChainSame DEF Blocks
<1>7. \A x \in Blocks(d, f) : d[x] \in IndexRec /\ e[x] \in IndexRec
  BY <1>1, <1>4, FileParts
<1>8. \A x \in Blocks(d, f), j \in Slot :
        \/ e[x].data[j] = d[x].data[j]
        \/ x = b /\ d[b].data[j] = b /\ e[b].data[j] \in N
  BY <1>4
<1>9. \A x \in Blocks(d, f), j \in Slot : d[x].data[j] \notin N
  <2> TAKE x \in Blocks(d, f), j \in Slot
  <2>1. x \in Sects(d, f) /\ DataOf(d, x) \subseteq Sects(d, f)
    BY <1>1, FileParts
  <2>2. d[x].data[j] = x \/ d[x].data[j] \in DataOf(d, x)
    BY DEF DataOf
  <2> QED BY <1>2, <2>1, <2>2
<1>10. \A x \in Blocks(d, f) : DataOf(e, x) = IF x = b THEN DataOf(d, x) \cup N ELSE DataOf(d, x)
  <2> TAKE x \in Blocks(d, f)
  <2>1. CASE x = b
    <3>1. DataOf(e, b) \subseteq DataOf(d, b) \cup N
      BY <1>8 DEF DataOf
    <3>2. DataOf(d, b) \subseteq DataOf(e, b)
      <4> SUFFICES ASSUME NEW j \in Slot, d[b].data[j] # b PROVE d[b].data[j] \in DataOf(e, b)
        BY DEF DataOf
      <4>1. e[b].data[j] = d[b].data[j]
        BY <1>8
      <4> QED BY <4>1 DEF DataOf
    <3>3. N \subseteq DataOf(e, b)
      BY <1>2 DEF DataOf
    <3> QED BY <2>1, <3>1, <3>2, <3>3
  <2>2. CASE x # b
    <3>1. e[x] = d[x]
      BY <1>4, <2>2
    <3> QED BY <2>2, <3>1 DEF DataOf
  <2> QED BY <2>1, <2>2
<1>11. Sects(e, f) = Sects(d, f) \cup N
  <2>1. /\ Sects(e, f) = {f} \cup UNION {{x} \cup DataOf(e, x) : x \in Blocks(e, f)}
        /\ Sects(d, f) = {f} \cup UNION {{x} \cup DataOf(d, x) : x \in Blocks(d, f)}
    BY DEF Sects, SectorsOf, Blocks
  <2> HIDE DEF Blocks
  <2> QED BY <1>6, <1>10, <2>1
<1>12. Whole(e, f, e[f].start)
  <2>1. /\ f \notin Blocks(d, f)
        /\ \E x \in Blocks(d, f) : d[x].next = x
        /\ \A x \in Blocks(d, f) : DataOf(d, x) \cap (Blocks(d, f) \cup {f}) = {}
        /\ \A x, c \in Blocks(d, f), j, k \in Slot :
             d[x].data[j] = d[c].data[k] => x = c /\ (j = k \/ d[x].data[j] = x)
    BY <1>1 DEF FileOK, Whole, Blocks
  <2>2. f \notin Blocks(e, f) /\ \E x \in Blocks(e, f) : e[x].next = x
    BY <1>5, <1>6, <2>1
  <2>3. \A x \in Blocks(e, f) : DataOf(e, x) \cap (Blocks(e, f) \cup {f}) = {}
    <3>1. N \cap (Blocks(d, f) \cup {f}) = {}
      BY <1>1, <1>2, FileParts
    <3> QED BY <1>6, <1>10, <2>1, <3>1
  <2>4. \A x, c \in Blocks(e, f), j, k \in Slot :
          e[x].data[j] = e[c].data[k] => x = c /\ (j = k \/ e[x].data[j] = x)
    <3> SUFFICES ASSUME NEW x \in Blocks(d, f), NEW c \in Blocks(d, f), NEW j \in Slot,
                        NEW k \in Slot, e[x].data[j] = e[c].data[k]
                 PROVE  x = c /\ (j = k \/ e[x].data[j] = x)
      BY <1>6
    <3>1. /\ e[x].data[j] = d[x].data[j] \/ (x = b /\ e[b].data[j] \in N)
          /\ e[c].data[k] = d[c].data[k] \/ (c = b /\ e[b].data[k] \in N)
          /\ d[x].data[j] \notin N /\ d[c].data[k] \notin N
          /\ d[x].data[j] = d[c].data[k] => x = c /\ (j = k \/ d[x].data[j] = x)
      BY <1>8, <1>9, <2>1
    <3>2. e[b].data[j] \in N /\ e[b].data[j] = e[b].data[k] => j = k
      OBVIOUS
    <3> QED BY <3>1, <3>2
  <2> QED BY <2>2, <2>3, <2>4 DEF Whole, Blocks
<1>13. FileOK(e, f)
  <2>1. \A x \in Blocks(e, f) : \A y \in DataOf(e, x) : e[y] \in DataRec
    <3> SUFFICES ASSUME NEW x \in Blocks(d, f), NEW y \in DataOf(d, x) PROVE e[y] \in DataRec
      BY <1>6, <1>10
    <3>1. y \in Sects(d, f) /\ y \notin Blocks(d, f) /\ d[y] \in DataRec /\ y \in Sector
      BY <1>1, FileParts
    <3>2. y \notin N /\ y # b
      BY <1>2, <3>1
    <3> QED BY <3>1, <3>2
  <2>2. d[f] \in InodeRec /\ d[f].end \in Blocks(d, f)
    BY <1>1 DEF FileOK
  <2> QED BY <1>4, <1>6, <1>7, <1>12, <2>1, <2>2 DEF FileOK
<1>14. Image(e, u \cup N, S)
  <2>1. \A g \in S : FileOK(e, g) /\ Sects(e, g) \subseteq u \cup N
    BY <1>3, <1>11, <1>13 DEF Image
  <2>2. \A g, h \in S : g # h => Sects(e, g) \cap Sects(e, h) = {}
    BY <1>3, <1>11 DEF Image
  <2>3. u \cup N \subseteq Sector /\ S \subseteq Sector
    BY DEF Image
  <2> QED BY <2>1, <2>2, <2>3 DEF Image
<1>15. u = Owned(d, S) => u \cup N = Owned(e, S)
  <2>1. Owned(e, S) = Owned(d, S) \cup N
    BY <1>3, <1>11 DEF Owned
  <2> QED BY <2>1
<1>16. \A g \in S : /\ e[g] = d[g] /\ Blocks(e, g) = Blocks(d, g)
                    /\ \A x \in Blocks(d, g) : e[x].next = d[x].next
  BY <1>3, <1>4, <1>5, <1>6
<1> QED BY <1>14, <1>15, <1>16 DEF Kept

\* A data block is written.
LEMMA Overwrite ==
  ASSUME NEW d, NEW u, NEW S, Image(d, u, S), NEW f \in S,
         NEW b \in Blocks(d, f), NEW s \in DataOf(d, b),
         NEW e \in [Sector -> Block], e[s] \in DataRec, \A x \in Sector \ {s} : e[x] = d[x]
  PROVE  Kept(d, u, e, u, S)
<1>1. f \in Sector /\ FileOK(d, f) /\ Sects(d, f) \subseteq u
  BY DEF Image
<1>2. s \in Sects(d, f) \ (Blocks(d, f) \cup {f})
  BY <1>1, FileParts
<1>3. \A g \in S \ {f} : /\ FileOK(e, g) /\ e[g] = d[g]
                         /\ Blocks(e, g) = Blocks(d, g) /\ Sects(e, g) = Sects(d, g)
                         /\ \A x \in Blocks(d, g) : e[x] = d[x]
  <2>1. \A x \in u \ Sects(d, f) : e[x] = d[x]
    BY <1>1, <1>2 DEF Image
  <2> QED BY <2>1, OthersSame
<1>4. /\ FileOK(e, f) /\ e[f] = d[f]
      /\ Blocks(e, f) = Blocks(d, f) /\ Sects(e, f) = Sects(d, f)
      /\ \A x \in Blocks(d, f) : e[x] = d[x]
  <2>1. Sects(d, f) \subseteq Sector
    BY <1>1, FileParts
  <2>2. Alike(d, e, f)
    BY <1>2, <2>1 DEF Alike
  <2> QED BY <1>1, <2>2, FileSame
<1>5. \A g \in S : /\ FileOK(e, g) /\ e[g] = d[g]
                   /\ Blocks(e, g) = Blocks(d, g) /\ Sects(e, g) = Sects(d, g)
                   /\ \A x \in Blocks(d, g) : e[x] = d[x]
  BY <1>3, <1>4
<1>6. Image(e, u, S)
  BY <1>5 DEF Image
<1>7. Owned(e, S) = Owned(d, S)
  BY <1>5 DEF Owned
<1> QED BY <1>5, <1>6, <1>7 DEF Kept

----------------------------------------------------------------------------
(* The loops of reads and writes *)

WorkRec == [disk : [Sector -> Block], used : SUBSET Sector, ok : BOOLEAN]

\* A loop stays where its body stays.
LEMMA LoopIn ==
  ASSUME NEW W, NEW base \in W, NEW step \in [W \X Nat -> W]
  PROVE  \E g \in [Nat -> W] : IsLoop(g, base, step)
<1>1. PICK g : IsLoop(g, base, step)
  BY Loop
<1>2. /\ g = [n \in Nat |-> g[n]] /\ g[0] = base
      /\ \A n \in Nat : g[n + 1] = step[<<g[n], n + 1>>]
  <2>1. \A n \in Nat : n + 1 \in Nat /\ n + 1 # 0 /\ (n + 1) - 1 = n
    OBVIOUS
  <2>2. \A n \in Nat : g[n] = IF n = 0 THEN base ELSE step[<<g[n - 1], n>>]
    BY <1>1 DEF IsLoop
  <2>3. g = [n \in Nat |-> g[n]]
    BY <1>1 DEF IsLoop
  <2> QED BY <2>1, <2>2, <2>3
<1> DEFINE S == {n \in Nat : g[n] \in W}
<1>3. 0 \in S
  BY <1>2
<1>4. ASSUME NEW n \in Nat, n \in S PROVE n + 1 \in S
  <2>1. n + 1 \in Nat /\ n + 1 # 0 /\ (n + 1) - 1 = n /\ g[n] \in W
    BY <1>4
  <2>2. g[n + 1] = step[<<g[n], n + 1>>]
    BY <1>2, <2>1
  <2>3. <<g[n], n + 1>> \in W \X Nat
    BY <2>1
  <2>4. step[<<g[n], n + 1>>] \in W
    BY <2>3
  <2> QED BY <2>1, <2>2, <2>4
<1> HIDE DEF S
<1>5. \A n \in Nat : n \in S
  BY <1>3, <1>4, NatInd
<1>6. g \in [Nat -> W]
  BY <1>2, <1>5 DEF S
<1> QED BY <1>1, <1>6

\* What touching sectors one after the other does not leave, a read does not.
LEMMA ReadIn ==
  ASSUME NEW W, NEW w \in W, NEW start, NEW lo, NEW hi, SectorCount(lo, hi) \in Nat,
         \A v \in W, n \in Nat \ {0} : Touch(v, start, SectorStart(lo, n)) \in W
  PROVE  ReadSectors(w, start, lo, hi) \in W
<1> DEFINE Body(g, n) == IF n = 0 THEN w ELSE Touch(g[n - 1], start, SectorStart(lo, n))
           f == CHOOSE g : g = [n \in Nat |-> Body(g, n)]
           step == [p \in W \X Nat |->
                      IF p[2] = 0 THEN p[1] ELSE Touch(p[1], start, SectorStart(lo, p[2]))]
<1>1. step \in [W \X Nat -> W]
  OBVIOUS
<1>2. PICK g \in [Nat -> W] : IsLoop(g, w, step)
  <2> HIDE DEF step
  <2> QED BY <1>1, LoopIn
<1>3. \A n \in Nat : g[n] = Body(g, n)
  <2> TAKE n \in Nat
  <2>1. g[n] = IF n = 0 THEN w ELSE step[<<g[n - 1], n>>]
    BY <1>2 DEF IsLoop
  <2>2. CASE n = 0
    BY <2>1, <2>2
  <2>3. CASE n # 0
    <3>1. <<g[n - 1], n>> \in W \X Nat
      BY <2>3
    <3>2. step[<<g[n - 1], n>>] = Touch(g[n - 1], start, SectorStart(lo, n))
      BY <2>3, <3>1
    <3> QED BY <2>1, <2>3, <3>2
  <2> QED BY <2>2, <2>3
<1>4. g = [n \in Nat |-> Body(g, n)]
  <2> HIDE DEF step
  <2>0. PICK v : v = [n \in Nat |-> Body(g, n)]
    OBVIOUS
  <2>1. v = [n \in Nat |-> v[n]] /\ g = [n \in Nat |-> g[n]]
    BY <2>0
  <2>2. \A n \in Nat : v[n] = g[n]
    BY <1>3, <2>0
  <2> QED BY <2>0, <2>1, <2>2
<1>5. f = [n \in Nat |-> Body(f, n)]
  BY <1>4
<1>6. ReadSectors(w, start, lo, hi) = f[SectorCount(lo, hi)]
  BY DEF ReadSectors
<1> HIDE DEF f, step
<1> DEFINE S == {n \in Nat : f[n] \in W}
<1>7. 0 \in S
  BY <1>5
<1>8. ASSUME NEW n \in Nat, n \in S PROVE n + 1 \in S
  <2>1. n + 1 \in Nat \ {0} /\ (n + 1) - 1 = n
    OBVIOUS
  <2>2. f[n + 1] = Touch(f[n], start, SectorStart(lo, n + 1))
    BY <1>5, <2>1
  <2> QED BY <1>8, <2>1, <2>2
<1> HIDE DEF S
<1>9. \A n \in Nat : n \in S
  BY <1>7, <1>8, NatInd
<1> QED BY <1>6, <1>9 DEF S

\* The same for a write.
LEMMA WriteIn ==
  ASSUME NEW W, NEW w \in W, NEW start, NEW lo, NEW hi, NEW byte,
         SectorCount(lo, hi) \in Nat,
         \A v \in W, n \in Nat \ {0} :
           WriteSector(v, start, SectorStart(lo, n), lo, hi, byte) \in W
  PROVE  WriteSectors(w, start, lo, hi, byte) \in W
<1> DEFINE Body(g, n) == IF n = 0 THEN w
                         ELSE WriteSector(g[n - 1], start, SectorStart(lo, n), lo, hi, byte)
           f == CHOOSE g : g = [n \in Nat |-> Body(g, n)]
           step == [p \in W \X Nat |->
                      IF p[2] = 0 THEN p[1]
                      ELSE WriteSector(p[1], start, SectorStart(lo, p[2]), lo, hi, byte)]
<1>1. step \in [W \X Nat -> W]
  OBVIOUS
<1>2. PICK g \in [Nat -> W] : IsLoop(g, w, step)
  <2> HIDE DEF step
  <2> QED BY <1>1, LoopIn
<1>3. \A n \in Nat : g[n] = Body(g, n)
  <2> TAKE n \in Nat
  <2>1. g[n] = IF n = 0 THEN w ELSE step[<<g[n - 1], n>>]
    BY <1>2 DEF IsLoop
  <2>2. CASE n = 0
    BY <2>1, <2>2
  <2>3. CASE n # 0
    <3>1. <<g[n - 1], n>> \in W \X Nat
      BY <2>3
    <3>2. step[<<g[n - 1], n>>] = WriteSector(g[n - 1], start, SectorStart(lo, n), lo, hi, byte)
      BY <2>3, <3>1
    <3> QED BY <2>1, <2>3, <3>2
  <2> QED BY <2>2, <2>3
<1>4. g = [n \in Nat |-> Body(g, n)]
  <2> HIDE DEF step
  <2>0. PICK v : v = [n \in Nat |-> Body(g, n)]
    OBVIOUS
  <2>1. v = [n \in Nat |-> v[n]] /\ g = [n \in Nat |-> g[n]]
    BY <2>0
  <2>2. \A n \in Nat : v[n] = g[n]
    BY <1>3, <2>0
  <2> QED BY <2>0, <2>1, <2>2
<1>5. f = [n \in Nat |-> Body(f, n)]
  BY <1>4
<1>6. WriteSectors(w, start, lo, hi, byte) = f[SectorCount(lo, hi)]
  BY DEF WriteSectors
<1> HIDE DEF f, step
<1> DEFINE S == {n \in Nat : f[n] \in W}
<1>7. 0 \in S
  BY <1>5
<1>8. ASSUME NEW n \in Nat, n \in S PROVE n + 1 \in S
  <2>1. n + 1 \in Nat \ {0} /\ (n + 1) - 1 = n
    OBVIOUS
  <2>2. f[n + 1] = WriteSector(f[n], start, SectorStart(lo, n + 1), lo, hi, byte)
    BY <1>5, <2>1
  <2> QED BY <1>8, <2>1, <2>2
<1> HIDE DEF S
<1>9. \A n \in Nat : n \in S
  BY <1>7, <1>8, NatInd
<1> QED BY <1>6, <1>9 DEF S

\* The free map always finds a sector while there is one.
LEMMA FirstFreeIn ==
  ASSUME NEW u \in SUBSET Sector, u # Sector
  PROVE  FirstFree(u) \in Sector \ u
<1>1. Sector \ u \in SUBSET Nat /\ Sector \ u # {}
  <2>1. Sector \subseteq Nat
    BY FileSystemAssumption DEF Sector
  <2> QED BY <2>1
<1>2. PICK n \in Sector \ u : \A m \in Sector \ u : ~ (m < n)
  BY <1>1, NatMin
<1>3. \A m \in Sector \ u : n <= m
  BY <1>1, <1>2
<1> QED BY <1>3 DEF FirstFree, Min

\* Nothing done leaves the files as they are.
LEMMA KeptSame ==
  ASSUME NEW d, NEW u, NEW S, Image(d, u, S)
  PROVE  Kept(d, u, d, u, S)
  BY DEF Kept

\* Two pieces of work that leave the files as they are do so together.
LEMMA KeptThen ==
  ASSUME NEW d, NEW u, NEW S, NEW e, NEW w, NEW g, NEW x,
         Kept(d, u, e, w, S), Kept(e, w, g, x, S)
  PROVE  Kept(d, u, g, x, S)
<1>1. /\ Image(g, x, S) /\ u \subseteq x
      /\ \A f \in S : /\ g[f] = d[f] /\ Blocks(g, f) = Blocks(d, f)
                      /\ \A b \in Blocks(d, f) : g[b].next = d[b].next
  BY DEF Kept
<1>2. u = Owned(d, S) => x = Owned(g, S)
  BY DEF Kept
<1> QED BY <1>1, <1>2 DEF Kept

\* Where a byte is looked for.
LEMMA Places ==
  ASSUME NEW pos \in Nat
  PROVE  IndexOf(pos) \in Nat /\ SlotOf(pos) \in Slot
<1>1. IndexBytes \in Nat \ {0}
  BY FileSystemAssumption DEF IndexBytes
<1> QED BY <1>1, Division, FileSystemAssumption DEF IndexOf, SlotOf, Slot

\* The numbers of sectors, and where the bytes of the nth of them begin.
LEMMA Counts ==
  ASSUME NEW lo \in Nat, NEW hi \in Nat
  PROVE  /\ SectorCount(lo, hi) \in Nat
         /\ \A n \in Nat \ {0} : SectorStart(lo, n) \in Nat
<1>1. SectorBytes \in Nat \ {0}
  BY FileSystemAssumption
<1>2. lo \div SectorBytes \in Nat
  BY <1>1, Division
<1>3. ASSUME NEW n \in Nat \ {0} PROVE SectorStart(lo, n) \in Nat
  <2>1. lo \div SectorBytes + n - 1 \in Nat
    BY <1>2
  <2> QED BY <1>1, <2>1 DEF SectorStart
<1>4. ASSUME lo < hi PROVE SectorCount(lo, hi) \in Nat
  <2>1. hi + SectorBytes - 1 \in Nat /\ lo <= hi + SectorBytes - 1
    BY <1>1, <1>4
  <2>2. /\ (hi + SectorBytes - 1) \div SectorBytes \in Nat
        /\ lo \div SectorBytes <= (hi + SectorBytes - 1) \div SectorBytes
    BY <1>1, <2>1, Division
  <2> QED BY <1>2, <1>4, <2>2 DEF SectorCount, BytesToSectors
<1>5. ~ (lo < hi) => SectorCount(lo, hi) \in Nat
  BY DEF SectorCount
<1> QED BY <1>3, <1>4, <1>5

\* byte_to_sector keeps all files, and finds a data block unless the disk is full.
LEMMA TouchKeeps ==
  ASSUME NEW v \in WorkRec, NEW S, Image(v.disk, v.used, S), NEW f \in S, NEW pos \in Nat,
         NEW w, w = Touch(v, v.disk[f].start, pos)
  PROVE  /\ w \in WorkRec /\ Kept(v.disk, v.used, w.disk, w.used, S)
         /\ w.ok => \E b \in Blocks(w.disk, f) :
                      DataSector(w.disk, v.disk[f].start, pos) \in DataOf(w.disk, b)
<1> DEFINE d == v.disk
           b == NthIndexBlock(d, d[f].start, IndexOf(pos))
           i == SlotOf(pos)
           s == FirstFree(v.used)
<1>1. f \in Sector /\ FileOK(d, f) /\ d \in [Sector -> Block] /\ v.used \subseteq Sector
  BY DEF Image
<1>2. b \in Blocks(d, f) /\ i \in Slot /\ b \in Sector /\ d[b] \in IndexRec
  BY <1>1, Places, FileParts
<1>3. w = IF d[b].data[i] # b THEN v
          ELSE IF ~ v.ok \/ v.used = Sector THEN [v EXCEPT !.ok = FALSE]
          ELSE [v EXCEPT !.used = @ \cup {s}, !.disk[s] = ZeroBlock, !.disk[b].data[i] = s]
  BY DEF Touch, Failed
<1>4. DataSector(w.disk, d[f].start, pos) =
        w.disk[NthIndexBlock(w.disk, d[f].start, IndexOf(pos))].data[i]
  BY DEF DataSector
<1> HIDE DEF b, i, s
<1>5. CASE d[b].data[i] # b
  <2>1. w = v
    BY <1>3, <1>5
  <2>2. d[b].data[i] \in DataOf(d, b)
    BY <1>2, <1>5 DEF DataOf
  <2> QED BY <1>2, <1>4, <2>1, <2>2, KeptSame DEF b
<1>6. CASE d[b].data[i] = b /\ (~ v.ok \/ v.used = Sector)
  <2>1. w = [v EXCEPT !.ok = FALSE]
    BY <1>3, <1>6
  <2>2. w \in WorkRec /\ w.disk = d /\ w.used = v.used /\ ~ w.ok
    BY <2>1 DEF WorkRec
  <2> QED BY <2>2, KeptSame
<1>7. CASE d[b].data[i] = b /\ v.ok /\ v.used # Sector
  <2>1. s \in Sector \ v.used
    BY <1>1, <1>7, FirstFreeIn DEF s
  <2>2. b \in v.used /\ b # s
    <3>1. Sects(d, f) \subseteq v.used
      BY DEF Image
    <3> QED BY <1>1, <1>2, <2>1, <3>1, FileParts
  <2>3. w = [v EXCEPT !.used = @ \cup {s}, !.disk[s] = ZeroBlock, !.disk[b].data[i] = s]
    BY <1>3, <1>7
  <2>4. ZeroBlock \in DataRec
    BY DEF ZeroBlock, DataBlock, DataRec
  <2>5. /\ w.used = v.used \cup {s} /\ w.ok = v.ok
        /\ w.disk = [[d EXCEPT ![s] = ZeroBlock] EXCEPT ![b].data[i] = s]
    BY <2>3 DEF WorkRec
  <2>6. [d EXCEPT ![s] = ZeroBlock][b] = d[b]
    BY <1>1, <1>2, <2>2
  <2>7. /\ \A x \in Sector \ {s, b} : w.disk[x] = d[x]
        /\ w.disk[s] = ZeroBlock /\ w.disk[b] = [d[b] EXCEPT !.data[i] = s]
    BY <1>1, <1>2, <2>1, <2>2, <2>5
  <2>8. /\ w.disk[b] \in IndexRec /\ w.disk[b].next = d[b].next
        /\ w.disk[b].data = [d[b].data EXCEPT ![i] = s]
    BY <1>2, <2>1, <2>7 DEF IndexRec
  <2>9. w.disk \in [Sector -> Block]
    <3>1. DOMAIN w.disk = Sector /\ w.disk = [x \in Sector |-> w.disk[x]]
      BY <1>1, <2>5
    <3>2. \A x \in Sector : w.disk[x] \in Block
      <4>1. DataRec \subseteq Block /\ IndexRec \subseteq Block
        BY DEF DataRec, IndexRec, Block
      <4> QED BY <1>1, <2>4, <2>7, <2>8, <4>1
    <3> QED BY <3>1, <3>2
  <2>10. w \in WorkRec
    BY <1>1, <2>1, <2>3, <2>5, <2>9 DEF WorkRec
  <2>11. Kept(d, v.used, w.disk, w.used, S)
    <3> DEFINE e == w.disk
               u == v.used
    <3>1. /\ Image(d, u, S) /\ b \in Blocks(d, f) /\ {s} \in SUBSET (Sector \ u)
          /\ e \in [Sector -> Block] /\ e[b] \in IndexRec /\ e[b].next = d[b].next
          /\ \A x \in {s} : e[x] \in DataRec
          /\ \A x \in Sector \ ({s} \cup {b}) : e[x] = d[x]
      BY <1>2, <2>1, <2>4, <2>7, <2>8, <2>9
    <3>2. \A j \in Slot : e[b].data[j] = IF j = i THEN s ELSE d[b].data[j]
      BY <1>2, <2>8 DEF IndexRec
    <3>3. \A j \in Slot : d[b].data[j] # s
      <4>1. Sects(d, f) \subseteq u /\ b \in Sects(d, f) /\ DataOf(d, b) \subseteq Sects(d, f)
        BY <1>1, <1>2, FileParts DEF Image
      <4>2. \A j \in Slot : d[b].data[j] \in DataOf(d, b) \cup {b}
        BY DEF DataOf
      <4> QED BY <2>1, <4>1, <4>2
    <3>4. /\ \A j \in Slot : \/ e[b].data[j] = d[b].data[j]
                             \/ d[b].data[j] = b /\ e[b].data[j] \in {s}
          /\ \A j, k \in Slot : e[b].data[j] \in {s} /\ e[b].data[j] = e[b].data[k] => j = k
          /\ \A x \in {s} : \E j \in Slot : e[b].data[j] = x
      BY <1>2, <1>7, <3>2, <3>3
    <3>5. w.used = u \cup {s}
      BY <2>5
    <3> HIDE DEF d, e, u
    <3>6. Kept(d, u, e, u \cup {s}, S)
      BY <3>1, <3>4, Fill
    <3> QED BY <3>5, <3>6 DEF d, e, u
  <2>12. NthIndexBlock(w.disk, d[f].start, IndexOf(pos)) = b
    <3>1. d[f].start \in Sector /\ \A x \in Blocks(d, f) : d[x].next \in Sector
      BY <1>1, FileParts
    <3>2. \A x \in Blocks(d, f) : w.disk[x].next = d[x].next
      BY <2>11 DEF Kept
    <3>3. IndexOf(pos) \in Nat
      BY Places
    <3> QED BY <3>1, <3>2, <3>3, ChainSame DEF Blocks, b
  <2>13. w.disk[b].data[i] = s
    BY <1>2, <2>8 DEF IndexRec
  <2>14. s \in DataOf(w.disk, b) /\ b \in Blocks(w.disk, f)
    BY <1>2, <2>2, <2>11, <2>13 DEF DataOf, Kept
  <2> QED BY <1>4, <2>10, <2>11, <2>12, <2>13, <2>14
<1> QED BY <1>5, <1>6, <1>7

\* One turn of inode_write_at's loop.
LEMMA WriteKeeps ==
  ASSUME NEW v \in WorkRec, NEW S, Image(v.disk, v.used, S), NEW f \in S, NEW first \in Nat,
         NEW lo, NEW hi, NEW byte \in Byte,
         NEW w, w = WriteSector(v, v.disk[f].start, first, lo, hi, byte)
  PROVE  w \in WorkRec /\ Kept(v.disk, v.used, w.disk, w.used, S)
<1> DEFINE t == Touch(v, v.disk[f].start, first)
           s == DataSector(t.disk, v.disk[f].start, first)
           chunk == {pos \in first..(first + SectorBytes - 1) : pos \in lo..(hi - 1)}
<1>1. /\ t \in WorkRec /\ Kept(v.disk, v.used, t.disk, t.used, S)
      /\ t.ok => \E b \in Blocks(t.disk, f) : s \in DataOf(t.disk, b)
  BY TouchKeeps
<1>2. w = IF ~ t.ok THEN t
          ELSE [t EXCEPT !.disk[s].bytes = [j \in DOMAIN @ |-> IF first + j \in chunk THEN byte ELSE @[j]]]
  BY DEF WriteSector
<1> HIDE DEF t, s
<1>3. CASE ~ t.ok
  BY <1>1, <1>2, <1>3
<1>4. CASE t.ok
  <2> DEFINE d == t.disk
             bytes == [j \in DOMAIN d[s].bytes |->
                         IF first + j \in chunk THEN byte ELSE d[s].bytes[j]]
  <2>1. PICK b \in Blocks(d, f) : s \in DataOf(d, b)
    BY <1>1, <1>4
  <2>2. Image(d, t.used, S)
    BY <1>1 DEF Kept
  <2>3. f \in Sector /\ FileOK(d, f) /\ d \in [Sector -> Block]
    BY <2>2 DEF Image
  <2>4. s \in Sector /\ d[s] \in DataRec
    BY <2>1, <2>3, FileParts
  <2>5. w = [t EXCEPT !.disk[s].bytes = bytes]
    BY <1>2, <1>4
  <2>6. w.used = t.used /\ w.ok = t.ok /\ w.disk = [d EXCEPT ![s].bytes = bytes]
    BY <1>1, <2>5 DEF WorkRec
  <2>7. bytes \in [0..(SectorBytes - 1) -> Byte \cup {Zero}]
    BY <2>4 DEF DataRec
  <2> HIDE DEF bytes
  <2>8. w.disk[s] \in DataRec /\ \A x \in Sector \ {s} : w.disk[x] = d[x]
    <3>1. w.disk[s] = [d[s] EXCEPT !.bytes = bytes]
      BY <2>3, <2>4, <2>6
    <3>2. \A x \in Sector \ {s} : w.disk[x] = d[x]
      BY <2>3, <2>6
    <3> QED BY <2>4, <2>7, <3>1, <3>2 DEF DataRec
  <2>9. w.disk \in [Sector -> Block]
    <3>1. DataRec \subseteq Block
      BY DEF DataRec, Block
    <3> QED BY <2>3, <2>4, <2>6, <2>8, <3>1
  <2>10. w \in WorkRec
    BY <1>1, <2>5, <2>6, <2>9 DEF WorkRec
  <2>11. Kept(d, t.used, w.disk, w.used, S)
    BY <2>1, <2>2, <2>6, <2>8, <2>9, Overwrite
  <2> QED BY <1>1, <2>10, <2>11, KeptThen
<1> QED BY <1>3, <1>4

\* A read, and a write within the file.
LEMMA ReadKeeps ==
  ASSUME NEW v \in WorkRec, NEW S, Image(v.disk, v.used, S), NEW f \in S,
         NEW start, start = v.disk[f].start, NEW lo \in Nat, NEW hi \in Nat,
         NEW w, w = ReadSectors(v, start, lo, hi)
  PROVE  w \in WorkRec /\ Kept(v.disk, v.used, w.disk, w.used, S)
<1> DEFINE W == {x \in WorkRec : Kept(v.disk, v.used, x.disk, x.used, S)}
<1>1. v \in W
  BY KeptSame
<1>2. ASSUME NEW x \in W, NEW n \in Nat \ {0}
      PROVE  Touch(x, start, SectorStart(lo, n)) \in W
  <2>1. /\ x \in WorkRec /\ Kept(v.disk, v.used, x.disk, x.used, S)
        /\ Image(x.disk, x.used, S) /\ x.disk[f].start = start /\ SectorStart(lo, n) \in Nat
    BY Counts DEF Kept
  <2> DEFINE y == Touch(x, start, SectorStart(lo, n))
  <2>2. y \in WorkRec /\ Kept(x.disk, x.used, y.disk, y.used, S)
    <3>1. y = Touch(x, x.disk[f].start, SectorStart(lo, n))
      BY <2>1
    <3> HIDE DEF y
    <3> QED BY <2>1, <3>1, TouchKeeps
  <2> HIDE DEF y
  <2>3. Kept(v.disk, v.used, y.disk, y.used, S)
    BY <2>1, <2>2, KeptThen
  <2> QED BY <2>2, <2>3 DEF y
<1>3. w \in W
  <2> HIDE DEF W
  <2> QED BY <1>1, <1>2, Counts, ReadIn
<1> QED BY <1>3

\* The loop of inode_write_at within a file's length leaves every file in order.
LEMMA WritesKeep ==
  ASSUME NEW v \in WorkRec, NEW S, Image(v.disk, v.used, S), NEW f \in S,
         NEW start, start = v.disk[f].start, NEW lo \in Nat, NEW hi \in Nat, NEW byte \in Byte,
         NEW w, w = WriteSectors(v, start, lo, hi, byte)
  PROVE  w \in WorkRec /\ Kept(v.disk, v.used, w.disk, w.used, S)
<1> DEFINE W == {x \in WorkRec : Kept(v.disk, v.used, x.disk, x.used, S)}
<1>1. v \in W
  BY KeptSame
<1>2. ASSUME NEW x \in W, NEW n \in Nat \ {0}
      PROVE  WriteSector(x, start, SectorStart(lo, n), lo, hi, byte) \in W
  <2>1. /\ x \in WorkRec /\ Kept(v.disk, v.used, x.disk, x.used, S)
        /\ Image(x.disk, x.used, S) /\ x.disk[f].start = start /\ SectorStart(lo, n) \in Nat
    BY Counts DEF Kept
  <2> DEFINE y == WriteSector(x, start, SectorStart(lo, n), lo, hi, byte)
  <2>2. y \in WorkRec /\ Kept(x.disk, x.used, y.disk, y.used, S)
    <3>1. y = WriteSector(x, x.disk[f].start, SectorStart(lo, n), lo, hi, byte)
      BY <2>1
    <3> HIDE DEF y
    <3> QED BY <2>1, <3>1, WriteKeeps
  <2> HIDE DEF y
  <2>3. Kept(v.disk, v.used, y.disk, y.used, S)
    BY <2>1, <2>2, KeptThen
  <2> QED BY <2>2, <2>3 DEF y
<1>3. w \in W
  <2> HIDE DEF W
  <2> QED BY <1>1, <1>2, Counts, WriteIn
<1> QED BY <1>3

----------------------------------------------------------------------------
(* The index blocks of a write past the end *)

\* The chain that ends in the block end, with a new block s behind it.
LEMMA Linked ==
  ASSUME NEW d, NEW e, NEW start \in Sector, NEW end \in Chain(d, start),
         \A b \in Chain(d, start) : d[b].next \in Sector,
         NEW s \in Sector \ Chain(d, start), e[s].next = s, e[end].next = s,
         \A b \in Chain(d, start) \ {end} : e[b].next = d[b].next
  PROVE  /\ Chain(e, start) \subseteq Chain(d, start) \cup {s}
         /\ {end, s} \subseteq Chain(e, start)
         /\ d[end].next = end => Chain(e, start) = Chain(d, start) \cup {s}
<1> DEFINE C == Chain(d, start)
           D == Chain(e, start)
<1>1. start \in C /\ C \subseteq Sector /\ \A b \in C : d[b].next \in C
  BY ChainClosed
<1>2. D \subseteq C \cup {s}
  <2>1. \A b \in C \cup {s} : e[b].next \in C \cup {s}
    BY <1>1
  <2> HIDE DEF C
  <2> QED BY <1>1, <2>1, ChainWithin
<1>3. start \in D /\ \A b \in D : e[b].next \in D
  <2>1. \A b \in D : e[b].next \in Sector
    BY <1>1, <1>2
  <2> HIDE DEF C
  <2> QED BY <2>1, ChainClosed
<1>4. end \in D
  <2> SUFFICES ASSUME end \notin D PROVE FALSE
    OBVIOUS
  <2>1. start \in D \ {s} /\ \A b \in D \ {s} : e[b].next \in D \ {s}
    BY <1>1, <1>2, <1>3
  <2>2. D \subseteq D \ {s}
    <3> DEFINE E == D \ {s}
    <3>1. start \in E /\ \A b \in E : e[b].next \in E
      BY <2>1
    <3> HIDE DEF E
    <3>2. D \subseteq E
      BY <3>1, ChainWithin
    <3> QED BY <3>2 DEF E
  <2>3. \A b \in D : e[b].next \in Sector /\ d[b].next = e[b].next
    BY <1>1, <1>2, <2>2
  <2>4. C = D
    BY <2>3, ChainSame
  <2> QED BY <2>4
<1>5. s \in D
  BY <1>3, <1>4
<1>6. ASSUME d[end].next = end PROVE C \subseteq D
  <2> DEFINE E == C \cap D
  <2>1. start \in E /\ \A b \in E : d[b].next \in E
    BY <1>1, <1>3, <1>6
  <2> HIDE DEF E
  <2>2. C \subseteq E
    BY <2>1, ChainWithin
  <2> QED BY <2>2 DEF E
<1> QED BY <1>2, <1>4, <1>5, <1>6

\* The file f may get longer, or lose blocks that are behind its end; all
\* others stay.
Extends(d, u, e, w, S, f) ==
  /\ Image(e, w, S) /\ u \subseteq w
  /\ \A g \in S : e[g] = d[g]
  /\ \A g \in S \ {f} : /\ Blocks(e, g) = Blocks(d, g)
                        /\ \A b \in Blocks(d, g) : e[b].next = d[b].next

Adds(d, u, e, s, S, f, end) ==
  /\ Extends(d, u, e, u \cup {s}, S, f)
  /\ s \in Blocks(e, f) /\ e[s].next = s
  /\ u = Owned(d, S) /\ d[end].next = end => u \cup {s} = Owned(e, S)

\* A free sector written as an index block and linked to the end of a chain.
LEMMA AddsBlock ==
  ASSUME NEW d, NEW u, NEW S, Image(d, u, S), NEW f \in S, NEW end \in Blocks(d, f),
         d[f].end = end \/ d[end].next = end, NEW s \in Sector \ u,
         NEW e \in [Sector -> Block], e[s] = IndexBlockInit(s), e[end] \in IndexRec,
         e[end].next = s, e[end].data = d[end].data,
         \A x \in Sector \ {s, end} : e[x] = d[x]
  PROVE  Adds(d, u, e, s, S, f, end)
<1>1. f \in Sector /\ FileOK(d, f) /\ Sects(d, f) \subseteq u
  BY DEF Image
<1>2. end \in Sects(d, f) /\ s \notin Sects(d, f) /\ end # f /\ s # f /\ s # end
  BY <1>1, FileParts
<1>3. \A g \in S \ {f} : /\ FileOK(e, g) /\ e[g] = d[g]
                         /\ Blocks(e, g) = Blocks(d, g) /\ Sects(e, g) = Sects(d, g)
                         /\ \A x \in Blocks(d, g) : e[x] = d[x]
  <2>1. \A x \in u \ Sects(d, f) : e[x] = d[x]
    BY <1>1, <1>2 DEF Image
  <2> QED BY <2>1, OthersSame
<1>4. e[f] = d[f] /\ \A x \in Blocks(d, f) \ {end} : e[x] = d[x]
  BY <1>1, <1>2, FileParts
<1>5. /\ e[s] \in IndexRec /\ e[s].next = s /\ \A j \in Slot : e[s].data[j] = s
  BY DEF IndexBlockInit, IndexBlock, IndexRec
<1>6. /\ Blocks(e, f) \subseteq Blocks(d, f) \cup {s} /\ {end, s} \subseteq Blocks(e, f)
      /\ d[end].next = end => Blocks(e, f) = Blocks(d, f) \cup {s}
  <2>1. /\ d[f].start \in Sector /\ \A x \in Blocks(d, f) : d[x].next \in Sector
        /\ s \in Sector \ Blocks(d, f)
        /\ \A x \in Blocks(d, f) \ {end} : e[x].next = d[x].next
    BY <1>1, <1>2, <1>4, FileParts
  <2> QED BY <1>4, <1>5, <2>1, Linked DEF Blocks
<1>7. /\ \A x \in Blocks(d, f) : e[x] \in IndexRec /\ e[x].data = d[x].data /\ x \in Sector
      /\ \A x \in Blocks(d, f) : DataOf(e, x) = DataOf(d, x)
  <2>1. \A x \in Blocks(d, f) : e[x] \in IndexRec /\ e[x].data = d[x].data /\ x \in Sector
    BY <1>1, <1>4, FileParts
  <2> QED BY <2>1 DEF DataOf
<1>8. DataOf(e, s) = {}
  BY <1>5 DEF DataOf
<1>9. /\ Sects(e, f) \subseteq Sects(d, f) \cup {s}
      /\ d[end].next = end => Sects(e, f) = Sects(d, f) \cup {s}
  <2>1. /\ Sects(e, f) = {f} \cup UNION {{x} \cup DataOf(e, x) : x \in Blocks(e, f)}
        /\ Sects(d, f) = {f} \cup UNION {{x} \cup DataOf(d, x) : x \in Blocks(d, f)}
    BY DEF Sects, SectorsOf, Blocks
  <2> HIDE DEF Blocks
  <2>2. Sects(e, f) \subseteq Sects(d, f) \cup {s}
    <3> SUFFICES ASSUME NEW x \in Blocks(e, f), NEW y \in {x} \cup DataOf(e, x)
                 PROVE  y \in Sects(d, f) \cup {s}
      BY <2>1
    <3>1. CASE x = s
      BY <1>8, <3>1
    <3>2. CASE x \in Blocks(d, f)
      <4>1. y \in {x} \cup DataOf(d, x)
        BY <1>7, <3>2
      <4> QED BY <2>1, <3>2, <4>1
    <3> QED BY <1>6, <3>1, <3>2
  <2>3. ASSUME d[end].next = end PROVE Sects(d, f) \cup {s} \subseteq Sects(e, f)
    <3>1. s \in Sects(e, f)
      BY <1>6, <2>1
    <3> SUFFICES ASSUME NEW x \in Blocks(d, f), NEW y \in {x} \cup DataOf(d, x)
                 PROVE  y \in Sects(e, f)
      BY <2>1, <3>1
    <3>2. x \in Blocks(e, f) /\ y \in {x} \cup DataOf(e, x)
      BY <1>6, <1>7, <2>3
    <3> QED BY <2>1, <3>2
  <2> QED BY <2>2, <2>3
<1>10. Whole(e, f, e[f].start)
  <2>1. /\ f \notin Blocks(d, f)
        /\ \A x \in Blocks(d, f) : DataOf(d, x) \cap (Blocks(d, f) \cup {f}) = {}
        /\ \A x, c \in Blocks(d, f), j, k \in Slot :
             d[x].data[j] = d[c].data[k] => x = c /\ (j = k \/ d[x].data[j] = x)
    BY <1>1 DEF FileOK, Whole, Blocks
  <2>2. \A x \in Blocks(d, f), j \in Slot : d[x].data[j] # s
    <3> TAKE x \in Blocks(d, f), j \in Slot
    <3>1. x \in Sects(d, f) /\ DataOf(d, x) \subseteq Sects(d, f)
      BY <1>1, FileParts
    <3>2. d[x].data[j] = x \/ d[x].data[j] \in DataOf(d, x)
      BY DEF DataOf
    <3> QED BY <1>2, <3>1, <3>2
  <2>3. f \notin Blocks(e, f) /\ \E x \in Blocks(e, f) : e[x].next = x
    BY <1>2, <1>5, <1>6, <2>1
  <2>4. \A x \in Blocks(e, f) : DataOf(e, x) \cap (Blocks(e, f) \cup {f}) = {}
    <3> SUFFICES ASSUME NEW x \in Blocks(d, f)
                 PROVE  DataOf(d, x) \cap (Blocks(d, f) \cup {f, s}) = {}
      BY <1>6, <1>7, <1>8
    <3>1. s \notin DataOf(d, x)
      BY <2>2 DEF DataOf
    <3> QED BY <2>1, <3>1
  <2>5. \A x, c \in Blocks(e, f), j, k \in Slot :
          e[x].data[j] = e[c].data[k] => x = c /\ (j = k \/ e[x].data[j] = x)
    <3> SUFFICES ASSUME NEW x \in Blocks(d, f) \cup {s}, NEW c \in Blocks(d, f) \cup {s},
                        NEW j \in Slot, NEW k \in Slot, e[x].data[j] = e[c].data[k]
                 PROVE  x = c /\ (j = k \/ e[x].data[j] = x)
      BY <1>6
    <3>1. CASE x = s \/ c = s
      BY <1>5, <1>7, <2>2, <3>1
    <3>2. CASE x \in Blocks(d, f) /\ c \in Blocks(d, f)
      BY <1>7, <2>1, <3>2
    <3> QED BY <3>1, <3>2
  <2> QED BY <2>3, <2>4, <2>5 DEF Whole, Blocks
<1>11. FileOK(e, f)
  <2>1. \A x \in Blocks(e, f) : e[x] \in IndexRec /\ \A y \in DataOf(e, x) : e[y] \in DataRec
    <3> SUFFICES ASSUME NEW x \in Blocks(d, f), NEW y \in DataOf(d, x) PROVE e[y] \in DataRec
      BY <1>5, <1>6, <1>7, <1>8
    <3>1. y \in Sects(d, f) /\ y \notin Blocks(d, f) /\ d[y] \in DataRec /\ y \in Sector
      BY <1>1, FileParts
    <3>2. y # s /\ y # end
      BY <1>2, <3>1
    <3> QED BY <3>1, <3>2
  <2>2. e[f] \in InodeRec /\ e[f].end \in Blocks(e, f)
    BY <1>1, <1>4, <1>6 DEF FileOK
  <2> QED BY <1>10, <2>1, <2>2 DEF FileOK
<1>12. Image(e, u \cup {s}, S)
  <2>1. \A g \in S : FileOK(e, g) /\ Sects(e, g) \subseteq u \cup {s}
    BY <1>3, <1>9, <1>11, <1>1 DEF Image
  <2>2. \A g, h \in S : g # h => Sects(e, g) \cap Sects(e, h) = {}
    <3>1. \A g \in S \ {f} : Sects(e, g) \cap Sects(e, f) = {}
      BY <1>3, <1>9 DEF Image
    <3> QED BY <1>3, <3>1 DEF Image
  <2>3. u \cup {s} \subseteq Sector /\ S \subseteq Sector
    BY DEF Image
  <2> QED BY <2>1, <2>2, <2>3 DEF Image
<1>13. Extends(d, u, e, u \cup {s}, S, f)
  BY <1>3, <1>4, <1>12 DEF Extends
<1>14. ASSUME u = Owned(d, S), d[end].next = end PROVE u \cup {s} = Owned(e, S)
  <2>1. Owned(e, S) = Owned(d, S) \cup {s}
    BY <1>3, <1>9, <1>14 DEF Owned
  <2> QED BY <1>14, <2>1
<1> QED BY <1>5, <1>6, <1>13, <1>14 DEF Adds

\* Nothing done extends a file by nothing.
LEMMA ExtendsSame ==
  ASSUME NEW d, NEW u, NEW S, Image(d, u, S), NEW f
  PROVE  Extends(d, u, d, u, S, f)
  BY DEF Extends

\* Two pieces of work that extend a file extend it together.
LEMMA ExtendsThen ==
  ASSUME NEW d, NEW u, NEW S, NEW f, NEW e, NEW w, NEW g, NEW x,
         Extends(d, u, e, w, S, f), Extends(e, w, g, x, S, f)
  PROVE  Extends(d, u, g, x, S, f)
<1>1. \A h \in S \ {f} : /\ Blocks(g, h) = Blocks(d, h)
                         /\ \A b \in Blocks(d, h) : g[b].next = d[b].next
  BY DEF Extends
<1> QED BY <1>1 DEF Extends

GrowRec == [disk : [Sector -> Block], used : SUBSET Sector, ok : BOOLEAN, end : Sector]

\* One turn of the loop of inode_write_at that extends the file.
LEMMA GrowKeeps ==
  ASSUME NEW v \in GrowRec, NEW S, Image(v.disk, v.used, S), NEW f \in S,
         v.end \in Blocks(v.disk, f),
         v.disk[f].end = v.end \/ v.disk[v.end].next = v.end,
         NEW w, w = AddIndexBlock(v)
  PROVE  /\ w \in GrowRec /\ Extends(v.disk, v.used, w.disk, w.used, S, f)
         /\ w.end \in Blocks(w.disk, f)
         /\ \/ w.disk = v.disk /\ w.used = v.used /\ w.end = v.end
            \/ w.used # v.used /\ w.disk[w.end].next = w.end
         /\ v.used = Owned(v.disk, S) /\ v.disk[v.end].next = v.end =>
              w.used = Owned(w.disk, S) /\ w.disk[w.end].next = w.end
<1> DEFINE d == v.disk
           end == v.end
           s == FirstFree(v.used)
<1>1. /\ f \in Sector /\ FileOK(d, f) /\ d \in [Sector -> Block] /\ v.used \subseteq Sector
      /\ end \in Blocks(d, f) /\ end \in Sector /\ d[end] \in IndexRec /\ end \in Sects(d, f)
      /\ Sects(d, f) \subseteq v.used
  BY FileParts DEF Image
<1>2. CASE ~ v.ok \/ v.used = Sector
  <2>1. w = [v EXCEPT !.ok = FALSE]
    BY <1>2 DEF AddIndexBlock, Failed
  <2>2. w \in GrowRec /\ w.disk = d /\ w.used = v.used /\ w.end = end
    BY <2>1 DEF GrowRec
  <2> QED BY <2>2, ExtendsSame
<1>3. CASE v.ok /\ v.used # Sector
  <2>1. w = [v EXCEPT !.used = @ \cup {s}, !.disk[s] = IndexBlockInit(s),
                      !.disk[v.end].next = s, !.end = s]
    BY <1>3 DEF AddIndexBlock
  <2>2. s \in Sector \ v.used
    BY <1>1, <1>3, FirstFreeIn
  <2> HIDE DEF s
  <2>3. s # end
    BY <1>1, <2>2
  <2>4. /\ w.used = v.used \cup {s} /\ w.ok = v.ok /\ w.end = s
        /\ w.disk = [[d EXCEPT ![s] = IndexBlockInit(s)] EXCEPT ![end].next = s]
    BY <2>1 DEF GrowRec
  <2>5. [d EXCEPT ![s] = IndexBlockInit(s)][end] = d[end]
    BY <1>1, <2>3
  <2>6. /\ \A x \in Sector \ {s, end} : w.disk[x] = d[x]
        /\ w.disk[s] = IndexBlockInit(s) /\ w.disk[end] = [d[end] EXCEPT !.next = s]
    <3> HIDE DEF d, end
    <3> QED BY <1>1, <2>2, <2>3, <2>4, <2>5
  <2>7. w.disk[end] \in IndexRec /\ w.disk[end].next = s /\ w.disk[end].data = d[end].data
    BY <1>1, <2>2, <2>6 DEF IndexRec
  <2>8. IndexBlockInit(s) \in IndexRec
    BY <2>2 DEF IndexBlockInit, IndexBlock, IndexRec
  <2>9. w.disk \in [Sector -> Block]
    <3>1. w.disk = [x \in Sector |-> w.disk[x]]
      BY <1>1, <2>4
    <3>2. IndexRec \subseteq Block
      BY DEF IndexRec, Block
    <3>3. \A x \in Sector : w.disk[x] \in Block
      BY <1>1, <2>6, <2>7, <2>8, <3>2
    <3> QED BY <3>1, <3>3
  <2>10. w \in GrowRec
    BY <1>1, <2>1, <2>2, <2>4, <2>9 DEF GrowRec
  <2>11. /\ Extends(d, v.used, w.disk, w.used, S, f)
         /\ s \in Blocks(w.disk, f) /\ w.disk[s].next = s
         /\ v.used = Owned(d, S) /\ d[end].next = end => w.used = Owned(w.disk, S)
    <3> DEFINE e == w.disk
               u == v.used
    <3>1. /\ Image(d, u, S) /\ end \in Blocks(d, f) /\ s \in Sector \ u
          /\ d[f].end = end \/ d[end].next = end
          /\ e \in [Sector -> Block] /\ e[s] = IndexBlockInit(s) /\ e[end] \in IndexRec
          /\ e[end].next = s /\ e[end].data = d[end].data
      BY <1>1, <2>2, <2>6, <2>7, <2>9
    <3>2. \A x \in Sector \ {s, end} : e[x] = d[x]
      BY <2>6
    <3>3. w.used = u \cup {s}
      BY <2>4
    <3> HIDE DEF d, e, u, end
    <3>4. Adds(d, u, e, s, S, f, end)
      BY <3>1, <3>2, AddsBlock
    <3> QED BY <3>3, <3>4 DEF Adds, d, e, u, end
  <2>12. w.used # v.used
    BY <2>2, <2>4
  <2> QED BY <2>4, <2>10, <2>11, <2>12
<1> QED BY <1>2, <1>3

\* The loop.
LEMMA ExtendedIn ==
  ASSUME NEW W, NEW x, NEW length, NewIndexBlocks(x.length, length) \in Nat,
         [disk |-> disk, used |-> used, ok |-> TRUE, end |-> x.end] \in W,
         \A v \in W : AddIndexBlock(v) \in W
  PROVE  Extended(x, length) \in W
<1> DEFINE w == [disk |-> disk, used |-> used, ok |-> TRUE, end |-> x.end]
           Body(g, n) == IF n = 0 THEN w ELSE AddIndexBlock(g[n - 1])
           f == CHOOSE g : g = [n \in Nat |-> Body(g, n)]
           step == [p \in W \X Nat |-> AddIndexBlock(p[1])]
<1>1. step \in [W \X Nat -> W]
  OBVIOUS
<1>2. PICK g \in [Nat -> W] : IsLoop(g, w, step)
  <2> HIDE DEF step, w
  <2> QED BY <1>1, LoopIn DEF w
<1>3. \A n \in Nat : g[n] = Body(g, n)
  <2> TAKE n \in Nat
  <2>1. g[n] = IF n = 0 THEN w ELSE step[<<g[n - 1], n>>]
    BY <1>2 DEF IsLoop
  <2>2. CASE n = 0
    BY <2>1, <2>2
  <2>3. CASE n # 0
    <3>1. <<g[n - 1], n>> \in W \X Nat
      BY <2>3
    <3>2. step[<<g[n - 1], n>>] = AddIndexBlock(g[n - 1])
      BY <3>1
    <3> QED BY <2>1, <2>3, <3>2
  <2> QED BY <2>2, <2>3
<1>4. g = [n \in Nat |-> Body(g, n)]
  <2> HIDE DEF step, w
  <2>0. PICK v : v = [n \in Nat |-> Body(g, n)]
    OBVIOUS
  <2>1. v = [n \in Nat |-> v[n]] /\ g = [n \in Nat |-> g[n]]
    BY <2>0
  <2>2. \A n \in Nat : v[n] = g[n]
    BY <1>3, <2>0
  <2> QED BY <2>0, <2>1, <2>2
<1>5. f = [n \in Nat |-> Body(f, n)]
  <2> HIDE DEF w
  <2> QED BY <1>4
<1>6. Extended(x, length) = f[NewIndexBlocks(x.length, length)]
  BY DEF Extended
<1>7. w \in W
  OBVIOUS
<1> HIDE DEF f, step, w
<1> DEFINE S == {n \in Nat : f[n] \in W}
<1>8. 0 \in S
  BY <1>5, <1>7
<1>9. ASSUME NEW n \in Nat, n \in S PROVE n + 1 \in S
  <2>1. n + 1 \in Nat \ {0} /\ (n + 1) - 1 = n
    OBVIOUS
  <2>2. f[n + 1] = AddIndexBlock(f[n])
    BY <1>5, <2>1
  <2> QED BY <1>9, <2>1, <2>2
<1> HIDE DEF S
<1>10. \A n \in Nat : n \in S
  BY <1>8, <1>9, NatInd
<1> QED BY <1>6, <1>10 DEF S

\* The loop of inode_extend, whether it finds its blocks or the disk fills up.
LEMMA ExtendKeeps ==
  ASSUME NEW S, Image(disk, used, S), NEW f \in S, NEW x, x.end \in Blocks(disk, f),
         disk[f].end = x.end \/ disk[x.end].next = x.end,
         NEW length, NewIndexBlocks(x.length, length) \in Nat,
         NEW w, w = Extended(x, length)
  PROVE  /\ w \in GrowRec /\ Extends(disk, used, w.disk, w.used, S, f)
         /\ w.end \in Blocks(w.disk, f)
         /\ w.used = used => w.disk = disk /\ w.end = x.end
         /\ used = Owned(disk, S) /\ disk[x.end].next = x.end =>
              w.used = Owned(w.disk, S) /\ w.disk[w.end].next = w.end
<1> DEFINE Right(v) ==
             /\ Extends(disk, used, v.disk, v.used, S, f) /\ v.end \in Blocks(v.disk, f)
             /\ \/ v.disk = disk /\ v.used = used /\ v.end = x.end
                \/ v.used # used /\ v.disk[v.end].next = v.end
             /\ used = Owned(disk, S) /\ disk[x.end].next = x.end =>
                  v.used = Owned(v.disk, S) /\ v.disk[v.end].next = v.end
           W == {v \in GrowRec : Right(v)}
           base == [disk |-> disk, used |-> used, ok |-> TRUE, end |-> x.end]
<1>1. base \in W
  <2>1. x.end \in Sector /\ disk \in [Sector -> Block] /\ used \in SUBSET Sector
    BY FileParts DEF Image
  <2>2. base \in GrowRec
    BY <2>1 DEF GrowRec
  <2>3. Right(base)
    BY ExtendsSame
  <2> QED BY <2>2, <2>3
<1>2. ASSUME NEW v \in W PROVE AddIndexBlock(v) \in W
  <2> DEFINE y == AddIndexBlock(v)
  <2>1. v \in GrowRec /\ Right(v) /\ Image(v.disk, v.used, S)
    BY DEF Extends
  <2>2. v.disk[f].end = v.end \/ v.disk[v.end].next = v.end
    BY <2>1 DEF Extends
  <2>3. /\ y \in GrowRec /\ Extends(v.disk, v.used, y.disk, y.used, S, f)
        /\ y.end \in Blocks(y.disk, f)
        /\ \/ y.disk = v.disk /\ y.used = v.used /\ y.end = v.end
           \/ y.used # v.used /\ y.disk[y.end].next = y.end
        /\ v.used = Owned(v.disk, S) /\ v.disk[v.end].next = v.end =>
             y.used = Owned(y.disk, S) /\ y.disk[y.end].next = y.end
    BY <2>1, <2>2, GrowKeeps
  <2> HIDE DEF y
  <2>4. Extends(disk, used, y.disk, y.used, S, f)
    BY <2>1, <2>3, ExtendsThen
  <2>5. used \subseteq v.used /\ v.used \subseteq y.used
    BY <2>1, <2>3 DEF Extends
  <2>6. Right(y)
    BY <2>1, <2>3, <2>4, <2>5
  <2> QED BY <2>3, <2>6 DEF y
<1>3. w \in W
  <2>1. base \in W /\ \A v \in W : AddIndexBlock(v) \in W
    BY <1>1, <1>2
  <2> HIDE DEF W
  <2> QED BY <2>1, ExtendedIn
<1> QED BY <1>3

\* The inode is written, with another block of the file as its last.
LEMMA Relabel ==
  ASSUME NEW d, NEW u, NEW S, Image(d, u, S), NEW f \in S,
         NEW end \in Blocks(d, f), NEW length \in Nat,
         NEW e \in [Sector -> Block], e[f] = InodeDisk(d[f].start, end, length),
         \A x \in Sector \ {f} : e[x] = d[x]
  PROVE  /\ Image(e, u, S)
         /\ \A g \in S \ {f} : e[g] = d[g]
         /\ \A g \in S : /\ Blocks(e, g) = Blocks(d, g)
                         /\ \A b \in Blocks(d, g) : e[b].next = d[b].next
         /\ Owned(e, S) = Owned(d, S)
<1>1. /\ f \in Sector /\ FileOK(d, f) /\ Sects(d, f) \subseteq u /\ d \in [Sector -> Block]
      /\ end \in Sector /\ d[f].start \in Sector
  BY FileParts DEF Image
<1>2. /\ e[f] \in InodeRec /\ e[f].start = d[f].start /\ e[f].end = end
  BY <1>1 DEF InodeDisk, InodeRec
<1>4. \A g \in S \ {f} : /\ FileOK(e, g) /\ e[g] = d[g]
                         /\ Blocks(e, g) = Blocks(d, g) /\ Sects(e, g) = Sects(d, g)
                         /\ \A x \in Blocks(d, g) : e[x] = d[x]
  <2>1. \A x \in u \ Sects(d, f) : e[x] = d[x]
    BY <1>1, <1>2, FileParts DEF Image
  <2> QED BY <2>1, OthersSame
<1>5. \A x \in Blocks(d, f) : e[x] = d[x] /\ DataOf(e, x) = DataOf(d, x)
  <2>1. \A x \in Blocks(d, f) : e[x] = d[x]
    BY <1>1, <1>2, FileParts
  <2> QED BY <2>1 DEF DataOf
<1>6. Blocks(e, f) = Blocks(d, f)
  <2>1. d[f].start \in Sector /\ \A x \in Blocks(d, f) : d[x].next \in Sector
    BY <1>1, FileParts
  <2>2. \A x \in Blocks(d, f) : e[x].next = d[x].next
    BY <1>5
  <2> QED BY <1>2, <2>1, <2>2, ChainSame DEF Blocks
<1>7. Sects(e, f) = Sects(d, f)
  <2>1. /\ Sects(e, f) = {f} \cup UNION {{x} \cup DataOf(e, x) : x \in Blocks(e, f)}
        /\ Sects(d, f) = {f} \cup UNION {{x} \cup DataOf(d, x) : x \in Blocks(d, f)}
    BY DEF Sects, SectorsOf, Blocks
  <2> HIDE DEF Blocks
  <2> QED BY <1>5, <1>6, <2>1
<1>8. Whole(e, f, e[f].start)
  <2>1. /\ f \notin Blocks(d, f)
        /\ \E b \in Blocks(d, f) : d[b].next = b
        /\ \A b \in Blocks(d, f) : DataOf(d, b) \cap (Blocks(d, f) \cup {f}) = {}
        /\ \A b, c \in Blocks(d, f), i, j \in Slot :
             d[b].data[i] = d[c].data[j] => b = c /\ (i = j \/ d[b].data[i] = b)
    BY <1>1 DEF FileOK, Whole, Blocks
  <2>2. /\ f \notin Blocks(e, f)
        /\ \E b \in Blocks(e, f) : e[b].next = b
        /\ \A b \in Blocks(e, f) : DataOf(e, b) \cap (Blocks(e, f) \cup {f}) = {}
        /\ \A b, c \in Blocks(e, f), i, j \in Slot :
             e[b].data[i] = e[c].data[j] => b = c /\ (i = j \/ e[b].data[i] = b)
    BY <1>5, <1>6, <2>1
  <2> QED BY <2>2 DEF Whole, Blocks
<1>9. FileOK(e, f)
  <2>1. \A x \in Blocks(e, f) : e[x] \in IndexRec /\ \A y \in DataOf(e, x) : e[y] \in DataRec
    <3> SUFFICES ASSUME NEW x \in Blocks(d, f), NEW y \in DataOf(d, x) PROVE e[y] \in DataRec
      BY <1>1, <1>5, <1>6, FileParts
    <3>1. y \in Sects(d, f) /\ d[y] \in DataRec /\ y \in Sector /\ y # f
      BY <1>1, FileParts
    <3> QED BY <1>2, <3>1
  <2> QED BY <1>2, <1>6, <1>8, <2>1 DEF FileOK
<1>10. Image(e, u, S)
  <2>1. \A g \in S : FileOK(e, g) /\ Sects(e, g) = Sects(d, g)
    BY <1>4, <1>7, <1>9
  <2> QED BY <2>1 DEF Image
<1>11. Owned(e, S) = Owned(d, S)
  BY <1>4, <1>7 DEF Owned
<1> QED BY <1>2, <1>4, <1>5, <1>6, <1>10, <1>11

----------------------------------------------------------------------------
(* The creation of a file *)

\* Files see nothing of what is written where nothing is marked.
LEMMA UsedSame ==
  ASSUME NEW d, NEW u, NEW S, Image(d, u, S), NEW e \in [Sector -> Block],
         \A s \in u : e[s] = d[s], NEW w \in SUBSET Sector, u \subseteq w
  PROVE  Image(e, w, S) /\ Kept(d, u, e, u, S) /\ Owned(e, S) = Owned(d, S)
<1>1. \A g \in S : /\ FileOK(e, g) /\ e[g] = d[g]
                   /\ Blocks(e, g) = Blocks(d, g) /\ Sects(e, g) = Sects(d, g)
                   /\ \A b \in Blocks(d, g) : e[b] = d[b]
  <2> TAKE g \in S
  <2>1. g \in Sector /\ FileOK(d, g) /\ Sects(d, g) \subseteq u
    BY DEF Image
  <2>2. Alike(d, e, g)
    BY <2>1 DEF Alike
  <2> QED BY <2>1, <2>2, FileSame
<1>2. Image(e, w, S) /\ Image(e, u, S)
  BY <1>1 DEF Image
<1>3. Owned(e, S) = Owned(d, S)
  BY <1>1 DEF Owned
<1> QED BY <1>1, <1>2, <1>3 DEF Kept

\* An inode in f, and an index block without data in start.
LEMMA NewFile ==
  ASSUME NEW d, NEW u, NEW S, Image(d, u, S), NEW f \in Sector \ u,
         NEW start \in Sector \ u, start # f, NEW length \in Nat,
         NEW e \in [Sector -> Block], \A s \in u : e[s] = d[s],
         e[f] = InodeDisk(start, start, length), e[start] = IndexBlockInit(start)
  PROVE  /\ Image(e, u \cup {f, start}, S \cup {f}) /\ start \in Blocks(e, f)
         /\ u = Owned(d, S) => u \cup {f, start} = Owned(e, S \cup {f})
<1>1. Image(e, u, S) /\ Owned(e, S) = Owned(d, S)
  <2>1. u \in SUBSET Sector
    BY DEF Image
  <2> QED BY <2>1, UsedSame
<1>2. /\ e[f] \in InodeRec /\ e[f].start = start /\ e[f].end = start
  BY DEF InodeDisk, InodeRec
<1>3. /\ e[start] \in IndexRec /\ e[start].next = start
      /\ \A j \in Slot : e[start].data[j] = start
  BY DEF IndexBlockInit, IndexBlock, IndexRec
<1>4. Blocks(e, f) = {start}
  <2>1. Chain(e, start) \subseteq {start}
    <3>1. start \in {start} /\ \A b \in {start} : e[b].next \in {start}
      BY <1>3
    <3> QED BY <3>1, ChainWithin
  <2>2. start \in Chain(e, start)
    <3>1. \A b \in Chain(e, start) : e[b].next \in Sector
      BY <1>3, <2>1
    <3> QED BY <3>1, ChainClosed
  <2> QED BY <1>2, <2>1, <2>2 DEF Blocks
<1>5. DataOf(e, start) = {}
  BY <1>3 DEF DataOf
<1>6. Sects(e, f) = {f, start}
  <2>1. Sects(e, f) = {f} \cup UNION {{x} \cup DataOf(e, x) : x \in Blocks(e, f)}
    BY DEF Sects, SectorsOf, Blocks
  <2> QED BY <1>4, <1>5, <2>1
<1>7. Whole(e, f, e[f].start)
  <2>1. /\ f \notin Blocks(e, f) /\ \E b \in Blocks(e, f) : e[b].next = b
        /\ \A b \in Blocks(e, f) : DataOf(e, b) \cap (Blocks(e, f) \cup {f}) = {}
        /\ \A b, c \in Blocks(e, f), i, j \in Slot :
             e[b].data[i] = e[c].data[j] => b = c /\ (i = j \/ e[b].data[i] = b)
    BY <1>3, <1>4, <1>5
  <2> QED BY <2>1 DEF Whole, Blocks
<1>8. FileOK(e, f)
  BY <1>2, <1>3, <1>4, <1>5, <1>7 DEF FileOK
<1>9. Image(e, u \cup {f, start}, S \cup {f})
  <2>1. \A g \in S : FileOK(e, g) /\ Sects(e, g) \subseteq u
    BY <1>1 DEF Image
  <2>2. \A g, h \in S : g # h => Sects(e, g) \cap Sects(e, h) = {}
    BY <1>1 DEF Image
  <2>3. u \subseteq Sector /\ S \subseteq Sector
    BY DEF Image
  <2>4. \A g \in S \cup {f} : FileOK(e, g) /\ Sects(e, g) \subseteq u \cup {f, start}
    BY <1>6, <1>8, <2>1
  <2>5. \A g, h \in S \cup {f} : g # h => Sects(e, g) \cap Sects(e, h) = {}
    BY <1>6, <2>1, <2>2
  <2> QED BY <2>3, <2>4, <2>5 DEF Image
<1>10. Owned(e, S \cup {f}) = Owned(e, S) \cup {f, start}
  BY <1>6 DEF Owned
<1> QED BY <1>1, <1>4, <1>9, <1>10

\* The i-th sector that is taken from the free map u.
Given(u, i) == FirstFree(Allocated(u, i))

\* What another turn allocates of the free map.
LEMMA AllocatedNext ==
  ASSUME NEW u \in SUBSET Sector
  PROVE  /\ Allocated(u, 0) = u
         /\ \A i \in Nat : Allocated(u, i + 1) = Allocated(u, i) \cup {Given(u, i)}
<1> DEFINE W == SUBSET (Sector \cup {FirstFree(Sector)})
           Body(g, n) == IF n = 0 THEN u ELSE g[n - 1] \cup {FirstFree(g[n - 1])}
           f == CHOOSE g : g = [n \in Nat |-> Body(g, n)]
           step == [p \in W \X Nat |-> p[1] \cup {FirstFree(p[1])}]
<1>1. step \in [W \X Nat -> W]
  <2> SUFFICES ASSUME NEW v \in W PROVE FirstFree(v) \in Sector \cup {FirstFree(Sector)}
    OBVIOUS
  <2>1. Sector \ v = Sector \ (v \cap Sector)
    OBVIOUS
  <2>2. FirstFree(v) = FirstFree(v \cap Sector)
    BY <2>1 DEF FirstFree
  <2>3. CASE v \cap Sector = Sector
    BY <2>2, <2>3
  <2>4. CASE v \cap Sector # Sector
    <3>1. v \cap Sector \in SUBSET Sector
      OBVIOUS
    <3>2. FirstFree(v \cap Sector) \in Sector
      BY <2>4, <3>1, FirstFreeIn
    <3> QED BY <2>2, <3>2
  <2> QED BY <2>3, <2>4
<1>2. PICK g \in [Nat -> W] : IsLoop(g, u, step)
  <2>1. u \in W
    OBVIOUS
  <2> HIDE DEF step, W
  <2> QED BY <1>1, <2>1, LoopIn
<1>3. \A n \in Nat : g[n] = Body(g, n)
  <2> TAKE n \in Nat
  <2>1. g[n] = IF n = 0 THEN u ELSE step[<<g[n - 1], n>>]
    BY <1>2 DEF IsLoop
  <2>2. CASE n = 0
    BY <2>1, <2>2
  <2>3. CASE n # 0
    <3>1. <<g[n - 1], n>> \in W \X Nat
      BY <2>3
    <3>2. step[<<g[n - 1], n>>] = g[n - 1] \cup {FirstFree(g[n - 1])}
      BY <3>1
    <3> QED BY <2>1, <2>3, <3>2
  <2> QED BY <2>2, <2>3
<1>4. g = [n \in Nat |-> Body(g, n)]
  <2> HIDE DEF step, W
  <2>0. PICK v : v = [n \in Nat |-> Body(g, n)]
    OBVIOUS
  <2>1. v = [n \in Nat |-> v[n]] /\ g = [n \in Nat |-> g[n]]
    BY <2>0
  <2>2. \A n \in Nat : v[n] = g[n]
    BY <1>3, <2>0
  <2> QED BY <2>0, <2>1, <2>2
<1>5. f = [n \in Nat |-> Body(f, n)]
  BY <1>4
<1>6. \A n \in Nat : Allocated(u, n) = f[n]
  BY DEF Allocated
<1> HIDE DEF f
<1>7. f[0] = u /\ \A i \in Nat : f[i + 1] = f[i] \cup {FirstFree(f[i])}
  <2>1. \A i \in Nat : i + 1 \in Nat /\ i + 1 # 0 /\ (i + 1) - 1 = i
    OBVIOUS
  <2> QED BY <1>5, <2>1
<1>8. ASSUME NEW i \in Nat PROVE Allocated(u, i + 1) = Allocated(u, i) \cup {Given(u, i)}
  <2>1. Allocated(u, i + 1) = f[i + 1] /\ Allocated(u, i) = f[i]
    BY <1>6
  <2> QED BY <1>7, <2>1 DEF Given
<1> QED BY <1>6, <1>7, <1>8

\* The sectors are all free, and all different.
LEMMA Allocation ==
  ASSUME NEW u \in SUBSET Sector, NEW n \in Nat,
         \A i \in 0..(n - 1) : Allocated(u, i) # Sector
  PROVE  /\ Allocated(u, n) = u \cup {Given(u, i) : i \in 0..(n - 1)}
         /\ \A i \in 0..(n - 1) : Given(u, i) \in Sector \ u
         /\ \A i, j \in 0..(n - 1) : Given(u, i) = Given(u, j) => i = j
<1> DEFINE P(k) == k <= n =>
             /\ Allocated(u, k) = u \cup {Given(u, i) : i \in 0..(k - 1)}
             /\ \A i \in 0..(k - 1) : Given(u, i) \in Sector \ u
             /\ \A i, j \in 0..(k - 1) : Given(u, i) = Given(u, j) => i = j
           T == {k \in Nat : P(k)}
<1>1. 0 \in T
  BY AllocatedNext
<1>2. ASSUME NEW k \in Nat, k \in T PROVE k + 1 \in T
  <2> SUFFICES ASSUME k + 1 <= n PROVE P(k + 1)
    OBVIOUS
  <2> DEFINE A == Allocated(u, k)
             x == Given(u, k)
  <2>1. /\ A = u \cup {Given(u, i) : i \in 0..(k - 1)}
        /\ \A i \in 0..(k - 1) : Given(u, i) \in Sector \ u
        /\ \A i, j \in 0..(k - 1) : Given(u, i) = Given(u, j) => i = j
    BY <1>2
  <2>2. A \in SUBSET Sector /\ A # Sector
    <3>1. k \in 0..(n - 1)
      OBVIOUS
    <3> QED BY <2>1, <3>1
  <2>3. x \in Sector \ A
    BY <2>2, FirstFreeIn DEF Given
  <2>4. \A i \in 0..((k + 1) - 1) : i \in 0..(k - 1) \/ i = k
    OBVIOUS
  <2>5. Allocated(u, k + 1) = A \cup {x}
    BY AllocatedNext
  <2> HIDE DEF A, x
  <2>6. \A i \in 0..(k - 1) : Given(u, i) \in A
    BY <2>1
  <2>7. {Given(u, i) : i \in 0..((k + 1) - 1)} = {Given(u, i) : i \in 0..(k - 1)} \cup {x}
    <3>1. k \in 0..((k + 1) - 1) /\ \A i \in 0..(k - 1) : i \in 0..((k + 1) - 1)
      OBVIOUS
    <3> QED BY <2>4, <3>1 DEF x
  <2>8. Allocated(u, k + 1) = u \cup {Given(u, i) : i \in 0..((k + 1) - 1)}
    BY <2>1, <2>5, <2>7
  <2>9. \A i \in 0..((k + 1) - 1) : Given(u, i) \in Sector \ u
    BY <2>1, <2>3, <2>4 DEF x
  <2>10. \A i, j \in 0..((k + 1) - 1) : Given(u, i) = Given(u, j) => i = j
    BY <2>1, <2>3, <2>4, <2>6 DEF x
  <2> QED BY <2>8, <2>9, <2>10
<1> HIDE DEF T
<1>3. \A k \in Nat : k \in T
  BY <1>1, <1>2, NatInd
<1>4. P(n)
  BY <1>3 DEF T
<1> QED BY <1>4

CreateRec ==
  [disk : [Sector -> Block], used : SUBSET Sector, ok : BOOLEAN, end : Sector, left : Int]

\* How one turn of the loop of inode_create changes the disk.
Filled(v, w, N) ==
  /\ N \subseteq Sector \ v.used
  /\ w.disk[v.end] \in IndexRec /\ w.disk[v.end].next = w.end
  /\ \A j \in Slot : w.disk[v.end].data[j] = v.end \/ w.disk[v.end].data[j] \in N
  /\ \A j, k \in Slot : w.disk[v.end].data[j] \in N
                          /\ w.disk[v.end].data[j] = w.disk[v.end].data[k] => j = k
  /\ \A x \in N : w.disk[x] = ZeroBlock /\ \E j \in Slot : w.disk[v.end].data[j] = x
  /\ \A x \in Sector \ (N \cup {v.end}) : w.disk[x] = v.disk[x]
  /\ w.left = v.left - IndexSize
  /\ \/ /\ v.left > IndexSize
        /\ w.end \in Sector \ (v.used \cup N) /\ w.used = v.used \cup N \cup {w.end}
     \/ /\ v.left <= IndexSize
        /\ w.end = v.end /\ w.used = v.used \cup N

\* A turn of inode_create adds an index block with its sectors, or fails.
LEMMA CreateTurn ==
  ASSUME NEW v \in CreateRec, v.end \in v.used, v.left >= 0, v.ok,
         NEW w, w = CreateIndexBlock(v)
  PROVE  /\ w \in CreateRec
         /\ \/ ~ w.ok /\ w.disk = v.disk /\ v.used \subseteq w.used /\ w.end = v.end
            \/ w.ok /\ \E N : Filled(v, w, N)
<1> DEFINE u == v.used
           more == v.left > IndexSize
           n == IF more THEN IndexSize ELSE v.left
           taken == IF more THEN n + 1 ELSE n
           next == IF more THEN Given(u, n) ELSE v.end
           slots == [i \in Slot |-> IF i < n THEN Given(u, i) ELSE v.end]
           N == {Given(u, i) : i \in 0..(n - 1)}
<1>1. /\ v.disk \in [Sector -> Block] /\ u \in SUBSET Sector /\ v.end \in Sector /\ v.left \in Int
      /\ IndexSize \in Nat \ {0}
  BY FileSystemAssumption DEF CreateRec
<1>2. n \in 0..IndexSize /\ taken \in Nat /\ n <= taken /\ (more => taken = n + 1) /\ (~ more => taken = n)
  BY <1>1
<1>3. w = IF ~ v.ok \/ \E i \in 0..(taken - 1) : Allocated(u, i) = Sector
          THEN [[v EXCEPT !.ok = FALSE] EXCEPT !.used = Sector]
          ELSE [v EXCEPT !.used = Allocated(@, taken),
                         !.disk = [s \in Sector |-> IF s = v.end THEN IndexBlock(next, slots)
                                                    ELSE IF s \in N THEN ZeroBlock ELSE @[s]],
                         !.end = next, !.left = @ - IndexSize]
  BY <1>1 DEF CreateIndexBlock, Failed, Given
<1> HIDE DEF n, taken
<1>4. CASE \E i \in 0..(taken - 1) : Allocated(u, i) = Sector
  <2>1. w = [[v EXCEPT !.ok = FALSE] EXCEPT !.used = Sector]
    BY <1>3, <1>4
  <2> QED BY <1>1, <2>1 DEF CreateRec
<1>5. CASE ~ \E i \in 0..(taken - 1) : Allocated(u, i) = Sector
  <2> HIDE DEF next, slots, N
  <2>1. w = [v EXCEPT !.used = Allocated(@, taken),
                      !.disk = [s \in Sector |-> IF s = v.end THEN IndexBlock(next, slots)
                                                 ELSE IF s \in N THEN ZeroBlock ELSE @[s]],
                      !.end = next, !.left = @ - IndexSize]
    BY <1>3, <1>5
  <2>2. /\ w.used = Allocated(u, taken) /\ w.end = next /\ w.left = v.left - IndexSize /\ w.ok = v.ok
        /\ w.disk = [s \in Sector |-> IF s = v.end THEN IndexBlock(next, slots)
                                      ELSE IF s \in N THEN ZeroBlock ELSE v.disk[s]]
    BY <2>1 DEF CreateRec
  <2>3. /\ Allocated(u, taken) = u \cup {Given(u, i) : i \in 0..(taken - 1)}
        /\ \A i \in 0..(taken - 1) : Given(u, i) \in Sector \ u
        /\ \A i, j \in 0..(taken - 1) : Given(u, i) = Given(u, j) => i = j
    BY <1>1, <1>2, <1>5, Allocation
  <2>4. \A i \in 0..(n - 1) : i \in 0..(taken - 1) /\ i \in Slot
    BY <1>1, <1>2 DEF Slot
  <2>5. N \subseteq Sector \ u
    BY <2>3, <2>4 DEF N
  <2>6. /\ more => /\ next \in Sector \ (u \cup N)
                   /\ w.used = u \cup N \cup {next}
        /\ ~ more => next = v.end /\ w.used = u \cup N
    <3>1. ASSUME more PROVE next \in Sector \ (u \cup N) /\ w.used = u \cup N \cup {next}
      <4>1. next = Given(u, n) /\ n \in 0..(taken - 1) /\ taken - 1 = n
        BY <1>2, <3>1 DEF next
      <4>2. next \in Sector \ u
        BY <2>3, <4>1
      <4>3. next \notin N
        <5> SUFFICES ASSUME NEW i \in 0..(n - 1), Given(u, i) = Given(u, n) PROVE FALSE
          BY <4>1 DEF N
        <5>1. i = n
          BY <2>3, <2>4, <4>1
        <5> QED BY <1>1, <1>2, <5>1
      <4>4. \A i \in 0..(taken - 1) : i \in 0..(n - 1) \/ i = n
        BY <1>2, <4>1
      <4>5. {Given(u, i) : i \in 0..(taken - 1)} = N \cup {next}
        BY <2>4, <4>1, <4>4 DEF N
      <4> QED BY <2>2, <2>3, <4>2, <4>3, <4>5
    <3>2. ASSUME ~ more PROVE next = v.end /\ w.used = u \cup N
      <4>1. taken = n
        BY <1>2, <3>2
      <4> QED BY <2>2, <2>3, <3>2, <4>1 DEF next, N
    <3> QED BY <3>1, <3>2
  <2>7. next \in Sector
    BY <1>1, <2>6
  <2>8. /\ slots \in [Slot -> Sector]
        /\ \A j \in Slot : slots[j] = v.end \/ slots[j] \in N
        /\ \A j, k \in Slot : slots[j] \in N /\ slots[j] = slots[k] => j = k
        /\ \A x \in N : \E j \in Slot : slots[j] = x
    <3>1. v.end \notin N
      BY <2>5
    <3>2. \A j \in Slot : j < n => j \in 0..(n - 1)
      BY <1>1, <1>2 DEF Slot
    <3>3. \A j \in Slot : \/ j \in 0..(n - 1) /\ slots[j] = Given(u, j) /\ slots[j] \in N
                          \/ slots[j] = v.end
      BY <3>2 DEF slots, N
    <3>4. \A j \in Slot : slots[j] \in Sector
      BY <1>1, <2>5, <3>3
    <3>5. slots \in [Slot -> Sector]
      BY <3>4 DEF slots
    <3>6. \A j, k \in Slot : slots[j] \in N /\ slots[j] = slots[k] => j = k
      BY <2>3, <2>4, <3>1, <3>3
    <3>7. \A x \in N : \E j \in Slot : slots[j] = x
      <4> SUFFICES ASSUME NEW i \in 0..(n - 1) PROVE \E j \in Slot : slots[j] = Given(u, i)
        BY DEF N
      <4>1. i \in Slot /\ i < n
        BY <1>1, <1>2, <2>4
      <4>2. slots[i] = Given(u, i)
        BY <4>1 DEF slots
      <4> QED BY <4>1, <4>2
    <3> QED BY <3>3, <3>5, <3>6, <3>7
  <2>9. /\ w.disk[v.end] = IndexBlock(next, slots)
        /\ \A x \in N : w.disk[x] = ZeroBlock
        /\ \A x \in Sector \ (N \cup {v.end}) : w.disk[x] = v.disk[x]
    <3> HIDE DEF u
    <3>1. \A x \in N : x \in Sector /\ x # v.end
      BY <2>5 DEF u
    <3> QED BY <1>1, <2>2, <3>1
  <2>10. /\ w.disk[v.end] \in IndexRec /\ w.disk[v.end].next = next /\ w.disk[v.end].data = slots
    BY <2>7, <2>8, <2>9 DEF IndexBlock, IndexRec
  <2>11. w.disk \in [Sector -> Block]
    <3>1. w.disk = [x \in Sector |-> w.disk[x]]
      BY <2>2
    <3>2. IndexRec \subseteq Block /\ DataRec \subseteq Block /\ ZeroBlock \in DataRec
      BY DEF IndexRec, DataRec, Block, ZeroBlock, DataBlock
    <3>3. \A x \in Sector : w.disk[x] \in Block
      BY <1>1, <2>9, <2>10, <3>2
    <3> QED BY <3>1, <3>3
  <2>12. w.used \in SUBSET Sector
    BY <1>1, <2>5, <2>6
  <2>13. w \in CreateRec
    <3>1. w = [v EXCEPT !.used = w.used, !.disk = w.disk, !.end = w.end, !.left = w.left]
      BY <2>1, <2>2
    <3>2. w.end \in Sector /\ w.left \in Int
      BY <1>1, <2>2, <2>7
    <3> QED BY <2>11, <2>12, <3>1, <3>2 DEF CreateRec
  <2>14. Filled(v, w, N)
    BY <1>1, <2>2, <2>5, <2>6, <2>8, <2>9, <2>10 DEF Filled
  <2> QED BY <2>2, <2>13, <2>14
<1> QED BY <1>4, <1>5

\* The file as it would be with an empty block in place of the one that is
\* filled next, and when all blocks are.
Partial(v, f, start, length) ==
  [v.disk EXCEPT ![v.end] = IndexBlockInit(v.end), ![f] = InodeDisk(start, v.end, length)]
Complete(v, f, start, length) == [v.disk EXCEPT ![f] = InodeDisk(start, v.end, length)]

\* What Partial writes, sector by sector.
LEMMA PartialIs ==
  ASSUME NEW v \in CreateRec, NEW f \in Sector, f # v.end, NEW start \in Sector,
         NEW length \in Nat, NEW e, e = Partial(v, f, start, length)
  PROVE  /\ e \in [Sector -> Block] /\ e[f] = InodeDisk(start, v.end, length)
         /\ e[v.end] = IndexBlockInit(v.end)
         /\ \A x \in Sector \ {f, v.end} : e[x] = v.disk[x]
<1>1. v.disk \in [Sector -> Block] /\ v.end \in Sector
  BY DEF CreateRec
<1>2. IndexBlockInit(v.end) \in Block /\ InodeDisk(start, v.end, length) \in Block
  BY <1>1 DEF IndexBlockInit, IndexBlock, InodeDisk, Block
<1> QED BY <1>1, <1>2 DEF Partial

\* What Complete writes.
LEMMA CompleteIs ==
  ASSUME NEW v \in CreateRec, NEW f \in Sector, NEW start \in Sector,
         NEW length \in Nat, NEW e, e = Complete(v, f, start, length)
  PROVE  /\ e \in [Sector -> Block] /\ e[f] = InodeDisk(start, v.end, length)
         /\ \A x \in Sector \ {f} : e[x] = v.disk[x]
<1>1. v.disk \in [Sector -> Block] /\ v.end \in Sector
  BY DEF CreateRec
<1>2. InodeDisk(start, v.end, length) \in Block
  BY <1>1 DEF InodeDisk, Block
<1> QED BY <1>1, <1>2 DEF Complete

Building(v, S, f, start, length, exact) ==
  LET e == Partial(v, f, start, length)
  IN  /\ Image(e, v.used, S) /\ v.end \in Blocks(e, f)
      /\ exact => v.used = Owned(e, S)

Finished(v, S, f, start, length, exact) ==
  LET e == Complete(v, f, start, length)
  IN  /\ Image(e, v.used, S) /\ e[v.end].next = v.end
      /\ exact => v.used = Owned(e, S)

\* One turn that succeeds: it builds the file further, and the last turn, with
\* fewer sectors left than an index block has slots, finishes it.  The turn that
\* has just as many does not keep them.
LEMMA TurnBuilds ==
  ASSUME NEW v \in CreateRec, NEW w \in CreateRec, NEW S, NEW f \in S, NEW start \in Sector,
         NEW length \in Nat, NEW exact \in BOOLEAN, Building(v, S, f, start, length, exact),
         NEW N, Filled(v, w, N), exact => v.left # IndexSize
  PROVE  /\ v.left >= IndexSize => Building(w, S, f, start, length, exact)
         /\ v.left < IndexSize => Finished(w, S, f, start, length, exact)
<1> DEFINE d == Partial(v, f, start, length)
           u == v.used
           b == v.end
<1>1. Image(d, u, S) /\ b \in Blocks(d, f) /\ (exact => u = Owned(d, S))
  BY DEF Building
<1>2. f \in Sector /\ FileOK(d, f) /\ Sects(d, f) \subseteq u
  BY <1>1 DEF Image
<1>3. b \in Sector /\ b # f /\ b \in u /\ f \in u /\ w.disk \in [Sector -> Block]
  BY <1>1, <1>2, FileParts DEF CreateRec
<1>4. /\ d \in [Sector -> Block] /\ d[f] = InodeDisk(start, b, length)
      /\ d[b] = IndexBlockInit(b) /\ \A x \in Sector \ {f, b} : d[x] = v.disk[x]
  BY <1>2, <1>3, PartialIs
<1>5. d[b] \in IndexRec /\ d[b].next = b /\ \A j \in Slot : d[b].data[j] = b
  BY <1>3, <1>4 DEF IndexBlockInit, IndexBlock, IndexRec
<1>6. /\ N \in SUBSET (Sector \ u)
      /\ w.disk[b] \in IndexRec /\ w.disk[b].next = w.end
      /\ \A j \in Slot : w.disk[b].data[j] = b \/ w.disk[b].data[j] \in N
      /\ \A j, k \in Slot : w.disk[b].data[j] \in N /\ w.disk[b].data[j] = w.disk[b].data[k] => j = k
      /\ \A x \in N : \E j \in Slot : w.disk[b].data[j] = x
  BY DEF Filled
<1>7. /\ \A x \in N : w.disk[x] = ZeroBlock
      /\ \A x \in Sector \ (N \cup {b}) : w.disk[x] = v.disk[x]
  BY DEF Filled
<1>8. ZeroBlock \in DataRec
  BY DEF ZeroBlock, DataBlock, DataRec
<1>9. d[f].start = start /\ d[f].end = b /\ f \notin N
  BY <1>3, <1>4, <1>6 DEF InodeDisk
<1> HIDE DEF d, u, b
<1>10. CASE v.left > IndexSize
  <2> DEFINE s == w.end
             e == [w.disk EXCEPT ![f] = InodeDisk(start, b, length),
                                 ![b] = IndexBlock(b, w.disk[b].data)]
             g == [e EXCEPT ![s] = IndexBlockInit(s), ![b] = w.disk[b]]
             h == Partial(w, f, start, length)
  <2>1. s \in Sector \ (u \cup N) /\ w.used = u \cup N \cup {s}
    BY <1>10, FileSystemAssumption DEF Filled, u, CreateRec
  <2>2. s # f /\ s # b /\ s \notin N
    BY <1>3, <2>1
  <2>3. /\ InodeDisk(start, b, length) \in Block /\ IndexBlockInit(s) \in Block
        /\ IndexBlock(b, w.disk[b].data) \in IndexRec /\ IndexRec \subseteq Block
    BY <1>3, <1>6, <2>1 DEF InodeDisk, IndexBlockInit, IndexBlock, IndexRec, Block
  <2>4. /\ e \in [Sector -> Block] /\ e[f] = InodeDisk(start, b, length)
        /\ e[b] = IndexBlock(b, w.disk[b].data)
        /\ \A x \in Sector \ {f, b} : e[x] = w.disk[x]
    BY <1>2, <1>3, <2>3
  <2>5. e[b] \in IndexRec /\ e[b].next = b /\ e[b].data = w.disk[b].data
    BY <2>3, <2>4 DEF IndexBlock
  <2> HIDE DEF e, s
  <2>6. Kept(d, u, e, u \cup N, S)
    <3>1. \A x \in N : e[x] \in DataRec
      BY <1>3, <1>6, <1>7, <1>8, <1>9, <2>4
    <3>2. \A x \in Sector \ (N \cup {b}) : e[x] = d[x]
      BY <1>4, <1>7, <2>4
    <3>3. \A j \in Slot : \/ e[b].data[j] = d[b].data[j]
                          \/ d[b].data[j] = b /\ e[b].data[j] \in N
      BY <1>5, <1>6, <2>5
    <3>4. /\ \A j, k \in Slot : e[b].data[j] \in N /\ e[b].data[j] = e[b].data[k] => j = k
          /\ \A x \in N : \E j \in Slot : e[b].data[j] = x
      BY <1>6, <2>5
    <3>5. e[b].next = d[b].next
      BY <1>5, <2>5
    <3>6. /\ Image(d, u, S) /\ b \in Blocks(d, f) /\ N \in SUBSET (Sector \ u)
          /\ e \in [Sector -> Block] /\ e[b] \in IndexRec
      BY <1>1, <1>6, <2>4, <2>5
    <3> QED BY <3>1, <3>2, <3>3, <3>4, <3>5, <3>6, Fill, ZenonT(40)
  <2>7. /\ g \in [Sector -> Block] /\ g[s] = IndexBlockInit(s) /\ g[b] = w.disk[b]
        /\ \A x \in Sector \ {s, b} : g[x] = e[x]
    BY <1>3, <1>6, <2>1, <2>2, <2>3, <2>4
  <2> HIDE DEF g
  <2>8. Adds(e, u \cup N, g, s, S, f, b)
    <3>1. Image(e, u \cup N, S) /\ b \in Blocks(e, f) /\ e[f].end = b
      BY <1>1, <2>4, <2>6 DEF Kept, InodeDisk
    <3>2. s \in Sector \ (u \cup N)
      BY <2>1
    <3>3. g[b] \in IndexRec /\ g[b].next = s /\ g[b].data = e[b].data
      BY <1>6, <2>5, <2>7 DEF s
    <3> DEFINE m == u \cup N
    <3>4. Image(e, m, S) /\ s \in Sector \ m
      BY <3>1, <3>2
    <3> HIDE DEF m
    <3>5. Adds(e, m, g, s, S, f, b)
      BY <2>7, <3>1, <3>3, <3>4, AddsBlock
    <3> QED BY <3>5 DEF m
  <2>9. Image(g, w.used, S) /\ s \in Blocks(g, f) /\ g[f] = e[f]
    BY <2>1, <2>8 DEF Adds, Extends
  <2>10. /\ h \in [Sector -> Block] /\ h[f] = InodeDisk(start, s, length)
         /\ h[s] = IndexBlockInit(s) /\ \A x \in Sector \ {f, s} : h[x] = w.disk[x]
    BY <1>2, <2>2, PartialIs DEF s
  <2> HIDE DEF h
  <2>11. \A x \in Sector \ {f} : h[x] = g[x]
    BY <2>4, <2>7, <2>10
  <2>12. g[f].start = start
    BY <2>4, <2>9 DEF InodeDisk
  <2>13. /\ Image(h, w.used, S) /\ Owned(h, S) = Owned(g, S)
         /\ \A x \in S : /\ Blocks(h, x) = Blocks(g, x)
                         /\ \A y \in Blocks(g, x) : h[y].next = g[y].next
    BY <2>9, <2>10, <2>11, <2>12, Relabel
  <2>14. exact => w.used = Owned(h, S)
    <3>1. exact => u \cup N = Owned(e, S)
      BY <1>1, <2>6 DEF Kept
    <3>2. exact => w.used = Owned(g, S)
      BY <2>1, <2>5, <2>8, <3>1 DEF Adds
    <3> QED BY <2>13, <3>2
  <2>15. s \in Blocks(h, f)
    BY <2>9, <2>13
  <2>16. Building(w, S, f, start, length, exact)
    BY <2>13, <2>14, <2>15 DEF Building, h, s
  <2> QED BY <1>10, <2>16, FileSystemAssumption DEF CreateRec
<1>11. CASE v.left = IndexSize
  <2> DEFINE h == Partial(w, f, start, length)
  <2>1. w.end = b /\ w.used = u \cup N
    BY <1>11, FileSystemAssumption DEF Filled, u, b
  <2>2. /\ h \in [Sector -> Block] /\ h[f] = InodeDisk(start, b, length)
        /\ h[b] = IndexBlockInit(b) /\ \A x \in Sector \ {f, b} : h[x] = w.disk[x]
    BY <1>2, <1>3, <2>1, PartialIs
  <2> HIDE DEF h
  <2>3. u \subseteq Sector
    BY <1>1 DEF Image
  <2>4. \A x \in u : h[x] = d[x]
    BY <1>4, <1>6, <1>7, <2>2, <2>3
  <2>5. w.used \in SUBSET Sector /\ u \subseteq w.used
    BY <1>6, <2>1, <2>3
  <2>6. Image(h, w.used, S) /\ Kept(d, u, h, u, S)
    BY <1>1, <2>2, <2>4, <2>5, UsedSame
  <2>7. b \in Blocks(h, f)
    BY <1>1, <2>6 DEF Kept
  <2>8. Building(w, S, f, start, length, exact)
    BY <1>11, <2>1, <2>6, <2>7 DEF Building, h
  <2> QED BY <1>11, <2>8, FileSystemAssumption
<1>12. CASE v.left < IndexSize
  <2> DEFINE e == Complete(w, f, start, length)
  <2>1. w.end = b /\ w.used = u \cup N
    BY <1>12, FileSystemAssumption DEF Filled, u, b, CreateRec
  <2>2. /\ e \in [Sector -> Block] /\ e[f] = InodeDisk(start, b, length)
        /\ \A x \in Sector \ {f} : e[x] = w.disk[x]
    BY <1>2, <2>1, CompleteIs
  <2> HIDE DEF e
  <2>3. e[b] = w.disk[b]
    BY <1>3, <2>2
  <2>4. Kept(d, u, e, u \cup N, S)
    <3>1. \A x \in N : e[x] \in DataRec
      BY <1>6, <1>7, <1>8, <1>9, <2>2
    <3>2. \A x \in Sector \ (N \cup {b}) : e[x] = d[x]
      BY <1>4, <1>7, <2>2
    <3>3. \A j \in Slot : \/ e[b].data[j] = d[b].data[j]
                          \/ d[b].data[j] = b /\ e[b].data[j] \in N
      BY <1>5, <1>6, <2>3
    <3>4. /\ \A j, k \in Slot : e[b].data[j] \in N /\ e[b].data[j] = e[b].data[k] => j = k
          /\ \A x \in N : \E j \in Slot : e[b].data[j] = x
      BY <1>6, <2>3
    <3>5. e[b].next = d[b].next /\ e[b] \in IndexRec
      BY <1>5, <1>6, <2>1, <2>3
    <3>6. /\ Image(d, u, S) /\ b \in Blocks(d, f) /\ N \in SUBSET (Sector \ u)
          /\ e \in [Sector -> Block]
      BY <1>1, <1>6, <2>2
    <3> QED BY <3>1, <3>2, <3>3, <3>4, <3>5, <3>6, Fill, ZenonT(40)
  <2>5. Image(e, w.used, S) /\ (exact => w.used = Owned(e, S))
    BY <1>1, <2>1, <2>4 DEF Kept
  <2>6. e[w.end].next = w.end
    BY <1>6, <2>1, <2>3
  <2>7. Finished(w, S, f, start, length, exact)
    BY <2>5, <2>6 DEF Finished, e
  <2> QED BY <1>12, <2>7, FileSystemAssumption DEF CreateRec
<1> QED BY <1>10, <1>11, <1>12, FileSystemAssumption DEF CreateRec

\* No turn leaves the types, wherever the loop is.
LEMMA CreateTyped ==
  ASSUME NEW v \in CreateRec, v.end \in v.used, NEW w, w = CreateIndexBlock(v)
  PROVE  /\ w \in CreateRec /\ w.end \in w.used
         /\ v.left < 0 => w = v
         /\ ~ v.ok => ~ w.ok /\ w.disk = v.disk /\ v.used \subseteq w.used /\ w.end = v.end
<1>1. v.left \in Int /\ v.used \subseteq Sector /\ v.end \in Sector
  BY DEF CreateRec
<1>2. CASE v.left < 0
  BY <1>2 DEF CreateIndexBlock
<1>3. CASE v.left >= 0 /\ ~ v.ok
  <2>1. w = [[v EXCEPT !.ok = FALSE] EXCEPT !.used = Sector]
    BY <1>1, <1>3 DEF CreateIndexBlock, Failed
  <2>2. w \in CreateRec
    BY <2>1 DEF CreateRec
  <2>3. ~ w.ok /\ w.disk = v.disk /\ w.used = Sector /\ w.end = v.end
    BY <2>1 DEF CreateRec
  <2>4. ~ (v.left < 0)
    BY <1>1, <1>3
  <2> QED BY <1>1, <2>2, <2>3, <2>4
<1>4. CASE v.left >= 0 /\ v.ok
  <2>1. /\ w \in CreateRec
        /\ \/ ~ w.ok /\ v.used \subseteq w.used /\ w.end = v.end
           \/ \E N : Filled(v, w, N)
    BY <1>4, CreateTurn
  <2>2. (\E N : Filled(v, w, N)) => w.end \in w.used
    BY DEF Filled
  <2> QED BY <1>1, <1>4, <2>1, <2>2
<1> QED BY <1>1, <1>2, <1>3, <1>4

\* What inode_create has after another turn.
LEMMA CreatedNext ==
  ASSUME NEW w, w.disk \in [Sector -> Block], w.used \in SUBSET Sector,
         NEW start \in Sector, NEW sectors \in Nat
  PROVE  /\ Created(w, start, sectors, 0) =
              [disk |-> w.disk, used |-> w.used \cup {start}, ok |-> TRUE,
               end |-> start, left |-> sectors]
         /\ \A j \in Nat : Created(w, start, sectors, j + 1) =
                             CreateIndexBlock(Created(w, start, sectors, j))
<1> DEFINE base == [disk |-> w.disk, used |-> w.used \cup {start}, ok |-> TRUE,
                    end |-> start, left |-> sectors]
           W == {v \in CreateRec : v.end \in v.used}
           Body(g, n) == IF n = 0 THEN base ELSE CreateIndexBlock(g[n - 1])
           f == CHOOSE g : g = [n \in Nat |-> Body(g, n)]
           step == [p \in W \X Nat |-> CreateIndexBlock(p[1])]
<1>1. step \in [W \X Nat -> W]
  <2> SUFFICES ASSUME NEW v \in W PROVE CreateIndexBlock(v) \in W
    OBVIOUS
  <2> DEFINE x == CreateIndexBlock(v)
  <2>1. x \in CreateRec /\ x.end \in x.used
    <3>1. v \in CreateRec /\ v.end \in v.used
      OBVIOUS
    <3> HIDE DEF x
    <3> QED BY <3>1, CreateTyped DEF x
  <2> QED BY <2>1
<1>2. base \in W
  BY DEF CreateRec
<1>3. PICK g \in [Nat -> W] : IsLoop(g, base, step)
  <2> HIDE DEF step, W, base
  <2> QED BY <1>1, <1>2, LoopIn
<1>4. \A n \in Nat : g[n] = Body(g, n)
  <2> TAKE n \in Nat
  <2> HIDE DEF base, W
  <2>1. g[n] = IF n = 0 THEN base ELSE step[<<g[n - 1], n>>]
    BY <1>3 DEF IsLoop
  <2>2. CASE n = 0
    BY <2>1, <2>2
  <2>3. CASE n # 0
    <3>1. <<g[n - 1], n>> \in W \X Nat
      BY <2>3
    <3>2. step[<<g[n - 1], n>>] = CreateIndexBlock(g[n - 1])
      BY <3>1
    <3> QED BY <2>1, <2>3, <3>2
  <2> QED BY <2>2, <2>3
<1>5. g = [n \in Nat |-> Body(g, n)]
  <2> HIDE DEF step, W, base
  <2>0. PICK v : v = [n \in Nat |-> Body(g, n)]
    OBVIOUS
  <2>1. v = [n \in Nat |-> v[n]] /\ g = [n \in Nat |-> g[n]]
    BY <2>0
  <2>2. \A n \in Nat : v[n] = g[n]
    BY <1>4, <2>0
  <2> QED BY <2>0, <2>1, <2>2
<1>6. f = [n \in Nat |-> Body(f, n)]
  <2> HIDE DEF base
  <2> QED BY <1>5
<1>7. \A n \in Nat : Created(w, start, sectors, n) = f[n]
  BY DEF Created
<1> HIDE DEF f, base
<1>8. f[0] = base /\ \A j \in Nat : f[j + 1] = CreateIndexBlock(f[j])
  <2>1. \A j \in Nat : j + 1 \in Nat /\ j + 1 # 0 /\ (j + 1) - 1 = j
    OBVIOUS
  <2> QED BY <1>6, <2>1
<1>9. ASSUME NEW j \in Nat
      PROVE  Created(w, start, sectors, j + 1) = CreateIndexBlock(Created(w, start, sectors, j))
  <2>1. Created(w, start, sectors, j + 1) = f[j + 1] /\ Created(w, start, sectors, j) = f[j]
    BY <1>7
  <2> QED BY <1>8, <2>1
<1> QED BY <1>7, <1>8, <1>9 DEF base

\* How many turns there are.
LEMMA Turns ==
  ASSUME NEW a \in Nat, NEW k \in Nat \ {0}
  PROVE  /\ a >= k => (a - k) \div k = (a \div k) - 1 /\ (a - k) % k = a % k
         /\ a >= k => a \div k >= 1
         /\ a < k => a \div k = 0
         /\ k % k = 0
<1>1. ASSUME a >= k PROVE (a - k) \div k = (a \div k) - 1 /\ (a - k) % k = a % k
  BY <1>1
<1>2. ASSUME a < k PROVE a \div k = 0
  BY <1>2
<1>3. ASSUME a >= k PROVE a \div k >= 1
  BY <1>3
<1>4. k % k = 0
  OBVIOUS
<1> QED BY <1>1, <1>2, <1>3, <1>4

\* What is known of the loop of inode_create after j of its turns: nothing that
\* was marked has changed, and the file is built so far, or finished.
Built(v, j, d, u, S, f, start, length, exact) ==
  /\ v \in CreateRec /\ v.end \in v.used /\ v.end \notin u \cup {f}
  /\ u \cup {f, start} \subseteq v.used /\ \A s \in u : v.disk[s] = d[s]
  /\ v.ok => LET sectors == BytesToSectors(length)
                 turns == sectors \div IndexSize
             IN  \/ /\ j <= turns /\ v.left \in Nat /\ v.left \div IndexSize = turns - j
                    /\ v.left % IndexSize = sectors % IndexSize
                    /\ Building(v, S \cup {f}, f, start, length, exact)
                 \/ /\ j > turns /\ v.left < 0
                    /\ Finished(v, S \cup {f}, f, start, length, exact)

\* The sizes whose sectors are all kept.
Fits(length) ==
  BytesToSectors(length) = 0 \/ BytesToSectors(length) % IndexSize # 0

\* A file under construction stays one through a turn of inode_create.
LEMMA BuiltNext ==
  ASSUME NEW d, NEW u \in SUBSET Sector, NEW S, NEW f \in Sector, NEW start \in Sector,
         NEW length \in Nat, NEW exact \in BOOLEAN, exact => Fits(length),
         BytesToSectors(length) \in Nat, NEW j \in Nat,
         NEW v, Built(v, j, d, u, S, f, start, length, exact),
         NEW w, w = CreateIndexBlock(v)
  PROVE  Built(w, j + 1, d, u, S, f, start, length, exact)
<1> DEFINE sectors == BytesToSectors(length)
           turns == sectors \div IndexSize
<1>1. /\ v \in CreateRec /\ v.end \in v.used /\ v.end \notin u \cup {f}
      /\ u \cup {f, start} \subseteq v.used /\ \A s \in u : v.disk[s] = d[s]
      /\ v.left \in Int /\ v.ok \in BOOLEAN
  BY DEF Built, CreateRec
<1>2. turns \in Nat /\ IndexSize \in Nat \ {0} /\ sectors \in Nat
  BY FileSystemAssumption, Division
<1>3. /\ w \in CreateRec /\ w.end \in w.used
      /\ v.left < 0 => w = v
      /\ ~ v.ok => ~ w.ok /\ w.disk = v.disk /\ v.used \subseteq w.used /\ w.end = v.end
  BY <1>1, CreateTyped
<1>4. CASE ~ v.ok
  BY <1>1, <1>3, <1>4 DEF Built
<1>5. CASE v.ok /\ j > turns
  <2>1. v.left < 0 /\ Finished(v, S \cup {f}, f, start, length, exact) /\ w = v
    BY <1>2, <1>3, <1>5 DEF Built
  <2>2. j + 1 > turns
    BY <1>2, <1>5
  <2> QED BY <1>1, <2>1, <2>2 DEF Built
<1>6. CASE v.ok /\ j <= turns
  <2>1. /\ v.left \in Nat /\ v.left \div IndexSize = turns - j
        /\ v.left % IndexSize = sectors % IndexSize
        /\ Building(v, S \cup {f}, f, start, length, exact)
    BY <1>2, <1>6 DEF Built
  <2>2. \/ ~ w.ok /\ w.disk = v.disk /\ v.used \subseteq w.used /\ w.end = v.end
        \/ w.ok /\ \E N : Filled(v, w, N)
    BY <1>1, <1>6, <2>1, CreateTurn
  <2>3. CASE ~ w.ok /\ w.disk = v.disk /\ v.used \subseteq w.used /\ w.end = v.end
    BY <1>1, <1>3, <2>3 DEF Built
  <2>4. CASE w.ok /\ \E N : Filled(v, w, N)
    <3>1. PICK N : Filled(v, w, N)
      BY <2>4
    <3>2. /\ N \subseteq Sector \ v.used /\ w.left = v.left - IndexSize
          /\ w.end = v.end \/ w.end \notin v.used
          /\ v.used \subseteq w.used
          /\ \A x \in Sector \ (N \cup {v.end}) : w.disk[x] = v.disk[x]
      BY <3>1 DEF Filled
    <3>3. /\ w.end \notin u \cup {f} /\ u \cup {f, start} \subseteq w.used
          /\ \A s \in u : w.disk[s] = d[s]
      BY <1>1, <3>2
    <3>4. exact => v.left # IndexSize
      <4> SUFFICES ASSUME exact, v.left = IndexSize PROVE FALSE
        OBVIOUS
      <4>1. v.left % IndexSize = 0 /\ v.left \div IndexSize >= 1
        BY <1>2, <2>1, Turns
      <4>2. sectors = 0
        BY <2>1, <4>1 DEF Fits
      <4>3. turns = 0
        BY <1>2, <4>2, Turns
      <4> HIDE DEF turns
      <4> QED BY <1>2, <2>1, <4>1, <4>3
    <3>5. f \in S \cup {f}
      OBVIOUS
    <3>6. /\ v.left >= IndexSize => Building(w, S \cup {f}, f, start, length, exact)
          /\ v.left < IndexSize => Finished(w, S \cup {f}, f, start, length, exact)
      <4> DEFINE T == S \cup {f}
      <4>1. f \in T /\ Building(v, T, f, start, length, exact)
        BY <2>1
      <4> HIDE DEF T
      <4>2. /\ v.left >= IndexSize => Building(w, T, f, start, length, exact)
            /\ v.left < IndexSize => Finished(w, T, f, start, length, exact)
        BY <1>1, <1>3, <3>1, <3>4, <4>1, TurnBuilds
      <4> QED BY <4>2 DEF T
    <3>7. CASE v.left >= IndexSize
      <4>1. /\ w.left \in Nat /\ w.left \div IndexSize = turns - j - 1
            /\ w.left % IndexSize = sectors % IndexSize /\ v.left \div IndexSize >= 1
        <5>1. /\ (v.left - IndexSize) \div IndexSize = (v.left \div IndexSize) - 1
              /\ (v.left - IndexSize) % IndexSize = v.left % IndexSize
              /\ v.left \div IndexSize >= 1
          BY <1>2, <2>1, <3>7, Turns
        <5>2. w.left \in Nat
          BY <1>2, <2>1, <3>2, <3>7
        <5> HIDE DEF turns
        <5> QED BY <2>1, <3>2, <5>1, <5>2
      <4>2. j + 1 <= turns /\ turns - j - 1 = turns - (j + 1)
        <5> HIDE DEF turns
        <5> QED BY <1>2, <2>1, <4>1
      <4> QED BY <1>3, <3>3, <3>6, <3>7, <4>1, <4>2 DEF Built
    <3>8. CASE v.left < IndexSize
      <4>1. v.left \div IndexSize = 0
        BY <1>2, <2>1, <3>8, Turns
      <4>2. j + 1 > turns
        <5> HIDE DEF turns
        <5> QED BY <1>2, <2>1, <4>1
      <4>3. w.left < 0
        BY <1>2, <2>1, <3>2, <3>8
      <4> QED BY <1>3, <3>3, <3>6, <3>8, <4>2, <4>3 DEF Built
    <3> QED BY <1>2, <2>1, <3>7, <3>8
  <2> QED BY <2>2, <2>3, <2>4
<1> QED BY <1>1, <1>2, <1>4, <1>5, <1>6

\* The disk when the sector of the inode has been allocated.
Taken(f) == [Work EXCEPT !.used = @ \cup {f}]

\* inode_create, with the sector of the inode taken from the free map: what was
\* marked stays as it is, and a file that is created is a good one.
LEMMA CreateKeeps ==
  ASSUME NEW S, Image(disk, used, S), used # Sector, NEW f, f = FirstFree(used),
         NEW length \in Nat, NEW exact \in BOOLEAN,
         exact => Fits(length) /\ used = Owned(disk, S),
         NEW w, w = InodeCreate(Taken(f), f, length)
  PROVE  /\ f \in Sector \ used /\ w.ok \in BOOLEAN
         /\ w.disk \in [Sector -> Block] /\ w.used \in SUBSET Sector
         /\ used \cup {f} \subseteq w.used /\ \A s \in used : w.disk[s] = disk[s]
         /\ w.used = used \cup {f} => ~ w.ok
         /\ w.ok => /\ Image(w.disk, w.used, S \cup {f})
                    /\ exact => /\ w.used = Owned(w.disk, S \cup {f})
                                /\ w.disk[w.disk[f].end].next = w.disk[f].end
<1> DEFINE v0 == [Work EXCEPT !.used = @ \cup {f}]
           start == FirstFree(v0.used)
           sectors == BytesToSectors(length)
           turns == sectors \div IndexSize
           C(j) == Created(v0, start, sectors, j)
           T == S \cup {f}
<1>1. used \in SUBSET Sector /\ disk \in [Sector -> Block]
  BY DEF Image
<1>2. f \in Sector \ used
  BY <1>1, FirstFreeIn
<1>3. v0 \in WorkRec /\ v0.disk = disk /\ v0.used = used \cup {f}
  BY <1>1, <1>2 DEF Work, WorkRec
<1>4. w = IF v0.used = Sector THEN [v0 EXCEPT !.ok = FALSE]
          ELSE [used |-> C(turns + 1).used, ok |-> C(turns + 1).ok,
                disk |-> IF C(turns + 1).ok
                         THEN [C(turns + 1).disk EXCEPT ![f] = InodeDisk(start, C(turns + 1).end, length)]
                         ELSE C(turns + 1).disk]
  BY DEF InodeCreate, Failed, Taken
<1> HIDE DEF v0
<1>5. CASE v0.used = Sector
  <2>1. w = [v0 EXCEPT !.ok = FALSE]
    BY <1>4, <1>5
  <2>2. w.disk = disk /\ w.used = used \cup {f} /\ w.ok = FALSE
    BY <1>3, <2>1 DEF WorkRec
  <2> QED BY <1>1, <1>2, <2>2
<1>6. CASE v0.used # Sector
  <2>1. start \in Sector \ (used \cup {f})
    <3>1. v0.used \in SUBSET Sector
      BY <1>1, <1>2, <1>3
    <3>2. start \in Sector \ v0.used
      BY <1>6, <3>1, FirstFreeIn
    <3> QED BY <1>3, <3>2
  <2> HIDE DEF start
  <2>2. sectors \in Nat /\ turns \in Nat /\ IndexSize \in Nat \ {0}
    <3>1. length + SectorBytes - 1 \in Nat /\ SectorBytes \in Nat \ {0} /\ IndexSize \in Nat \ {0}
      BY FileSystemAssumption
    <3>2. sectors \in Nat
      BY <3>1, Division DEF BytesToSectors
    <3> HIDE DEF sectors
    <3> QED BY <3>1, <3>2, Division
  <2>3. /\ C(0) = [disk |-> disk, used |-> (used \cup {f}) \cup {start}, ok |-> TRUE,
                   end |-> start, left |-> sectors]
        /\ \A j \in Nat : C(j + 1) = CreateIndexBlock(C(j))
    <3>1. v0.disk \in [Sector -> Block] /\ v0.used \in SUBSET Sector /\ start \in Sector
      BY <1>1, <1>2, <1>3, <2>1
    <3> HIDE DEF sectors
    <3>2. /\ C(0) = [disk |-> v0.disk, used |-> v0.used \cup {start}, ok |-> TRUE,
                     end |-> start, left |-> sectors]
          /\ \A j \in Nat : C(j + 1) = CreateIndexBlock(C(j))
      BY <2>2, <3>1, CreatedNext
    <3> QED BY <1>3, <3>2
  <2>4. ASSUME NEW v, v = C(0) PROVE Built(v, 0, disk, used, S, f, start, length, exact)
    <3> HIDE DEF C
    <3>1. /\ v.disk = disk /\ v.used = used \cup {f, start} /\ v.ok = TRUE
          /\ v.end = start /\ v.left = sectors /\ v \in CreateRec
      <4> HIDE DEF sectors
      <4>1. v = [disk |-> disk, used |-> (used \cup {f}) \cup {start}, ok |-> TRUE,
                 end |-> start, left |-> sectors]
        BY <2>3, <2>4
      <4>2. (used \cup {f}) \cup {start} = used \cup {f, start}
        OBVIOUS
      <4>3. /\ v.disk = disk /\ v.used = used \cup {f, start} /\ v.ok = TRUE
            /\ v.end = start /\ v.left = sectors
        BY <4>1, <4>2
      <4>4. v \in CreateRec
        BY <1>1, <1>2, <2>1, <2>2, <4>1 DEF CreateRec
      <4> QED BY <4>3, <4>4
    <3> DEFINE e == Partial(v, f, start, length)
    <3>2. /\ e \in [Sector -> Block] /\ e[f] = InodeDisk(start, start, length)
          /\ e[start] = IndexBlockInit(start) /\ \A x \in Sector \ {f, start} : e[x] = disk[x]
      BY <1>2, <2>1, <3>1, PartialIs
    <3> HIDE DEF e
    <3>3. \A s \in used : e[s] = disk[s]
      BY <1>1, <1>2, <2>1, <3>2
    <3>4. /\ Image(e, used \cup {f, start}, T) /\ start \in Blocks(e, f)
          /\ used = Owned(disk, S) => used \cup {f, start} = Owned(e, T)
      <4>1. start \in Sector \ used /\ start # f
        BY <2>1
      <4> DEFINE d == disk
                 u == used
      <4>2. /\ Image(d, u, S) /\ f \in Sector \ u /\ start \in Sector \ u /\ start # f
            /\ e \in [Sector -> Block] /\ \A s \in u : e[s] = d[s]
            /\ e[f] = InodeDisk(start, start, length) /\ e[start] = IndexBlockInit(start)
        BY <1>2, <3>2, <3>3, <4>1
      <4> HIDE DEF d, u, T, sectors, turns, C
      <4>3. /\ Image(e, u \cup {f, start}, S \cup {f}) /\ start \in Blocks(e, f)
            /\ u = Owned(d, S) => u \cup {f, start} = Owned(e, S \cup {f})
        BY <4>2, NewFile, SMTT(20)
      <4> QED BY <4>3 DEF d, u, T
    <3>5. Building(v, T, f, start, length, exact)
      BY <3>1, <3>4 DEF Building, e
    <3>6. turns - 0 = turns /\ 0 <= turns
      <4> HIDE DEF turns
      <4> QED BY <2>2
    <3> QED BY <2>1, <2>2, <3>1, <3>5, <3>6 DEF Built
  <2> DEFINE P == {j \in Nat : Built(C(j), j, disk, used, S, f, start, length, exact)}
  <2>5. 0 \in P
    BY <2>4
  <2>6. ASSUME NEW j \in Nat, j \in P PROVE j + 1 \in P
    <3> DEFINE v == C(j)
               x == C(j + 1)
    <3>1. Built(v, j, disk, used, S, f, start, length, exact) /\ x = CreateIndexBlock(v)
      BY <2>3, <2>6
    <3> HIDE DEF v, x
    <3>2. Built(x, j + 1, disk, used, S, f, start, length, exact)
      BY <1>1, <1>2, <2>1, <2>2, <3>1, BuiltNext
    <3> QED BY <3>2 DEF x
  <2>7. \A j \in Nat : j \in P
    <3> HIDE DEF P
    <3> QED BY <2>5, <2>6, NatInd
  <2> DEFINE v == C(turns + 1)
  <2>8. Built(v, turns + 1, disk, used, S, f, start, length, exact)
    <3>1. turns + 1 \in Nat
      BY <2>2
    <3> QED BY <2>7, <3>1
  <2>9. w = [used |-> v.used, ok |-> v.ok,
             disk |-> IF v.ok THEN Complete(v, f, start, length) ELSE v.disk]
    BY <1>4, <1>6 DEF Complete
  <2> HIDE DEF v
  <2>10. w.used = v.used /\ w.ok = v.ok
         /\ w.disk = IF v.ok THEN Complete(v, f, start, length) ELSE v.disk
    BY <2>9
  <2>11. /\ v \in CreateRec /\ used \cup {f, start} \subseteq v.used
         /\ \A s \in used : v.disk[s] = disk[s]
    BY <2>8 DEF Built
  <2>12. v.ok => Finished(v, T, f, start, length, exact)
    <3>1. ~ (turns + 1 <= turns)
      <4> HIDE DEF turns
      <4> QED BY <2>2
    <3> QED BY <2>8, <3>1 DEF Built
  <2>13. CASE ~ v.ok
    BY <1>2, <2>10, <2>11, <2>13 DEF CreateRec
  <2>14. CASE v.ok
    <3> DEFINE e == Complete(v, f, start, length)
    <3>1. /\ e \in [Sector -> Block] /\ e[f] = InodeDisk(start, v.end, length)
          /\ \A x \in Sector \ {f} : e[x] = v.disk[x]
      BY <1>2, <2>1, <2>11, CompleteIs
    <3>2. /\ Image(e, v.used, T) /\ e[v.end].next = v.end
          /\ exact => v.used = Owned(e, T)
      BY <2>12, <2>14 DEF Finished
    <3>3. w.disk = e /\ w.used = v.used /\ w.ok
      BY <2>10, <2>14
    <3> HIDE DEF e, T
    <3>4. \A s \in used : e[s] = disk[s]
      BY <1>1, <1>2, <2>11, <3>1
    <3>5. e[f].end = v.end
      BY <3>1 DEF InodeDisk
    <3>6. v.used # used \cup {f} /\ v.used \in SUBSET Sector
      BY <2>1, <2>11 DEF CreateRec
    <3> QED BY <1>2, <2>11, <2>14, <3>1, <3>2, <3>3, <3>4, <3>5, <3>6 DEF T
  <2> QED BY <2>10, <2>11, <2>13, <2>14 DEF CreateRec
<1> QED BY <1>5, <1>6

----------------------------------------------------------------------------
(* The inductive invariant *)

\* A file less.
LEMMA Release ==
  ASSUME NEW d, NEW u, NEW S, Image(d, u, S), NEW f \in S
  PROVE  /\ Image(d, u \ Sects(d, f), S \ {f})
         /\ u = Owned(d, S) => u \ Sects(d, f) = Owned(d, S \ {f})
<1>1. \A g \in S \ {f} : Sects(d, g) \subseteq u \ Sects(d, f)
  BY DEF Image
<1>2. Image(d, u \ Sects(d, f), S \ {f})
  BY <1>1 DEF Image
<1>3. ASSUME u = Owned(d, S) PROVE u \ Sects(d, f) = Owned(d, S \ {f})
  BY <1>1, <1>3 DEF Owned
<1> QED BY <1>2, <1>3

\* Fewer files, and all that was marked is still.
LEMMA Fewer ==
  ASSUME NEW d, NEW u, NEW S, Image(d, u, S), NEW T \in SUBSET S
  PROVE  Image(d, u, T)
  BY DEF Image

AllFit == \A length \in CreateLengths : Fits(length)

OpenRec ==
  [count : 1..MaxOpen, removed : BOOLEAN, locked : BOOLEAN,
   start : Sector, end : Sector, length : Nat]

\* The copy of an open inode is that on the disk, but for an end that a failed
\* write has moved.
CopyOK(f) ==
  open[f] # NotOpen =>
    /\ open[f].start = disk[f].start /\ open[f].end \in Blocks(disk, f)
    /\ open[f].removed <=> f \notin names
    /\ ~ open[f].locked => open[f].end = disk[f].end

\* No sector is marked for nothing, and the end of each file is its last block.
Exact ==
  AllFit /\ ~ lost =>
    /\ used = Owned(disk, Files)
    /\ \A f \in Files : disk[disk[f].end].next = disk[f].end
    /\ \A f \in Sector : open[f] # NotOpen => open[f].end = disk[f].end

IInv == TypeOK /\ Image(disk, used, Files) /\ (\A f \in Sector : CopyOK(f)) /\ Exact

\* An open inode is not the mark of a closed one.
LEMMA OpenIs ==
  ASSUME NEW x \in OpenRec
  PROVE  x # NotOpen /\ x \in Inode
<1>1. x.count \in 1..MaxOpen /\ MaxOpen \in Nat
  BY FileSystemAssumption DEF OpenRec
<1>2. NotOpen.count = 0
  BY DEF NotOpen
<1> QED BY <1>1, <1>2 DEF OpenRec, Inode

\* Each entry of the list of open inodes is an inode or closed.
LEMMA OpenType ==
  ASSUME IInv, NEW f \in Sector
  PROVE  /\ open[f] # NotOpen => open[f] \in OpenRec /\ f \in Files
         /\ NotOpen \in Inode
  BY DEF IInv, TypeOK, Inode, OpenRec, Files

\* What is shown of a state of which this holds.
LEMMA StartIs ==
  ASSUME IInv, NEW f \in Files
  PROVE  f \in Sector /\ StartOf(f) = disk[f].start /\ Of(f) = Sects(disk, f)
<1>1. f \in Sector
  BY DEF IInv, Image
<1>2. StartOf(f) = disk[f].start
  BY <1>1 DEF IInv, CopyOK, StartOf
<1> QED BY <1>1, <1>2 DEF Of, Sects

\* What the invariant is for.
LEMMA Consequences ==
  ASSUME IInv
  PROVE  TypeOK /\ OwnedOnce /\ (AllFit => NothingLost)
<1>1. \A f \in Files : Whole(disk, f, StartOf(f)) /\ Of(f) \subseteq used
  <2> TAKE f \in Files
  <2>1. FileOK(disk, f) /\ Sects(disk, f) \subseteq used
    BY DEF IInv, Image
  <2> QED BY <2>1, StartIs DEF FileOK
<1>2. \A f, g \in Files : f # g => Of(f) \cap Of(g) = {}
  <2> TAKE f, g \in Files
  <2>1. f # g => Sects(disk, f) \cap Sects(disk, g) = {}
    BY DEF IInv, Image
  <2> QED BY <2>1, StartIs
<1>3. ASSUME AllFit, ~ lost PROVE used = UNION {Of(f) : f \in Files}
  <2>1. used = UNION {Sects(disk, f) : f \in Files}
    BY <1>3 DEF IInv, Exact, Owned
  <2>2. \A f \in Files : Of(f) = Sects(disk, f)
    BY StartIs
  <2> QED BY <2>1, <2>2
<1> QED BY <1>1, <1>2, <1>3 DEF IInv, OwnedOnce, NothingLost

\* The formatted disk satisfies the invariant.
LEMMA Initial ==
  ASSUME Init
  PROVE  IInv
<1>1. Files = {}
  BY DEF Init, Files
<1>2. TypeOK
  <2>1. ZeroBlock \in Block
    BY DEF ZeroBlock, DataBlock, Block
  <2> QED BY <2>1 DEF Init, TypeOK, Inode
<1>3. Image(disk, used, Files)
  BY <1>1, <1>2 DEF Image, TypeOK
<1>4. \A f \in Sector : CopyOK(f)
  BY DEF Init, CopyOK
<1>5. Exact
  BY <1>1 DEF Exact, Init, Owned
<1> QED BY <1>2, <1>3, <1>4, <1>5 DEF IInv

\* What is exact stays so while files are kept.
LEMMA KeptExact ==
  ASSUME IInv, AllFit, ~ lost, NEW d, NEW u, Kept(disk, used, d, u, Files)
  PROVE  /\ u = Owned(d, Files)
         /\ \A f \in Files : d[d[f].end].next = d[f].end
         /\ \A f \in Sector : open[f] # NotOpen => open[f].end = d[f].end
<1>1. /\ used = Owned(disk, Files)
      /\ \A f \in Files : disk[disk[f].end].next = disk[f].end
      /\ \A f \in Sector : open[f] # NotOpen => open[f].end = disk[f].end
  BY DEF IInv, Exact
<1>2. u = Owned(d, Files)
  BY <1>1 DEF Kept
<1>3. \A f \in Files : d[d[f].end].next = d[f].end
  <2> TAKE f \in Files
  <2>1. disk[f].end \in Blocks(disk, f)
    BY DEF IInv, Image, FileOK
  <2>2. d[f] = disk[f] /\ \A b \in Blocks(disk, f) : d[b].next = disk[b].next
    BY DEF Kept
  <2> QED BY <1>1, <2>1, <2>2
<1>4. \A f \in Sector : open[f] # NotOpen => open[f].end = d[f].end
  <2> SUFFICES ASSUME NEW f \in Sector, open[f] # NotOpen PROVE d[f] = disk[f]
    BY <1>1
  <2>1. f \in Files
    BY OpenType
  <2> QED BY <2>1 DEF Kept
<1> QED BY <1>2, <1>3, <1>4

\* A step that keeps all files, and changes nothing but the disk.
LEMMA KeptStep ==
  ASSUME IInv, Kept(disk, used, disk', used', Files), up' \in BOOLEAN,
         UNCHANGED <<names, open, lost>>
  PROVE  IInv'
<1>1. Files' = Files
  BY DEF Files
<1>2. Image(disk', used', Files)
  BY DEF Kept
<1>3. TypeOK'
  BY <1>2 DEF IInv, TypeOK, Image
<1>4. \A f \in Sector : CopyOK(f)'
  <2> SUFFICES ASSUME NEW f \in Sector, open[f] # NotOpen PROVE CopyOK(f)'
    BY DEF CopyOK
  <2>1. f \in Files /\ CopyOK(f)
    BY OpenType DEF IInv
  <2>2. disk'[f] = disk[f] /\ Blocks(disk', f) = Blocks(disk, f)
    BY <2>1 DEF Kept
  <2> QED BY <2>1, <2>2 DEF CopyOK
<1>5. Exact'
  BY <1>1, KeptExact DEF Exact
<1> QED BY <1>1, <1>2, <1>3, <1>4, <1>5 DEF IInv

----------------------------------------------------------------------------
(* Its steps *)

\* Min of two lengths is a length.
LEMMA LeastOfTwo ==
  ASSUME NEW a \in Nat, NEW b \in Nat
  PROVE  Min({a, b}) \in Nat
<1>1. \E x \in {a, b} : \A y \in {a, b} : x <= y
  OBVIOUS
<1>2. Min({a, b}) \in {a, b}
  BY <1>1 DEF Min
<1> QED BY <1>2

\* What a call starts to work on is the disk and the free map.
LEMMA WorkIs ==
  ASSUME IInv
  PROVE  Work \in WorkRec /\ Work.disk = disk /\ Work.used = used
         /\ Work = [disk |-> disk, used |-> used, ok |-> TRUE]
  BY DEF IInv, TypeOK, Work, WorkRec

\* A read, which fills the holes it meets.
LEMMA InodeReadAtStep ==
  ASSUME IInv, NEW f \in Sector, NEW offset \in Offsets, NEW size \in Sizes,
         InodeReadAt(f, offset, size)
  PROVE  IInv'
<1> DEFINE x == open[f]
           hi == Min({offset + size, x.length})
           w == ReadSectors(Work, x.start, offset, hi)
<1>1. /\ x # NotOpen /\ disk' = w.disk /\ used' = w.used /\ up' = w.ok
      /\ UNCHANGED <<names, open, lost>>
  BY DEF InodeReadAt
<1>2. x \in OpenRec /\ f \in Files /\ x.start = disk[f].start
  BY <1>1, OpenType DEF IInv, CopyOK
<1>3. offset \in Nat /\ hi \in Nat
  BY <1>2, LeastOfTwo, FileSystemAssumption DEF OpenRec
<1> DEFINE v == Work
<1>4. v \in WorkRec /\ v.disk = disk /\ v.used = used /\ Image(v.disk, v.used, Files)
  BY WorkIs DEF IInv
<1> HIDE DEF hi, x
<1>5. w \in WorkRec /\ Kept(v.disk, v.used, w.disk, w.used, Files)
  <2> DEFINE start == x.start
  <2>1. start = v.disk[f].start /\ w = ReadSectors(v, start, offset, hi)
    BY <1>2, <1>4
  <2> HIDE DEF start, v, w
  <2> QED BY <1>2, <1>3, <1>4, <2>1, ReadKeeps
<1> HIDE DEF w, v
<1>6. Kept(disk, used, disk', used', Files) /\ up' \in BOOLEAN
  BY <1>1, <1>4, <1>5 DEF WorkRec
<1> QED BY <1>1, <1>6, KeptStep

\* An extension that fails: what was linked stays linked, the copy is left behind.
LEMMA ExtendFailsStep ==
  ASSUME IInv, NEW f \in Sector, open[f] # NotOpen, ~ open[f].locked,
         NEW length \in Nat, length > open[f].length, names' = names,
         NEW w, w = Extended(open[f], length), ExtendFails(f, open[f], w)
  PROVE  IInv'
<1> DEFINE x == open[f]
           y == [x EXCEPT !.end = w.end, !.locked = TRUE]
<1>1. x \in OpenRec /\ f \in Files
  BY OpenType
<1>2. /\ x.start = disk[f].start /\ x.end \in Blocks(disk, f) /\ x.end = disk[f].end
      /\ x.removed <=> f \notin names
  BY DEF IInv, CopyOK
<1>3. /\ open' = [open EXCEPT ![f] = y] /\ disk' = w.disk /\ used' = w.used /\ up' = up
      /\ lost' = (lost \/ used' # used)
  BY DEF ExtendFails
<1>4. Image(disk, used, Files) /\ open \in [Sector -> Inode]
  BY DEF IInv, TypeOK
<1>5. NewIndexBlocks(x.length, length) \in Nat
  <2>1. IndexBytes \in Nat \ {0} /\ x.length \in Nat /\ x.length <= length
    BY <1>1, FileSystemAssumption DEF IndexBytes, OpenRec
  <2>2. /\ x.length \div IndexBytes \in Nat /\ length \div IndexBytes \in Nat
        /\ x.length \div IndexBytes <= length \div IndexBytes
    BY <2>1, Division
  <2> QED BY <2>2 DEF NewIndexBlocks, IndexOf
<1>6. /\ w \in GrowRec /\ Extends(disk, used, w.disk, w.used, Files, f)
      /\ w.end \in Blocks(w.disk, f)
      /\ w.used = used => w.disk = disk /\ w.end = x.end
  <2>1. w = Extended(x, length)
    OBVIOUS
  <2> HIDE DEF x
  <2> QED BY <1>1, <1>2, <1>4, <1>5, <2>1, ExtendKeeps
<1>7. y \in OpenRec /\ y # NotOpen /\ y \in Inode
  <2>1. y \in OpenRec
    BY <1>1, <1>6 DEF OpenRec, GrowRec
  <2> HIDE DEF y
  <2> QED BY <2>1, OpenIs
<1>8. y.start = x.start /\ y.end = w.end /\ y.locked = TRUE /\ y.removed = x.removed
  BY <1>1 DEF OpenRec
<1> HIDE DEF x, y
<1>9. /\ open'[f] = y /\ \A g \in Sector \ {f} : open'[g] = open[g]
      /\ open' \in [Sector -> Inode]
  BY <1>3, <1>4, <1>7
<1>10. Files' = Files
  <2>1. \A g \in Sector : open'[g] # NotOpen <=> open[g] # NotOpen
    BY <1>7, <1>9
  <2> QED BY <2>1 DEF Files
<1>11. Image(disk', used', Files')
  BY <1>3, <1>6, <1>10 DEF Extends
<1>12. TypeOK'
  BY <1>3, <1>9, <1>10, <1>11 DEF IInv, TypeOK, Image
<1>13. \A g \in Sector : CopyOK(g)'
  <2> SUFFICES ASSUME NEW g \in Sector, open'[g] # NotOpen PROVE CopyOK(g)'
    BY DEF CopyOK
  <2>1. CASE g = f
    <3>1. disk'[f] = disk[f]
      BY <1>1, <1>3, <1>6 DEF Extends
    <3>2. y.end \in Blocks(disk', f)
      BY <1>3, <1>6, <1>8
    <3> QED BY <1>2, <1>8, <1>9, <2>1, <3>1, <3>2 DEF CopyOK
  <2>2. CASE g # f
    <3>1. open'[g] = open[g] /\ g \in Files /\ CopyOK(g)
      BY <1>9, <2>2, OpenType DEF IInv
    <3>2. disk'[g] = disk[g] /\ Blocks(disk', g) = Blocks(disk, g)
      BY <1>3, <1>6, <2>2, <3>1 DEF Extends
    <3> QED BY <3>1, <3>2 DEF CopyOK
  <2> QED BY <2>1, <2>2
<1>14. Exact'
  <2> SUFFICES ASSUME AllFit, ~ lost'
               PROVE  /\ used' = Owned(disk', Files)
                      /\ \A g \in Files : disk'[disk'[g].end].next = disk'[g].end
                      /\ \A g \in Sector : open'[g] # NotOpen => open'[g].end = disk'[g].end
    BY <1>10 DEF Exact
  <2>1. ~ lost /\ used' = used /\ disk' = disk /\ w.end = x.end
    BY <1>3, <1>6
  <2>2. /\ used = Owned(disk, Files)
        /\ \A g \in Files : disk[disk[g].end].next = disk[g].end
        /\ \A g \in Sector : open[g] # NotOpen => open[g].end = disk[g].end
    BY <2>1 DEF IInv, Exact
  <2> QED BY <1>2, <1>8, <1>9, <2>1, <2>2
<1> QED BY <1>11, <1>12, <1>13, <1>14 DEF IInv

\* What a write within the file does to a disk that is one already.
LEMMA WriteIs ==
  ASSUME NEW d, NEW u, NEW S, Image(d, u, S), NEW f \in S,
         NEW offset \in Nat, NEW size \in Nat, NEW byte \in Byte,
         NEW v, v = WriteSectors([disk |-> d, used |-> u, ok |-> TRUE],
                                 d[f].start, offset, offset + size, byte)
  PROVE  Kept(d, u, v.disk, v.used, S) /\ v.ok \in BOOLEAN
<1> DEFINE w == [disk |-> d, used |-> u, ok |-> TRUE]
           start == d[f].start
           hi == offset + size
<1>1. w \in WorkRec /\ w.disk = d /\ w.used = u
  BY DEF Image, WorkRec
<1>2. Image(w.disk, w.used, S) /\ start = w.disk[f].start /\ hi \in Nat
  BY <1>1
<1>3. v = WriteSectors(w, start, offset, hi, byte)
  OBVIOUS
<1> HIDE DEF w, start, hi
<1>4. v \in WorkRec /\ Kept(w.disk, w.used, v.disk, v.used, S)
  BY <1>1, <1>2, <1>3, WritesKeep
<1> QED BY <1>1, <1>4 DEF WorkRec

\* The write itself after the file has been extended.
LEMMA ExtendedStep ==
  ASSUME IInv, NEW f \in Sector, open[f] # NotOpen, ~ open[f].locked,
         NEW offset \in Nat, NEW size \in Nat, NEW byte \in Byte,
         offset + size > open[f].length, names' = names,
         NEW w, w = Extended(open[f], offset + size),
         NEW y, y = [open[f] EXCEPT !.end = w.end, !.length = offset + size],
         NEW z, z = [w EXCEPT !.disk[f] = InodeDisk(y.start, y.end, y.length)],
         Write(f, y, z, offset, size, byte)
  PROVE  IInv'
<1> DEFINE x == open[f]
           length == offset + size
           v == WriteSectors([disk |-> z.disk, used |-> z.used, ok |-> TRUE],
                             y.start, offset, offset + size, byte)
<1>1. x \in OpenRec /\ f \in Files /\ length \in Nat
  BY OpenType
<1>2. /\ x.start = disk[f].start /\ x.end \in Blocks(disk, f) /\ x.end = disk[f].end
      /\ x.removed <=> f \notin names
  BY DEF IInv, CopyOK
<1>3. /\ open' = [open EXCEPT ![f] = y] /\ disk' = v.disk /\ used' = v.used /\ up' = v.ok
      /\ lost' = lost
  BY DEF Write
<1>4. Image(disk, used, Files) /\ open \in [Sector -> Inode]
  BY DEF IInv, TypeOK
<1>5. NewIndexBlocks(x.length, length) \in Nat
  <2>1. IndexBytes \in Nat \ {0} /\ x.length \in Nat /\ x.length <= length
    BY <1>1, FileSystemAssumption DEF IndexBytes, OpenRec
  <2>2. /\ x.length \div IndexBytes \in Nat /\ length \div IndexBytes \in Nat
        /\ x.length \div IndexBytes <= length \div IndexBytes
    BY <1>1, <2>1, Division
  <2> QED BY <2>2 DEF NewIndexBlocks, IndexOf
<1>6. /\ w \in GrowRec /\ Extends(disk, used, w.disk, w.used, Files, f)
      /\ w.end \in Blocks(w.disk, f)
      /\ used = Owned(disk, Files) /\ disk[x.end].next = x.end =>
           w.used = Owned(w.disk, Files) /\ w.disk[w.end].next = w.end
  <2>1. w = Extended(x, length)
    OBVIOUS
  <2> HIDE DEF x, length
  <2> QED BY <1>1, <1>2, <1>4, <1>5, <2>1, ExtendKeeps
<1>7. y = [x EXCEPT !.end = w.end, !.length = length]
  OBVIOUS
<1>8. /\ y \in OpenRec /\ y # NotOpen /\ y \in Inode
      /\ y.start = x.start /\ y.end = w.end /\ y.length = length /\ y.removed = x.removed
  <2> HIDE DEF x, length
  <2>1. y \in OpenRec
    BY <1>1, <1>6, <1>7 DEF OpenRec, GrowRec
  <2>2. y.start = x.start /\ y.end = w.end /\ y.length = length /\ y.removed = x.removed
    BY <1>1, <1>7 DEF OpenRec
  <2> QED BY <2>1, <2>2, OpenIs
<1>9. /\ z.used = w.used /\ z.disk = [w.disk EXCEPT ![f] = InodeDisk(x.start, w.end, length)]
  <2> HIDE DEF x, length
  <2> QED BY <1>6, <1>8 DEF GrowRec
<1> HIDE DEF x, length
<1>10. Image(w.disk, w.used, Files) /\ w.disk[f] = disk[f] /\ w.disk[f].start = x.start
  BY <1>1, <1>2, <1>6 DEF Extends
<1>11. /\ z.disk \in [Sector -> Block] /\ z.disk[f] = InodeDisk(x.start, w.end, length)
       /\ \A s \in Sector \ {f} : z.disk[s] = w.disk[s]
  <2>1. InodeDisk(x.start, w.end, length) \in Block
    BY <1>1, <1>6 DEF InodeDisk, Block, OpenRec, GrowRec
  <2> QED BY <1>6, <1>9, <2>1 DEF GrowRec
<1>12. /\ Image(z.disk, w.used, Files)
       /\ \A g \in Files \ {f} : z.disk[g] = w.disk[g]
       /\ \A g \in Files : /\ Blocks(z.disk, g) = Blocks(w.disk, g)
                           /\ \A b \in Blocks(w.disk, g) : z.disk[b].next = w.disk[b].next
       /\ Owned(z.disk, Files) = Owned(w.disk, Files)
  <2> DEFINE d == w.disk
             e == z.disk
             end == w.end
             u == w.used
  <2>1. /\ Image(d, u, Files) /\ end \in Blocks(d, f) /\ e \in [Sector -> Block]
        /\ e[f] = InodeDisk(d[f].start, end, length) /\ \A s \in Sector \ {f} : e[s] = d[s]
    BY <1>6, <1>10, <1>11
  <2> HIDE DEF d, e, end, u
  <2>2. /\ Image(e, u, Files)
        /\ \A g \in Files \ {f} : e[g] = d[g]
        /\ \A g \in Files : /\ Blocks(e, g) = Blocks(d, g)
                            /\ \A b \in Blocks(d, g) : e[b].next = d[b].next
        /\ Owned(e, Files) = Owned(d, Files)
    BY <1>1, <2>1, Relabel
  <2> QED BY <2>2 DEF d, e, u
<1>13. Kept(z.disk, w.used, v.disk, v.used, Files) /\ v.ok \in BOOLEAN
  <2> DEFINE d == z.disk
             u == w.used
  <2>1. d[f].start = x.start
    BY <1>11 DEF InodeDisk
  <2>2. /\ Image(d, u, Files)
        /\ v = WriteSectors([disk |-> d, used |-> u, ok |-> TRUE], d[f].start, offset, offset + size, byte)
    BY <1>8, <1>9, <1>12, <2>1
  <2> HIDE DEF d, u, v
  <2>3. Kept(d, u, v.disk, v.used, Files) /\ v.ok \in BOOLEAN
    BY <1>1, <2>2, WriteIs
  <2> QED BY <2>3 DEF d, u
<1> HIDE DEF v
<1>14. /\ open'[f] = y /\ \A g \in Sector \ {f} : open'[g] = open[g]
       /\ open' \in [Sector -> Inode]
  BY <1>3, <1>4, <1>8
<1>15. Files' = Files
  <2>1. \A g \in Sector : open'[g] # NotOpen <=> open[g] # NotOpen
    BY <1>8, <1>14
  <2> QED BY <2>1 DEF Files
<1>16. Image(disk', used', Files')
  BY <1>3, <1>13, <1>15 DEF Kept
<1>17. TypeOK'
  BY <1>3, <1>13, <1>14, <1>15, <1>16 DEF IInv, TypeOK, Image
<1>18. /\ disk'[f].start = x.start /\ disk'[f].end = w.end /\ w.end \in Blocks(disk', f)
       /\ \A g \in Files \ {f} : disk'[g] = disk[g] /\ Blocks(disk', g) = Blocks(disk, g)
  <2>1. disk'[f].start = x.start /\ disk'[f].end = w.end
    BY <1>1, <1>3, <1>11, <1>13 DEF Kept, InodeDisk
  <2>2. w.end \in Blocks(disk', f)
    BY <1>1, <1>3, <1>6, <1>12, <1>13 DEF Kept
  <2>3. \A g \in Files \ {f} : w.disk[g] = disk[g] /\ Blocks(w.disk, g) = Blocks(disk, g)
    BY <1>6 DEF Extends
  <2>4. \A g \in Files \ {f} : disk'[g] = z.disk[g] /\ Blocks(disk', g) = Blocks(z.disk, g)
    BY <1>3, <1>13 DEF Kept
  <2> QED BY <1>12, <2>1, <2>2, <2>3, <2>4
<1>19. \A g \in Sector : CopyOK(g)'
  <2> SUFFICES ASSUME NEW g \in Sector, open'[g] # NotOpen PROVE CopyOK(g)'
    BY DEF CopyOK
  <2>1. CASE g = f
    BY <1>2, <1>8, <1>14, <1>18, <2>1 DEF CopyOK
  <2>2. CASE g # f
    <3>1. open'[g] = open[g] /\ g \in Files /\ CopyOK(g)
      BY <1>14, <2>2, OpenType DEF IInv
    <3> QED BY <1>18, <2>2, <3>1 DEF CopyOK
  <2> QED BY <2>1, <2>2
<1>20. Exact'
  <2> SUFFICES ASSUME AllFit, ~ lost
               PROVE  /\ used' = Owned(disk', Files)
                      /\ \A g \in Files : disk'[disk'[g].end].next = disk'[g].end
                      /\ \A g \in Sector : open'[g] # NotOpen => open'[g].end = disk'[g].end
    BY <1>3, <1>15 DEF Exact
  <2>1. /\ used = Owned(disk, Files)
        /\ \A g \in Files : disk[disk[g].end].next = disk[g].end
        /\ \A g \in Sector : open[g] # NotOpen => open[g].end = disk[g].end
    BY DEF IInv, Exact
  <2>2. w.used = Owned(w.disk, Files) /\ w.disk[w.end].next = w.end
    BY <1>1, <1>2, <1>6, <2>1
  <2>3. used' = Owned(disk', Files)
    BY <1>3, <1>12, <1>13, <2>2 DEF Kept
  <2>4. disk'[w.end].next = w.end
    <3>1. z.disk[w.end].next = w.end /\ w.end \in Blocks(z.disk, f)
      BY <1>1, <1>6, <1>12, <2>2
    <3> QED BY <1>1, <1>3, <1>13, <3>1 DEF Kept
  <2>5. \A g \in Files \ {f} : disk'[disk'[g].end].next = disk'[g].end
    <3> TAKE g \in Files \ {f}
    <3> DEFINE b == disk[g].end
    <3>1. b \in Blocks(disk, g) /\ disk[b].next = b /\ disk'[g].end = b
      BY <1>4, <1>18, <2>1 DEF Image, FileOK
    <3> HIDE DEF b
    <3>2. w.disk[b].next = b /\ b \in Blocks(w.disk, g)
      BY <1>6, <3>1 DEF Extends
    <3>3. z.disk[b].next = b /\ b \in Blocks(z.disk, g)
      BY <1>12, <3>2
    <3>4. disk'[b].next = b
      BY <1>3, <1>13, <3>3 DEF Kept
    <3> QED BY <3>1, <3>4
  <2>6. \A g \in Sector : open'[g] # NotOpen => open'[g].end = disk'[g].end
    <3> SUFFICES ASSUME NEW g \in Sector, open'[g] # NotOpen PROVE open'[g].end = disk'[g].end
      OBVIOUS
    <3>1. CASE g = f
      BY <1>8, <1>14, <1>18, <3>1
    <3>2. CASE g # f
      <4>1. open'[g] = open[g] /\ g \in Files
        BY <1>14, <3>2, OpenType
      <4> QED BY <1>18, <2>1, <3>2, <4>1
    <3> QED BY <3>1, <3>2
  <2> QED BY <1>18, <2>3, <2>4, <2>5, <2>6
<1> QED BY <1>16, <1>17, <1>19, <1>20 DEF IInv

\* A write, within the file or past its end.
LEMMA InodeWriteAtStep ==
  ASSUME IInv, NEW f \in Sector, NEW offset \in Offsets, NEW size \in Sizes, NEW byte \in Byte,
         InodeWriteAt(f, offset, size, byte)
  PROVE  IInv'
<1> DEFINE x == open[f]
           new == offset + size
           w == Extended(x, new)
           y == [x EXCEPT !.end = w.end, !.length = new]
           z == [w EXCEPT !.disk[f] = InodeDisk(y.start, y.end, y.length)]
<1>1. /\ x # NotOpen /\ ~ x.locked /\ names' = names
      /\ \/ new <= x.length /\ Write(f, x, Work, offset, size, byte)
         \/ new > x.length /\ ExtendFails(f, x, w)
         \/ new > x.length /\ w.ok /\ Write(f, y, z, offset, size, byte)
  BY DEF InodeWriteAt
<1>2. offset \in Nat /\ size \in Nat /\ new \in Nat
  BY FileSystemAssumption
<1>3. CASE Write(f, x, Work, offset, size, byte)
  <2> DEFINE v == WriteSectors([disk |-> Work.disk, used |-> Work.used, ok |-> TRUE],
                               x.start, offset, offset + size, byte)
  <2>1. /\ open' = [open EXCEPT ![f] = x] /\ disk' = v.disk /\ used' = v.used /\ up' = v.ok
        /\ lost' = lost
    BY <1>3 DEF Write
  <2>2. open' = open
    BY <2>1 DEF IInv, TypeOK
  <2>3. f \in Files /\ x.start = disk[f].start /\ Image(disk, used, Files)
    BY <1>1, OpenType DEF IInv, CopyOK
  <2>4. v = WriteSectors([disk |-> disk, used |-> used, ok |-> TRUE],
                         disk[f].start, offset, offset + size, byte)
    BY <2>3, WorkIs
  <2> HIDE DEF v
  <2>5. Kept(disk, used, v.disk, v.used, Files) /\ v.ok \in BOOLEAN
    BY <1>2, <2>3, <2>4, WriteIs
  <2> QED BY <1>1, <2>1, <2>2, <2>5, KeptStep
<1>4. CASE new > x.length /\ ExtendFails(f, x, w)
  BY <1>1, <1>2, <1>4, ExtendFailsStep
<1>5. CASE new > x.length /\ Write(f, y, z, offset, size, byte)
  BY <1>1, <1>2, <1>5, ExtendedStep
<1> QED BY <1>1, <1>3, <1>4, <1>5

\* filesys_create: one more file, or none and perhaps sectors that no file has.
LEMMA FilesysCreateStep ==
  ASSUME IInv, NEW length \in CreateLengths, NEW added \in BOOLEAN,
         FilesysCreate(length, added)
  PROVE  IInv'
<1> DEFINE f == FirstFree(used)
           w == InodeCreate([Work EXCEPT !.used = @ \cup {f}], f, length)
           success == w.ok /\ added
           exact == AllFit /\ ~ lost
<1>1. /\ used # Sector /\ disk' = w.disk
      /\ used' = IF success THEN w.used ELSE w.used \ {f}
      /\ names' = IF success THEN names \cup {f} ELSE names
      /\ lost' = (lost \/ (~ success /\ used' # used))
      /\ open' = open /\ up' = up
  BY DEF FilesysCreate
<1>2. /\ Image(disk, used, Files) /\ \A g \in Sector : CopyOK(g)
      /\ used \in SUBSET Sector /\ names \subseteq Sector /\ lost \in BOOLEAN /\ up \in BOOLEAN
      /\ open \in [Sector -> Inode]
  BY DEF IInv, TypeOK
<1>3. length \in Nat /\ exact \in BOOLEAN /\ (exact => Fits(length) /\ used = Owned(disk, Files))
  BY FileSystemAssumption DEF IInv, Exact, AllFit
<1>4. /\ f \in Sector \ used /\ w.ok \in BOOLEAN
      /\ w.disk \in [Sector -> Block] /\ w.used \in SUBSET Sector
      /\ used \cup {f} \subseteq w.used /\ \A s \in used : w.disk[s] = disk[s]
      /\ w.ok => /\ Image(w.disk, w.used, Files \cup {f})
                 /\ exact => /\ w.used = Owned(w.disk, Files \cup {f})
                             /\ w.disk[w.disk[f].end].next = w.disk[f].end
  <2>1. f = FirstFree(used) /\ w = InodeCreate(Taken(f), f, length)
    BY DEF Taken
  <2>2. Image(disk, used, Files) /\ used # Sector
    BY <1>1, <1>2
  <2> HIDE DEF f, w, exact
  <2> QED BY <1>3, <2>1, <2>2, CreateKeeps
<1> HIDE DEF f, w
<1>5. f \notin Files /\ f \notin names
  <2>1. \A g \in Files : g \in used
    <3> TAKE g \in Files
    <3>1. Sects(disk, g) \subseteq used
      BY <1>2 DEF Image
    <3> QED BY <3>1 DEF Sects, SectorsOf
  <2> QED BY <1>4, <2>1 DEF Files
<1>6. Files' = IF success THEN Files \cup {f} ELSE Files
  <2>1. Files' = names' \cup {g \in Sector : open[g] # NotOpen}
    BY <1>1 DEF Files
  <2> QED BY <1>1, <2>1 DEF Files
<1>7. used' \in SUBSET Sector /\ used \subseteq used'
  BY <1>1, <1>4
<1>8. /\ Image(disk', used', Files) /\ Kept(disk, used, disk', used, Files)
      /\ Owned(disk', Files) = Owned(disk, Files)
  <2>1. disk' \in [Sector -> Block] /\ \A s \in used : disk'[s] = disk[s]
    BY <1>1, <1>4
  <2> QED BY <1>2, <1>7, <2>1, UsedSame
<1>9. Image(disk', used', Files')
  BY <1>1, <1>4, <1>6, <1>8
<1>10. TypeOK'
  BY <1>1, <1>2, <1>4, <1>7 DEF TypeOK
<1>11. \A g \in Sector : open[g] # NotOpen =>
          g \in Files /\ disk'[g] = disk[g] /\ Blocks(disk', g) = Blocks(disk, g)
  BY <1>8, OpenType DEF Kept
<1>12. \A g \in Sector : CopyOK(g)'
  <2> SUFFICES ASSUME NEW g \in Sector, open'[g] # NotOpen PROVE CopyOK(g)'
    BY DEF CopyOK
  <2>1. open[g] # NotOpen /\ CopyOK(g) /\ g # f
    BY <1>1, <1>2, <1>5, <1>11
  <2>2. g \in names' <=> g \in names
    BY <1>1, <2>1
  <2> QED BY <1>1, <1>11, <2>1, <2>2 DEF CopyOK
<1>13. Exact'
  <2> SUFFICES ASSUME AllFit, ~ lost'
               PROVE  /\ used' = Owned(disk', Files')
                      /\ \A g \in Files' : disk'[disk'[g].end].next = disk'[g].end
                      /\ \A g \in Sector : open'[g] # NotOpen => open'[g].end = disk'[g].end
    BY DEF Exact
  <2>1. /\ exact /\ used = Owned(disk, Files)
        /\ \A g \in Files : disk[disk[g].end].next = disk[g].end
        /\ \A g \in Sector : open[g] # NotOpen => open[g].end = disk[g].end
    BY <1>1 DEF IInv, Exact
  <2>2. \A g \in Files : disk'[disk'[g].end].next = disk'[g].end
    BY <1>8, <2>1, KeptExact
  <2>3. used' = Owned(disk', Files')
    <3>1. CASE success
      BY <1>1, <1>4, <1>6, <2>1, <3>1
    <3>2. CASE ~ success
      BY <1>1, <1>6, <1>8, <2>1, <3>2
    <3> QED BY <3>1, <3>2
  <2>4. \A g \in Files' : disk'[disk'[g].end].next = disk'[g].end
    <3>1. CASE success
      BY <1>1, <1>4, <1>6, <2>1, <2>2, <3>1
    <3>2. CASE ~ success
      BY <1>6, <2>2, <3>2
    <3> QED BY <3>1, <3>2
  <2>5. \A g \in Sector : open'[g] # NotOpen => open'[g].end = disk'[g].end
    BY <1>1, <1>11, <2>1
  <2> QED BY <2>3, <2>4, <2>5
<1> QED BY <1>9, <1>10, <1>12, <1>13 DEF IInv

\* A step that keeps all files, changes the openers or the mark of one open
\* inode f, and may take it out of its directory.
LEMMA OpenStep ==
  ASSUME IInv, NEW f \in Files, NEW y \in OpenRec,
         y.start = disk[f].start, y.end \in Blocks(disk, f),
         y.removed <=> f \notin names',
         y.end = disk[f].end \/ (y.locked /\ open[f] # NotOpen /\ y.end = open[f].end),
         open' = [open EXCEPT ![f] = y],
         names' \subseteq names, names \subseteq names' \cup {f},
         Kept(disk, used, disk', used', Files), lost' = lost, up' \in BOOLEAN
  PROVE  IInv'
<1>1. f \in Sector /\ y # NotOpen /\ y \in Inode /\ open \in [Sector -> Inode]
  BY OpenIs DEF IInv, Image, TypeOK
<1>2. /\ open'[f] = y /\ \A g \in Sector \ {f} : open'[g] = open[g]
      /\ open' \in [Sector -> Inode]
  BY <1>1
<1>3. Files' = Files
  <2>1. Files' = names' \cup {g \in Sector : open'[g] # NotOpen}
    BY DEF Files
  <2> QED BY <1>1, <1>2, <2>1 DEF Files
<1>4. Image(disk', used', Files')
  BY <1>3 DEF Kept
<1>5. TypeOK'
  BY <1>2, <1>4 DEF IInv, TypeOK, Image
<1>6. \A g \in Files : disk'[g] = disk[g] /\ Blocks(disk', g) = Blocks(disk, g)
  BY DEF Kept
<1>7. \A g \in Sector : CopyOK(g)'
  <2> SUFFICES ASSUME NEW g \in Sector, open'[g] # NotOpen PROVE CopyOK(g)'
    BY DEF CopyOK
  <2>1. CASE g = f
    BY <1>2, <1>6, <2>1 DEF CopyOK
  <2>2. CASE g # f
    <3>1. open'[g] = open[g] /\ CopyOK(g) /\ (g \in names' <=> g \in names) /\ g \in Files
      BY <1>2, <2>2, OpenType DEF IInv
    <3> QED BY <1>6, <3>1 DEF CopyOK
  <2> QED BY <2>1, <2>2
<1>8. Exact'
  <2> SUFFICES ASSUME AllFit, ~ lost
               PROVE  /\ used' = Owned(disk', Files)
                      /\ \A g \in Files : disk'[disk'[g].end].next = disk'[g].end
                      /\ \A g \in Sector : open'[g] # NotOpen => open'[g].end = disk'[g].end
    BY <1>3 DEF Exact
  <2>1. /\ used' = Owned(disk', Files)
        /\ \A g \in Files : disk'[disk'[g].end].next = disk'[g].end
        /\ \A g \in Sector : open[g] # NotOpen => open[g].end = disk'[g].end
    BY KeptExact
  <2> QED BY <1>1, <1>2, <1>6, <2>1
<1> QED BY <1>4, <1>5, <1>7, <1>8 DEF IInv

\* The last opener of a removed file takes all its sectors with it.
LEMMA GoneStep ==
  ASSUME IInv, NEW f \in Files, f \notin names',
         open' = [open EXCEPT ![f] = NotOpen],
         names' \subseteq names, names \subseteq names' \cup {f},
         NEW u, Kept(disk, used, disk', u, Files), used' = u \ Sects(disk', f),
         lost' = lost, up' \in BOOLEAN
  PROVE  IInv'
<1>1. /\ f \in Sector /\ NotOpen \in Inode /\ open \in [Sector -> Inode]
      /\ Image(disk', u, Files)
  BY OpenType DEF IInv, Image, TypeOK, Kept
<1>2. /\ open'[f] = NotOpen /\ \A g \in Sector \ {f} : open'[g] = open[g]
      /\ open' \in [Sector -> Inode]
  BY <1>1
<1>3. Files' = Files \ {f}
  <2>1. Files' = names' \cup {g \in Sector : open'[g] # NotOpen}
    BY DEF Files
  <2> QED BY <1>1, <1>2, <2>1 DEF Files
<1>4. Image(disk', used', Files') /\ (u = Owned(disk', Files) => used' = Owned(disk', Files'))
  BY <1>1, <1>3, Release
<1>5. TypeOK'
  BY <1>2, <1>4 DEF IInv, TypeOK, Image
<1>6. \A g \in Files : disk'[g] = disk[g] /\ Blocks(disk', g) = Blocks(disk, g)
  BY DEF Kept
<1>7. \A g \in Sector : CopyOK(g)'
  <2> SUFFICES ASSUME NEW g \in Sector, open'[g] # NotOpen PROVE CopyOK(g)'
    BY DEF CopyOK
  <2>1. /\ g # f /\ open'[g] = open[g] /\ CopyOK(g) /\ (g \in names' <=> g \in names)
        /\ g \in Files
    BY <1>2, OpenType DEF IInv
  <2> QED BY <1>6, <2>1 DEF CopyOK
<1>8. Exact'
  <2> SUFFICES ASSUME AllFit, ~ lost
               PROVE  /\ used' = Owned(disk', Files')
                      /\ \A g \in Files' : disk'[disk'[g].end].next = disk'[g].end
                      /\ \A g \in Sector : open'[g] # NotOpen => open'[g].end = disk'[g].end
    BY DEF Exact
  <2>1. /\ u = Owned(disk', Files)
        /\ \A g \in Files : disk'[disk'[g].end].next = disk'[g].end
        /\ \A g \in Sector : open[g] # NotOpen => open[g].end = disk'[g].end
    BY KeptExact
  <2> QED BY <1>2, <1>3, <1>4, <2>1
<1> QED BY <1>4, <1>5, <1>7, <1>8 DEF IInv

\* A file that a directory names stays when it is closed.
LEMMA ClosedStep ==
  ASSUME IInv, NEW f \in names, open' = [open EXCEPT ![f] = NotOpen],
         UNCHANGED <<disk, used, names, lost>>, up' \in BOOLEAN
  PROVE  IInv'
<1>1. f \in Sector /\ NotOpen \in Inode /\ open \in [Sector -> Inode]
  BY OpenType DEF IInv, TypeOK
<1>2. /\ open'[f] = NotOpen /\ \A g \in Sector \ {f} : open'[g] = open[g]
      /\ open' \in [Sector -> Inode]
  BY <1>1
<1>3. Files' = Files
  <2>1. Files' = names \cup {g \in Sector : open'[g] # NotOpen}
    BY DEF Files
  <2> QED BY <1>1, <1>2, <2>1 DEF Files
<1>4. TypeOK'
  BY <1>2 DEF IInv, TypeOK
<1>5. Image(disk', used', Files')
  BY <1>3 DEF IInv
<1>6. \A g \in Sector : CopyOK(g)'
  <2> SUFFICES ASSUME NEW g \in Sector, open'[g] # NotOpen PROVE CopyOK(g)'
    BY DEF CopyOK
  <2>1. g # f /\ open'[g] = open[g] /\ CopyOK(g)
    BY <1>2 DEF IInv
  <2> QED BY <2>1 DEF CopyOK
<1>7. Exact'
  <2> SUFFICES ASSUME AllFit, ~ lost
               PROVE  /\ used = Owned(disk, Files)
                      /\ \A g \in Files : disk[disk[g].end].next = disk[g].end
                      /\ \A g \in Sector : open'[g] # NotOpen => open'[g].end = disk[g].end
    BY <1>3 DEF Exact
  <2>1. /\ used = Owned(disk, Files)
        /\ \A g \in Files : disk[disk[g].end].next = disk[g].end
        /\ \A g \in Sector : open[g] # NotOpen => open[g].end = disk[g].end
    BY DEF IInv, Exact
  <2> QED BY <1>2, <2>1
<1> QED BY <1>4, <1>5, <1>6, <1>7 DEF IInv

\* inode_open: a copy that agrees with the disk.
LEMMA InodeOpenStep ==
  ASSUME IInv, NEW f \in Sector, InodeOpen(f)
  PROVE  IInv'
<1> DEFINE x == open[f]
           y == IF x = NotOpen THEN Opened(f) ELSE Reopened(f)
<1>1. /\ f \in names /\ x.count < MaxOpen /\ open' = [open EXCEPT ![f] = y]
      /\ UNCHANGED <<disk, used, names, up, lost>>
  BY DEF InodeOpen
<1>2. f \in Files /\ FileOK(disk, f) /\ Image(disk, used, Files) /\ up \in BOOLEAN
  BY <1>1 DEF Files, IInv, Image, TypeOK
<1>3. disk[f] \in InodeRec /\ disk[f].end \in Blocks(disk, f) /\ MaxOpen \in Nat
  BY <1>2, FileSystemAssumption DEF FileOK
<1>4. /\ y \in OpenRec /\ y.start = disk[f].start /\ y.end \in Blocks(disk, f)
      /\ y.removed = FALSE
      /\ y.end = disk[f].end \/ (y.locked /\ x # NotOpen /\ y.end = x.end)
  <2>1. CASE x = NotOpen
    <3>1. x.count = 0 /\ y = Opened(f)
      BY <2>1 DEF NotOpen
    <3> HIDE DEF x, y
    <3> QED BY <1>1, <1>3, <3>1 DEF Opened, OpenRec, InodeRec
  <2>2. CASE x # NotOpen
    <3>1. /\ x \in OpenRec /\ x.start = disk[f].start /\ x.end \in Blocks(disk, f)
          /\ x.removed = FALSE /\ (~ x.locked => x.end = disk[f].end)
      <4>1. x \in OpenRec
        BY <2>2, OpenType
      <4>2. CopyOK(f)
        BY DEF IInv
      <4>3. x.removed \in BOOLEAN
        BY <4>1 DEF OpenRec
      <4> QED BY <1>1, <2>2, <4>1, <4>2, <4>3 DEF CopyOK
    <3>2. y = [x EXCEPT !.count = @ + 1]
      BY <2>2 DEF Reopened
    <3> HIDE DEF x, y
    <3>3. /\ y \in OpenRec /\ y.start = x.start /\ y.end = x.end /\ y.removed = x.removed
          /\ y.locked = x.locked
      BY <1>1, <1>3, <3>1, <3>2 DEF OpenRec
    <3> QED BY <2>2, <3>1, <3>3
  <2> QED BY <2>1, <2>2
<1>5. Kept(disk, used, disk', used', Files)
  BY <1>1, <1>2, KeptSame
<1>6. y.removed <=> f \notin names'
  <2> HIDE DEF y
  <2> QED BY <1>1, <1>4
<1>7. names' \subseteq names /\ names \subseteq names' \cup {f} /\ lost' = lost /\ up' \in BOOLEAN
  BY <1>1, <1>2
<1> HIDE DEF y
<1> QED BY <1>1, <1>2, <1>4, <1>5, <1>6, <1>7, OpenStep

\* inode_close, the last one of a removed file giving back its sectors.
LEMMA CloseStep ==
  ASSUME IInv, NEW f \in Sector, Close(f)
  PROVE  IInv'
<1> DEFINE x == open[f]
           y == [x EXCEPT !.count = @ - 1]
           freed == IF y.count = 0 /\ y.removed THEN SectorsOf(Work.disk, f, y.start) ELSE {}
<1>1. /\ x # NotOpen /\ UNCHANGED <<disk, names, lost>>
      /\ open' = [open EXCEPT ![f] = IF y.count = 0 THEN NotOpen ELSE y]
      /\ used' = Work.used \ freed /\ up' = (freed \subseteq Work.used)
  BY DEF Close, InodeClose
<1>2. up' \in BOOLEAN
  BY <1>1
<1>3. /\ x \in OpenRec /\ f \in Files /\ CopyOK(f) /\ Image(disk, used, Files)
      /\ used \in SUBSET Sector /\ Work.disk = disk /\ Work.used = used
  BY <1>1, OpenType, WorkIs DEF IInv, TypeOK
<1>4. /\ y.count = x.count - 1 /\ y.start = disk[f].start /\ y.end = x.end
      /\ y.locked = x.locked /\ y.removed = x.removed /\ x.removed \in BOOLEAN
      /\ x.end \in Blocks(disk, f) /\ (x.removed <=> f \notin names)
      /\ (~ x.locked => x.end = disk[f].end)
      /\ (y.count # 0 => y \in OpenRec)
  <2>1. /\ x.start = disk[f].start /\ x.end \in Blocks(disk, f)
        /\ (x.removed <=> f \notin names) /\ (~ x.locked => x.end = disk[f].end)
    BY <1>1, <1>3 DEF CopyOK
  <2> HIDE DEF x
  <2>2. /\ y.count = x.count - 1 /\ y.start = x.start /\ y.end = x.end
        /\ y.locked = x.locked /\ y.removed = x.removed
    BY <1>3 DEF OpenRec
  <2>3. y.count # 0 => y \in OpenRec
    BY <1>3, FileSystemAssumption DEF OpenRec
  <2>4. x.removed \in BOOLEAN
    BY <1>3 DEF OpenRec
  <2> QED BY <2>1, <2>2, <2>3, <2>4
<1>5. freed = IF y.count = 0 /\ x.removed THEN Sects(disk, f) ELSE {}
  BY <1>3, <1>4 DEF Sects
<1> HIDE DEF y, freed
<1>6. Kept(disk, used, disk', used, Files)
  BY <1>1, <1>3, KeptSame
<1>7. names' \subseteq names /\ names \subseteq names' \cup {f}
  BY <1>1
<1>8. CASE y.count # 0
  <2>1. open' = [open EXCEPT ![f] = y] /\ used' = used /\ lost' = lost
    BY <1>1, <1>3, <1>5, <1>8
  <2>2. y.removed <=> f \notin names'
    BY <1>1, <1>4
  <2>3. y \in OpenRec /\ y.start = disk[f].start /\ y.end \in Blocks(disk, f)
    BY <1>4, <1>8
  <2>4. y.end = disk[f].end \/ (y.locked /\ open[f] # NotOpen /\ y.end = open[f].end)
    BY <1>1, <1>4
  <2>5. Kept(disk, used, disk', used', Files)
    BY <1>6, <2>1
  <2> QED BY <1>2, <1>3, <1>7, <2>1, <2>2, <2>3, <2>4, <2>5, OpenStep
<1>9. CASE y.count = 0 /\ x.removed
  <2>1. open' = [open EXCEPT ![f] = NotOpen] /\ f \notin names' /\ lost' = lost
    BY <1>1, <1>4, <1>9
  <2>2. used' = used \ Sects(disk', f)
    BY <1>1, <1>3, <1>5, <1>9
  <2> QED BY <1>2, <1>3, <1>6, <1>7, <2>1, <2>2, GoneStep
<1>10. CASE y.count = 0 /\ ~ x.removed
  <2>1. open' = [open EXCEPT ![f] = NotOpen] /\ f \in names /\ used' = used
    BY <1>1, <1>3, <1>4, <1>5, <1>10
  <2>2. UNCHANGED <<disk, used, names, lost>>
    BY <1>1, <2>1
  <2> QED BY <1>2, <2>1, <2>2, ClosedStep
<1> QED BY <1>8, <1>9, <1>10

\* dir_remove reads the file; the name goes, the sectors with the last close.
LEMMA DirRemoveStep ==
  ASSUME IInv, NEW f \in Sector, NEW entries, DirRemove(f, entries)
  PROVE  IInv'
<1> DEFINE x == IF open[f] = NotOpen THEN [Opened(f) EXCEPT !.count = 0] ELSE open[f]
           w == ReadSectors(Work, x.start, 0, x.length)
           y == [x EXCEPT !.removed = TRUE]
           freed == IF y.count = 0 /\ y.removed THEN SectorsOf(w.disk, f, y.start) ELSE {}
<1>1. /\ f \in names /\ ~ Locked(f) /\ disk' = w.disk /\ lost' = lost
      /\ \/ ~ w.ok /\ up' = FALSE /\ used' = w.used /\ UNCHANGED <<names, open>>
         \/ used' = w.used /\ UNCHANGED <<names, open, up>>
         \/ /\ w.ok /\ names' = names \ {f}
            /\ open' = [open EXCEPT ![f] = IF y.count = 0 THEN NotOpen ELSE y]
            /\ used' = w.used \ freed /\ up' = (freed \subseteq w.used)
  <2>1. /\ f \in names /\ ~ Locked(f) /\ disk' = w.disk /\ lost' = lost
        /\ \/ ~ w.ok /\ up' = FALSE /\ used' = w.used /\ UNCHANGED <<names, open>>
           \/ used' = w.used /\ UNCHANGED <<names, open, up>>
           \/ w.ok /\ names' = names \ {f} /\ InodeClose(f, y, w)
    BY DEF DirRemove
  <2> HIDE DEF w, y
  <2> QED BY <2>1 DEF InodeClose
<1>2. f \in Files /\ FileOK(disk, f) /\ Image(disk, used, Files) /\ up \in BOOLEAN
  BY <1>1 DEF Files, IInv, Image, TypeOK
<1>3. disk[f] \in InodeRec
  BY <1>2 DEF FileOK
<1>4. /\ x.start = disk[f].start /\ x.length \in Nat /\ y.start = x.start /\ y.removed = TRUE
      /\ y.count # 0 => /\ open[f] # NotOpen /\ y \in OpenRec /\ y.end \in Blocks(disk, f)
                        /\ y.end = disk[f].end
  <2>1. CASE open[f] = NotOpen
    <3>1. x = [Opened(f) EXCEPT !.count = 0]
      BY <2>1
    <3> HIDE DEF x
    <3>2. x.start = disk[f].start /\ x.length \in Nat /\ x.count = 0
      BY <1>3, <3>1 DEF Opened, InodeRec
    <3>3. y.start = x.start /\ y.removed = TRUE /\ y.count = 0
      BY <3>1, <3>2 DEF Opened
    <3> QED BY <3>2, <3>3
  <2>2. CASE open[f] # NotOpen
    <3>1. x = open[f]
      BY <2>2
    <3>2. CopyOK(f) /\ x \in OpenRec /\ ~ x.locked
      BY <1>1, <2>2, <3>1, OpenType DEF IInv, Locked
    <3>3. x.start = disk[f].start /\ x.end = disk[f].end /\ x.end \in Blocks(disk, f)
      BY <2>2, <3>1, <3>2 DEF CopyOK
    <3> HIDE DEF x
    <3>4. /\ x.length \in Nat /\ y.start = x.start /\ y.removed = TRUE /\ y.end = x.end
          /\ y \in OpenRec
      BY <3>2 DEF OpenRec
    <3> QED BY <2>2, <3>3, <3>4
  <2> QED BY <2>1, <2>2
<1> HIDE DEF x
<1>5. w \in WorkRec /\ Kept(disk, used, w.disk, w.used, Files)
  <2> DEFINE v == Work
             start == x.start
             hi == x.length
  <2>1. v \in WorkRec /\ v.disk = disk /\ v.used = used /\ Image(v.disk, v.used, Files)
    BY <1>2, WorkIs
  <2>2. start = v.disk[f].start /\ w = ReadSectors(v, start, 0, hi) /\ hi \in Nat /\ 0 \in Nat
    BY <1>4, <2>1
  <2> HIDE DEF v, start, hi, w
  <2>3. w \in WorkRec /\ Kept(v.disk, v.used, w.disk, w.used, Files)
    BY <1>2, <2>1, <2>2, ReadKeeps
  <2> QED BY <2>1, <2>3
<1> HIDE DEF w
<1>6. Kept(disk, used, disk', w.used, Files) /\ w.disk[f] = disk[f] /\ w.used \in SUBSET Sector
  BY <1>1, <1>2, <1>5 DEF Kept, WorkRec
<1>7. CASE used' = w.used /\ UNCHANGED <<names, open>> /\ up' \in BOOLEAN
  BY <1>1, <1>6, <1>7, KeptStep
<1>8. CASE /\ w.ok /\ names' = names \ {f}
           /\ open' = [open EXCEPT ![f] = IF y.count = 0 THEN NotOpen ELSE y]
           /\ used' = w.used \ freed /\ up' = (freed \subseteq w.used)
  <2>1. /\ up' \in BOOLEAN /\ names' \subseteq names /\ names \subseteq names' \cup {f}
        /\ f \notin names' /\ lost' = lost
    BY <1>1, <1>8
  <2>2. freed = IF y.count = 0 THEN Sects(disk', f) ELSE {}
    <3>1. y.start = w.disk[f].start /\ y.removed /\ disk' = w.disk
      BY <1>1, <1>4, <1>6
    <3> HIDE DEF y
    <3> QED BY <3>1 DEF Sects
  <2> HIDE DEF y, freed
  <2>3. CASE y.count = 0
    <3>1. open' = [open EXCEPT ![f] = NotOpen] /\ used' = w.used \ Sects(disk', f)
      BY <1>8, <2>2, <2>3
    <3> QED BY <1>2, <1>6, <2>1, <3>1, GoneStep
  <2>4. CASE y.count # 0
    <3>1. open' = [open EXCEPT ![f] = y] /\ used' = w.used
      BY <1>6, <1>8, <2>2, <2>4
    <3>2. /\ y \in OpenRec /\ y.start = disk[f].start /\ y.end \in Blocks(disk, f)
          /\ (y.removed <=> f \notin names') /\ y.end = disk[f].end
      BY <1>4, <2>1, <2>4
    <3>3. Kept(disk, used, disk', used', Files)
      BY <1>6, <3>1
    <3> QED BY <1>2, <2>1, <3>1, <3>2, <3>3, OpenStep
  <2> QED BY <2>3, <2>4
<1> HIDE DEF y, freed
<1> QED BY <1>1, <1>2, <1>7, <1>8

\* The machine stops: the disk stays, the open inodes go.
LEMMA RebootStep ==
  ASSUME IInv, Reboot
  PROVE  IInv'
<1>1. /\ open' = [s \in Sector |-> NotOpen] /\ up' = TRUE
      /\ lost' = (lost \/ \E f \in Sector : open[f] # NotOpen /\ f \notin names)
      /\ UNCHANGED <<disk, used, names>>
  BY DEF Reboot
<1>2. Image(disk, used, Files) /\ names \subseteq Files /\ lost \in BOOLEAN /\ NotOpen \in Inode
  BY DEF IInv, TypeOK, Files, Inode
<1>3. Files' = names
  BY <1>1 DEF Files
<1>4. Image(disk', used', Files')
  BY <1>1, <1>2, <1>3, Fewer
<1>5. TypeOK'
  BY <1>1, <1>2 DEF IInv, TypeOK
<1>6. \A g \in Sector : CopyOK(g)'
  BY <1>1 DEF CopyOK
<1>7. Exact'
  <2> SUFFICES ASSUME AllFit, ~ lost' PROVE Exact'
    BY DEF Exact
  <2>1. ~ lost /\ Files = names
    BY <1>1 DEF Files
  <2>2. used = Owned(disk, Files) /\ \A g \in Files : disk[disk[g].end].next = disk[g].end
    BY <2>1 DEF IInv, Exact
  <2> QED BY <1>1, <1>3, <2>1, <2>2 DEF Exact
<1> QED BY <1>4, <1>5, <1>6, <1>7 DEF IInv

\* The invariant is about the variables only.
LEMMA StutterStep ==
  ASSUME IInv, UNCHANGED vars
  PROVE  IInv'
<1>1. UNCHANGED <<disk, used, names, open, lost>> /\ up' \in BOOLEAN
  BY DEF vars, IInv, TypeOK
<1>2. Kept(disk, used, disk', used', Files)
  BY <1>1, KeptSame DEF IInv
<1> QED BY <1>1, <1>2, KeptStep

\* Each step keeps the invariant.
LEMMA Step ==
  ASSUME IInv, [Next]_vars
  PROVE  IInv'
<1>1. ASSUME NEW length \in CreateLengths, NEW added \in BOOLEAN, FilesysCreate(length, added)
      PROVE  IInv'
  BY <1>1, FilesysCreateStep
<1>2. ASSUME NEW f \in Sector, InodeOpen(f) PROVE IInv'
  BY <1>2, InodeOpenStep
<1>3. ASSUME NEW f \in Sector, Close(f) PROVE IInv'
  BY <1>3, CloseStep
<1>4. ASSUME NEW f \in Sector, NEW entries \in {0, 3}, DirRemove(f, entries) PROVE IInv'
  BY <1>4, DirRemoveStep
<1>5. ASSUME NEW f \in Sector, NEW offset \in Offsets, NEW size \in Sizes,
             InodeReadAt(f, offset, size)
      PROVE  IInv'
  BY <1>5, InodeReadAtStep
<1>6. ASSUME NEW f \in Sector, NEW offset \in Offsets, NEW size \in Sizes, NEW byte \in Byte,
             InodeWriteAt(f, offset, size, byte)
      PROVE  IInv'
  BY <1>6, InodeWriteAtStep
<1>7. ASSUME Reboot PROVE IInv'
  BY <1>7, RebootStep
<1>8. ASSUME UNCHANGED vars PROVE IInv'
  BY <1>8, StutterStep
<1> QED BY <1>1, <1>2, <1>3, <1>4, <1>5, <1>6, <1>7, <1>8 DEF Next

----------------------------------------------------------------------------
(* What is proved *)

\* The invariant holds always.
LEMMA Always == Spec => []IInv
<1>1. Init => IInv
  BY Initial
<1>2. IInv /\ [Next]_vars => IInv'
  BY Step
<1> QED BY <1>1, <1>2, PTL DEF Spec

\* Every block that is read as an inode, an index block or data is one, or at
\* least of that shape, and the tables hold what they are declared to.
THEOREM TypeCorrect == Spec => []TypeOK
<1>1. IInv => TypeOK
  BY Consequences
<1> QED BY <1>1, Always, PTL

\* Whatever is created, extended, removed, read into holes and lost to a full
\* disk or a power failure: no sector is in two files, or twice in one, each is
\* marked in the free map, and every chain of index blocks ends.
THEOREM SectorsOwnedOnce == Spec => []OwnedOnce
<1>1. IInv => OwnedOnce
  BY Consequences
<1> QED BY <1>1, Always, PTL

\* When no size at creation is a whole number of index blocks, for which
\* inode_create initialises the last one twice, the free map marks no sector
\* that no file has, until a call fails halfway or the machine stops with a
\* removed file open.
THEOREM NothingIsLost ==
  ASSUME AllFit
  PROVE  Spec => []NothingLost
<1>1. IInv => NothingLost
  BY Consequences
<1> QED BY <1>1, Always, PTL
=============================================================================
