--------------------------- MODULE RoadmapProofs ---------------------------
(***************************************************************************)
(* Proofs about Roadmap, BuildOrder and RoadmapReport, for any index,      *)
(* rules and options: the search by levels finds what the target needs,    *)
(* and the sort gives an order to build it in.                             *)
(***************************************************************************)
EXTENDS RoadmapReport, FiniteSetTheorems, SequenceTheorems, WellFoundedInduction, TLAPS

-----------------------------------------------------------------------------
(* Induction over the natural numbers, for sets instead of predicates.     *)

LEMMA SmallestMember ==
  ASSUME NEW T, T \subseteq Nat, T # {}
  PROVE  \E n \in T : \A m \in T : n <= m
<1>1. \E n \in T : \A m \in T : <<m, n>> \notin OpToRel(<, Nat)
  BY NatLessThanWellFounded, WFMin
<1>2. PICK n \in T : \A m \in T : <<m, n>> \notin OpToRel(<, Nat)
  BY <1>1
<1>3. ASSUME NEW m \in T PROVE n <= m
  <2>1. m \in Nat /\ n \in Nat
    OBVIOUS
  <2>2. m < n => <<m, n>> \in OpToRel(<, Nat)
    BY <2>1 DEF OpToRel
  <2>3. ~(m < n)
    BY <1>2, <2>2, Zenon
  <2> QED BY ONLY <2>1, <2>3
<1> QED BY <1>3

LEMMA SetInduction ==
  ASSUME NEW T, 0 \in T, \A n \in Nat : n \in T => n + 1 \in T
  PROVE  Nat \subseteq T
<1> SUFFICES ASSUME Nat \ T # {} PROVE FALSE
  OBVIOUS
<1>1. Nat \ T \subseteq Nat
  OBVIOUS
<1>2. PICK n \in Nat \ T : \A m \in Nat \ T : n <= m
  BY <1>1, SmallestMember
<1>3. n \in Nat /\ n # 0
  OBVIOUS
<1>4. n - 1 \in Nat /\ (n - 1) + 1 = n /\ ~(n <= n - 1)
  BY <1>3
<1>5. n - 1 \in T
  BY <1>2, <1>4
<1> QED BY <1>4, <1>5

-----------------------------------------------------------------------------
(* The members of a set in their order                                     *)

(* How many members are smaller tells a member from every other.           *)
Smaller(S, n) == {m \in S : m < n}

LEMMA SmallerGrows ==
  ASSUME NEW S \in SUBSET Nat, IsFiniteSet(S), NEW m \in S, NEW n \in S, m < n
  PROVE  Cardinality(Smaller(S, m)) < Cardinality(Smaller(S, n))
<1>1. Smaller(S, n) \in SUBSET S /\ Smaller(S, m) \in SUBSET S
  BY DEF Smaller
<1>2. IsFiniteSet(Smaller(S, n)) /\ IsFiniteSet(Smaller(S, m))
  BY <1>1, FS_Subset
<1>3. Smaller(S, m) \in SUBSET Smaller(S, n) /\ Smaller(S, m) # Smaller(S, n)
  <2>1. m \in Smaller(S, n) /\ m \notin Smaller(S, m)
    BY DEF Smaller
  <2>2. \A x \in Smaller(S, m) : x \in Smaller(S, n)
    BY DEF Smaller
  <2> QED BY <2>1, <2>2
<1>4. Cardinality(Smaller(S, m)) <= Cardinality(Smaller(S, n))
      /\ Cardinality(Smaller(S, m)) # Cardinality(Smaller(S, n))
  BY <1>2, <1>3, FS_Subset
<1>5. Cardinality(Smaller(S, m)) \in Nat /\ Cardinality(Smaller(S, n)) \in Nat
  BY <1>2, FS_CardinalityType
<1> QED BY <1>4, <1>5

LEMMA InOrderIs ==
  ASSUME NEW S \in SUBSET Nat, IsFiniteSet(S)
  PROVE  /\ Cardinality(S) \in Nat /\ InOrder(S) \in [1..Cardinality(S) -> S]
         /\ \A n \in S : \E i \in 1..Cardinality(S) : InOrder(S)[i] = n
         /\ \A i, j \in 1..Cardinality(S) : i < j => InOrder(S)[i] < InOrder(S)[j]
<1> DEFINE k == Cardinality(S)
           rank(n) == Cardinality(Smaller(S, n))
           f == [n \in S |-> rank(n) + 1]
<1>1. k \in Nat
  BY FS_CardinalityType
<1>2. ASSUME NEW n \in S PROVE rank(n) \in Nat /\ rank(n) + 1 \in 1..k
  <2>1. Smaller(S, n) \in SUBSET (S \ {n})
    BY DEF Smaller
  <2>2. IsFiniteSet(S \ {n}) /\ Cardinality(S \ {n}) = k - 1
    BY FS_RemoveElement
  <2>3. IsFiniteSet(Smaller(S, n)) /\ rank(n) <= k - 1
    BY <2>1, <2>2, FS_Subset
  <2>4. rank(n) \in Nat
    BY <2>3, FS_CardinalityType
  <2> HIDE DEF rank, k
  <2> QED BY <1>1, <2>3, <2>4
<1>3. ASSUME NEW m \in S, NEW n \in S, rank(m) = rank(n) PROVE m = n
  <2>1. m < n \/ n < m \/ m = n
    OBVIOUS
  <2>2. m < n => rank(m) < rank(n)
    BY SmallerGrows
  <2>3. n < m => rank(n) < rank(m)
    BY SmallerGrows
  <2>4. rank(m) \in Nat /\ rank(n) \in Nat
    BY <1>2
  <2> HIDE DEF rank
  <2> QED BY <1>3, <2>1, <2>2, <2>3, <2>4
<1> HIDE DEF rank, k
<1>4. f \in Injection(S, 1..k)
  <2>1. f \in [S -> 1..k]
    BY <1>2
  <2>2. \A m, n \in S : f[m] = f[n] => m = n
    BY <1>2, <1>3
  <2> HIDE DEF f
  <2> QED BY <2>1, <2>2 DEF Injection, IsInjective
<1>5. f \in Surjection(S, 1..k)
  <2>1. IsFiniteSet(1..k) /\ Cardinality(1..k) = k
    BY <1>1, FS_Interval
  <2> HIDE DEF f
  <2> QED BY <1>4, <2>1, FS_Injection DEF k
<1>6. \A i \in 1..k : \E n \in S : rank(n) = i - 1
  <2> SUFFICES ASSUME NEW i \in 1..k PROVE \E n \in S : rank(n) = i - 1
    OBVIOUS
  <2>1. PICK n \in S : f[n] = i
    BY <1>5 DEF Surjection
  <2> QED BY <1>2, <2>1
<1>7. InOrder(S) = [i \in 1..k |-> CHOOSE n \in S : rank(n) = i - 1]
  BY DEF InOrder, Smaller, rank, k
<1>8. \A i \in 1..k : InOrder(S)[i] \in S /\ rank(InOrder(S)[i]) = i - 1
  BY <1>6, <1>7
<1>9. InOrder(S) \in [1..k -> S]
  BY <1>7, <1>8
<1>10. ASSUME NEW n \in S PROVE InOrder(S)[rank(n) + 1] = n
  <2>1. rank(n) + 1 \in 1..k /\ (rank(n) + 1) - 1 = rank(n)
    BY <1>2
  <2> QED BY <1>3, <1>8, <2>1
<1>11. ASSUME NEW i \in 1..k, NEW j \in 1..k, i < j PROVE InOrder(S)[i] < InOrder(S)[j]
  <2> DEFINE m == InOrder(S)[i]
             n == InOrder(S)[j]
  <2>1. m \in S /\ n \in S /\ rank(m) < rank(n)
    BY <1>8, <1>11
  <2>2. n < m => rank(n) < rank(m)
    BY <2>1, SmallerGrows DEF rank
  <2>3. m \in Nat /\ n \in Nat /\ rank(m) \in Nat /\ rank(n) \in Nat
    BY <1>2, <2>1
  <2> HIDE DEF m, n
  <2>4. m < n
    BY <2>1, <2>2, <2>3
  <2> QED BY <2>4 DEF m, n
<1> QED BY <1>1, <1>2, <1>9, <1>10, <1>11 DEF k

-----------------------------------------------------------------------------
(* The packages n steps away                                               *)

InputOK ==
  /\ requires \in [Packages -> SUBSET Reqs]
  /\ provides \in [Reqs -> Packages \cup {Sysroot, Unknown}]
  /\ drops \in [Packages -> SUBSET Reqs] /\ hasRules \in SUBSET Packages
  /\ maxDepth \in Nat /\ stopAtRules \in BOOLEAN

(* What a package leads to.                                                *)
After(p) == {d \in {provides[r] : r \in Kept(p)} \cap Packages : Follow(d)}

(* The walks of n steps from the target.                                   *)
Walks(n) ==
  {w \in [0..n -> Packages] : w[0] = Target /\ \A i \in 1..n : w[i] \in After(w[i - 1])}

Within(n) == {d \in Packages : \E k \in 0..n : \E w \in Walks(k) : w[k] = d}

LEMMA AfterIn == \A p : After(p) \subseteq Packages
BY DEF After

LEMMA WithinNothing == Within(0) = {Target}
<1>1. [i \in 0..0 |-> Target] \in Walks(0)
  BY RoadmapAssumption DEF Walks
<1>2. Target \in Within(0)
  BY <1>1, RoadmapAssumption DEF Within
<1>3. ASSUME NEW d \in Within(0) PROVE d = Target
  BY <1>3 DEF Within, Walks
<1> QED BY <1>2, <1>3

(* A walk without its last step, and with one more.                        *)
LEMMA WalkBack ==
  ASSUME NEW n \in Nat \ {0}, NEW w \in Walks(n)
  PROVE  [i \in 0..(n - 1) |-> w[i]] \in Walks(n - 1) /\ w[n] \in After(w[n - 1])
<1>1. n - 1 \in Nat /\ 0 \in 0..(n - 1) /\ n \in 1..n
  OBVIOUS
<1>2. \A i \in 0..(n - 1) : i \in 0..n
  OBVIOUS
<1>3. \A i \in 1..(n - 1) : i \in 1..n /\ i \in 0..(n - 1) /\ i - 1 \in 0..(n - 1)
  OBVIOUS
<1>4. w \in [0..n -> Packages] /\ w[0] = Target /\ \A i \in 1..n : w[i] \in After(w[i - 1])
  BY DEF Walks
<1> QED BY <1>1, <1>2, <1>3, <1>4 DEF Walks

LEMMA WalkOn ==
  ASSUME NEW n \in Nat, NEW w \in Walks(n), NEW d \in After(w[n])
  PROVE  [i \in 0..(n + 1) |-> IF i = n + 1 THEN d ELSE w[i]] \in Walks(n + 1)
<1> DEFINE v == [i \in 0..(n + 1) |-> IF i = n + 1 THEN d ELSE w[i]]
<1>1. w \in [0..n -> Packages] /\ w[0] = Target /\ \A i \in 1..n : w[i] \in After(w[i - 1])
  BY DEF Walks
<1>2. d \in Packages
  BY AfterIn
<1>3. v \in [0..(n + 1) -> Packages]
  BY <1>1, <1>2
<1>4. v[0] = Target
  BY <1>1
<1>5. ASSUME NEW i \in 1..(n + 1) PROVE v[i] \in After(v[i - 1])
  <2>1. CASE i = n + 1
    <3>1. v[i] = d /\ v[i - 1] = w[n]
      BY <2>1
    <3> QED BY <3>1
  <2>2. CASE i # n + 1
    <3>1. v[i] = w[i] /\ v[i - 1] = w[i - 1] /\ i \in 1..n
      BY <2>2
    <3> QED BY <1>1, <3>1
  <2> QED BY <2>1, <2>2
<1> HIDE DEF v
<1>6. v \in Walks(n + 1)
  <2>1. \A i \in 1..(n + 1) : v[i] \in After(v[i - 1])
    BY <1>5
  <2> QED BY <1>3, <1>4, <2>1 DEF Walks
<1> QED BY <1>6 DEF v

LEMMA WithinOneMore ==
  ASSUME NEW n \in Nat \ {0}
  PROVE  Within(n) = Within(n - 1) \cup UNION {After(p) : p \in Within(n - 1)}
<1>0. n - 1 \in Nat /\ n - 1 \in 0..(n - 1) /\ (n - 1) + 1 = n
  OBVIOUS
<1>1. ASSUME NEW d \in Within(n)
      PROVE  d \in Within(n - 1) \/ \E p \in Within(n - 1) : d \in After(p)
  <2>1. PICK k \in 0..n : \E w \in Walks(k) : w[k] = d
    BY <1>1 DEF Within
  <2>2. PICK w \in Walks(k) : w[k] = d
    BY <2>1
  <2>3. CASE k # n
    <3>1. k \in 0..(n - 1)
      BY <2>3
    <3> QED BY <1>1, <2>2, <3>1 DEF Within
  <2>4. CASE k = n
    <3> DEFINE v == [i \in 0..(n - 1) |-> w[i]]
    <3>1. v \in Walks(n - 1) /\ d \in After(w[n - 1]) /\ v[n - 1] = w[n - 1]
      BY <1>0, <2>2, <2>4, WalkBack
    <3>2. w[n - 1] \in Packages
      BY <1>0, <2>4 DEF Walks
    <3> HIDE DEF v
    <3>3. w[n - 1] \in Within(n - 1)
      BY <1>0, <3>1, <3>2 DEF Within
    <3> QED BY <3>1, <3>3
  <2> QED BY <2>3, <2>4
<1>2. ASSUME NEW d \in Within(n - 1) PROVE d \in Within(n)
  <2>1. \A k \in 0..(n - 1) : k \in 0..n
    OBVIOUS
  <2> QED BY <1>2, <2>1 DEF Within
<1>3. ASSUME NEW p \in Within(n - 1), NEW d \in After(p) PROVE d \in Within(n)
  <2>1. PICK k \in 0..(n - 1) : \E w \in Walks(k) : w[k] = p
    BY DEF Within
  <2>2. PICK w \in Walks(k) : w[k] = p
    BY <2>1
  <2> DEFINE v == [i \in 0..(k + 1) |-> IF i = k + 1 THEN d ELSE w[i]]
  <2>3. k \in Nat /\ k + 1 \in 0..n /\ k + 1 \in 0..(k + 1)
    BY <1>0
  <2>4. v \in Walks(k + 1) /\ v[k + 1] = d
    BY <2>2, <2>3, WalkOn
  <2> HIDE DEF v
  <2>5. d \in Packages
    BY AfterIn
  <2> QED BY <2>3, <2>4, <2>5 DEF Within
<1> QED BY <1>1, <1>2, <1>3

(* The recursive definition has these sets as its values.                  *)
LEMMA NearIs ==
  /\ Near[0] = {Target}
  /\ \A n \in Nat : Near[n + 1] = Near[n] \cup UNION {After(p) : p \in Near[n]}
<1> DEFINE On(S) ==
             LET wanted == UNION {{provides[r] : r \in requires[p] \ drops[p]} : p \in S}
             IN S \cup {d \in wanted \cap Packages : Follow(d)}
           Step(f) == [n \in Nat |-> IF n = 0 THEN {Target} ELSE On(f[n - 1])]
<1>1. Near = CHOOSE f : f = Step(f)
  BY DEF Near
<1>2. \A S : On(S) = S \cup UNION {After(p) : p \in S}
  BY DEF After, Kept
<1> HIDE DEF On
<1>3. Near = Step(Near)
  <2> DEFINE g == [n \in Nat |-> Within(n)]
  <2>1. \A n \in Nat \ {0} : n - 1 \in Nat
    OBVIOUS
  <2>2. \A n \in Nat \ {0} : Within(n) = On(Within(n - 1))
    BY <1>2, WithinOneMore
  <2>3. g = Step(g)
    BY <2>1, <2>2, WithinNothing
  <2> HIDE DEF g, Step
  <2> QED BY <1>1, <2>3
<1>4. ASSUME NEW n \in Nat PROVE Near[n + 1] = On(Near[n])
  <2>1. n + 1 \in Nat \ {0} /\ (n + 1) - 1 = n
    OBVIOUS
  <2>2. Near[n + 1] = On(Near[(n + 1) - 1])
    BY <1>3, <2>1
  <2> QED BY <2>1, <2>2
<1>5. Near[0] = {Target}
  BY <1>3
<1> QED BY <1>2, <1>4, <1>5

LEMMA NearGrows ==
  ASSUME NEW m \in Nat, NEW n \in Nat, m <= n
  PROVE  Near[m] \subseteq Near[n]
<1> DEFINE T == {k \in Nat : Near[m] \subseteq Near[m + k]}
<1>1. 0 \in T
  OBVIOUS
<1>2. ASSUME NEW k \in Nat, k \in T PROVE k + 1 \in T
  <2>1. m + k \in Nat /\ m + (k + 1) = (m + k) + 1
    OBVIOUS
  <2>2. Near[(m + k) + 1] = Near[m + k] \cup UNION {After(p) : p \in Near[m + k]}
    BY <2>1, NearIs
  <2>3. Near[m] \subseteq Near[m + k]
    BY <1>2
  <2> HIDE DEF T
  <2>4. Near[m] \subseteq Near[m + (k + 1)]
    BY <2>1, <2>2, <2>3
  <2> QED BY <2>4 DEF T
<1>3. Nat \subseteq T
  <2> HIDE DEF T
  <2> QED BY <1>1, <1>2, SetInduction
<1>4. n - m \in T /\ m + (n - m) = n
  BY <1>3
<1> QED BY <1>4

-----------------------------------------------------------------------------
(* The invariant of the search                                             *)

Entries == [pkg : Packages, depth : 0..Cardinality(Packages)]

(* A package waits n steps away or nearer.                                 *)
Waits(d, n) == \E i \in DOMAIN queue : queue[i].pkg = d /\ queue[i].depth <= n

(* Entries are no deeper than packages were visited, and no more than      *)
(* these have names; what was not visited has no edges into it.            *)
Bounded ==
  /\ \A i \in DOMAIN queue : queue[i].depth <= Cardinality(visited)
  /\ Len(queue) <= 1 + Cardinality(visited) * Cardinality(Reqs)
  /\ \A e \in Packages \X Packages : e[2] \notin visited => edges[e] = 0

LevelByLevel ==
  \A i, j \in DOMAIN queue :
    i <= j => queue[i].depth <= queue[j].depth /\ queue[j].depth <= queue[i].depth + 1

Limit == IF maxDepth = 0 THEN Cardinality(Packages) ELSE maxDepth

(* What is found is as near as its entry says.                             *)
FoundIsNear ==
  /\ \A i \in DOMAIN queue : queue[i].pkg \in Near[queue[i].depth]
  /\ DOMAIN packages \subseteq Near[Limit]

(* What a package leads to waits with it one step further at most, however *)
(* near the package is; what was left out is beyond the limit.             *)
NearIsFound ==
  /\ Target \in visited \/ Waits(Target, 0)
  /\ \A p \in DOMAIN packages, n \in Nat :
       p \in Near[n] => \A d \in After(p) : d \in visited \/ Waits(d, n + 1)
  /\ \A p \in visited \ DOMAIN packages : maxDepth > 0 /\ p \notin Near[maxDepth]

Search == LevelByLevel /\ FoundIsNear /\ NearIsFound

RoadmapInv == TypeOK /\ InputOK /\ Bounded

-----------------------------------------------------------------------------
LEMMA CountsAreNat ==
  /\ Cardinality(Packages) \in Nat /\ Cardinality(Reqs) \in Nat
  /\ TypeOK => /\ IsFiniteSet(visited) /\ Cardinality(visited) \in Nat
               /\ Cardinality(visited) <= Cardinality(Packages)
<1>1. IsFiniteSet(Packages) /\ IsFiniteSet(Reqs)
  BY RoadmapAssumption
<1>2. TypeOK => visited \in SUBSET Packages
  BY DEF TypeOK
<1> QED BY <1>1, <1>2, FS_Subset, FS_CardinalityType

(* The head of the queue and the rest.                                     *)
LEMMA QueueParts ==
  ASSUME TypeOK, queue # << >>
  PROVE  /\ queue \in Seq(Entries) /\ Take \in Entries /\ Take = queue[1] /\ Len(queue) \in Nat \ {0}
         /\ Tail(queue) \in Seq(Entries) /\ Len(Tail(queue)) = Len(queue) - 1
         /\ DOMAIN queue = 1..Len(queue) /\ 1 \in DOMAIN queue
         /\ \A i \in 1..(Len(queue) - 1) : i + 1 \in DOMAIN queue /\ Tail(queue)[i] = queue[i + 1]
         /\ \A i \in DOMAIN queue : i = 1 \/ (i - 1 \in 1..(Len(queue) - 1) /\ Tail(queue)[i - 1] = queue[i])
<1>1. queue \in Seq(Entries)
  BY DEF TypeOK, Entries
<1> HIDE DEF Entries
<1>2. Take = queue[1] /\ Take \in Entries /\ Len(queue) \in Nat \ {0} /\ DOMAIN queue = 1..Len(queue)
  BY <1>1 DEF Take
<1>3. Tail(queue) \in Seq(Entries) /\ Len(Tail(queue)) = Len(queue) - 1
  BY <1>1
<1>4. \A i \in 1..(Len(queue) - 1) : i + 1 \in 1..Len(queue) /\ Tail(queue)[i] = queue[i + 1]
  BY <1>1, <1>2
<1>5. \A i \in 1..Len(queue) : i = 1 \/ (i - 1 \in 1..(Len(queue) - 1) /\ (i - 1) + 1 = i)
  BY <1>2
<1> QED BY <1>1, <1>2, <1>3, <1>4, <1>5

(* What a package adds to the queue: everything that it leads to and that  *)
(* was not visited, one level deeper.                                      *)
LEMMA QueuedIs ==
  ASSUME TypeOK, InputOK, NEW p \in Packages, queue # << >>,
         Take.depth + 1 \in 0..Cardinality(Packages)
  PROVE  LET found == Queued(p) IN
         /\ found \in Seq(Entries) /\ Len(found) <= Cardinality(Reqs)
         /\ \A i \in DOMAIN found : found[i].depth = Take.depth + 1 /\ found[i].pkg \in After(p)
         /\ \A d \in After(p) \ Visited(p) : \E i \in DOMAIN found : found[i].pkg = d
<1> DEFINE follow == {r \in Provided(p) : provides[r] \notin Visited(p) /\ Follow(provides[r])}
           sorted == InOrder(follow)
           n == Cardinality(follow)
           found == [i \in DOMAIN sorted |-> [pkg |-> provides[sorted[i]], depth |-> Take.depth + 1]]
<1>1. Queued(p) = found
  BY DEF Queued
<1>2. follow \in SUBSET Reqs /\ Kept(p) \in SUBSET Reqs
  BY DEF Provided, Kept, InputOK
<1>3. IsFiniteSet(follow) /\ n <= Cardinality(Reqs) /\ follow \in SUBSET Nat
  BY <1>2, RoadmapAssumption, FS_Subset
<1>4. /\ n \in Nat /\ sorted \in [1..n -> follow]
      /\ \A r \in follow : \E i \in 1..n : sorted[i] = r
  BY <1>3, InOrderIs
<1>5. \A r \in follow : provides[r] \in After(p)
  BY DEF After, Provided
<1>6. \A d \in After(p) \ Visited(p) : \E r \in follow : provides[r] = d
  BY DEF After, Provided
<1> HIDE DEF follow, sorted, n
<1>7. DOMAIN found = 1..n /\ \A i \in 1..n : found[i] = [pkg |-> provides[sorted[i]], depth |-> Take.depth + 1]
  BY <1>4
<1>8. \A i \in 1..n : provides[sorted[i]] \in After(p)
  BY <1>4, <1>5
<1>9. \A i \in 1..n : found[i] \in Entries
  BY <1>7, <1>8, AfterIn DEF Entries
<1>10. found \in Seq(Entries) /\ Len(found) = n
  <2> HIDE DEF Entries
  <2> QED BY <1>4, <1>9
<1>11. \A d \in After(p) \ Visited(p) : \E i \in 1..n : found[i].pkg = d
  BY <1>4, <1>6, <1>7
<1> HIDE DEF found
<1>12. /\ found \in Seq(Entries) /\ Len(found) <= Cardinality(Reqs)
       /\ \A i \in DOMAIN found : found[i].depth = Take.depth + 1 /\ found[i].pkg \in After(p)
       /\ \A d \in After(p) \ Visited(p) : \E i \in DOMAIN found : found[i].pkg = d
  BY <1>3, <1>7, <1>8, <1>10, <1>11
<1> QED BY <1>1, <1>12

LEMMA QueueAfter ==
  ASSUME TypeOK, queue # << >>, NEW found \in Seq(Entries)
  PROVE  LET k == Len(queue) - 1
             q == Tail(queue) \o found
         IN /\ k \in Nat /\ q \in Seq(Entries) /\ Len(q) = k + Len(found) /\ DOMAIN q = 1..Len(q)
            /\ \A i \in DOMAIN q : \/ i \in 1..k /\ i + 1 \in DOMAIN queue /\ q[i] = queue[i + 1]
                                   \/ i > k /\ i - k \in DOMAIN found /\ q[i] = found[i - k]
            /\ \A i \in DOMAIN queue : i = 1 \/ (i - 1 \in DOMAIN q /\ q[i - 1] = queue[i])
            /\ \A i \in DOMAIN found : k + i \in DOMAIN q /\ q[k + i] = found[i]
<1> DEFINE k == Len(queue) - 1
           t == Tail(queue)
           q == t \o found
<1>1. /\ t \in Seq(Entries) /\ Len(t) = k /\ k \in Nat /\ DOMAIN queue = 1..Len(queue)
      /\ Len(queue) = k + 1
      /\ \A i \in 1..k : i + 1 \in DOMAIN queue /\ t[i] = queue[i + 1]
      /\ \A i \in DOMAIN queue : i = 1 \/ (i - 1 \in 1..k /\ t[i - 1] = queue[i])
  BY QueueParts
<1> HIDE DEF t, k, Entries
<1>2. /\ q \in Seq(Entries) /\ Len(q) = k + Len(found) /\ DOMAIN q = 1..Len(q)
      /\ Len(found) \in Nat /\ DOMAIN found = 1..Len(found)
      /\ \A i \in 1..k : q[i] = t[i] /\ i \in 1..Len(q)
      /\ \A i \in 1..Len(found) : q[k + i] = found[i] /\ k + i \in 1..Len(q)
  <2>1. q \in Seq(Entries) /\ Len(q) = k + Len(found) /\ Len(found) \in Nat
    <3>1. q \in Seq(Entries)
      BY <1>1
    <3>2. Len(q) = Len(t) + Len(found) /\ Len(found) \in Nat
      OBVIOUS
    <3>3. Len(t) = k
      BY <1>1
    <3> QED BY <3>1, <3>2, <3>3
  <2>2. \A i \in 1..(k + Len(found)) : q[i] = IF i <= k THEN t[i] ELSE found[i - k]
    BY <1>1
  <2>3. ASSUME NEW i \in 1..k PROVE q[i] = t[i] /\ i \in 1..Len(q)
    <3>1. i \in 1..(k + Len(found)) /\ i <= k
      BY <1>1, <2>1
    <3> QED BY <2>1, <2>2, <3>1
  <2>4. ASSUME NEW i \in 1..Len(found) PROVE q[k + i] = found[i] /\ k + i \in 1..Len(q)
    <3>1. k + i \in 1..(k + Len(found)) /\ ~(k + i <= k) /\ (k + i) - k = i
      BY <1>1, <2>1
    <3> QED BY <2>1, <2>2, <3>1
  <2> HIDE DEF q
  <2>5. DOMAIN q = 1..Len(q) /\ DOMAIN found = 1..Len(found)
    BY <2>1
  <2> QED BY <2>1, <2>3, <2>4, <2>5
<1> HIDE DEF q
<1>3. \A i \in 1..Len(q) : i \in 1..k \/ (i > k /\ i - k \in 1..Len(found) /\ k + (i - k) = i)
  BY <1>1, <1>2
<1>4. \A i \in DOMAIN q : \/ i \in 1..k /\ i + 1 \in DOMAIN queue /\ q[i] = queue[i + 1]
                          \/ i > k /\ i - k \in DOMAIN found /\ q[i] = found[i - k]
  <2> SUFFICES ASSUME NEW i \in DOMAIN q, i \notin 1..k
               PROVE  i > k /\ i - k \in DOMAIN found /\ q[i] = found[i - k]
    BY <1>1, <1>2
  <2>1. i > k /\ i - k \in 1..Len(found) /\ k + (i - k) = i
    BY <1>2, <1>3
  <2>2. q[k + (i - k)] = found[i - k]
    BY <1>2, <2>1
  <2> QED BY <1>2, <2>1, <2>2
<1>5. \A i \in DOMAIN queue : i = 1 \/ (i - 1 \in DOMAIN q /\ q[i - 1] = queue[i])
  BY <1>1, <1>2
<1>6. \A i \in DOMAIN found : k + i \in DOMAIN q /\ q[k + i] = found[i]
  BY <1>2
<1> QED BY <1>1, <1>2, <1>4, <1>5, <1>6 DEF k, q, t

-----------------------------------------------------------------------------
(* Types and bounds                                                        *)

LEMMA InitRoadmap == Init => RoadmapInv /\ EveryNameIsReported
<1> SUFFICES ASSUME Init PROVE RoadmapInv /\ EveryNameIsReported
  OBVIOUS
<1>1. Cardinality(Packages) \in Nat /\ Cardinality(Reqs) \in Nat
  BY CountsAreNat
<1>2. InputOK
  <2>1. PICK c \in Cases : /\ requires = c.requires /\ provides = c.provides /\ drops = c.drops
                           /\ hasRules = c.hasRules
                           /\ maxDepth = c.maxDepth /\ stopAtRules = c.stopAtRules
    BY DEF Init
  <2> QED BY <2>1, RoadmapAssumption DEF InputOK, Inputs
<1>3. Cardinality(visited) = 0
  BY FS_EmptySet DEF Init
<1>4. queue = <<[pkg |-> Target, depth |-> 0]>> /\ [pkg |-> Target, depth |-> 0] \in Entries
  BY <1>1, RoadmapAssumption DEF Init, Entries
<1>5. queue \in Seq(Entries) /\ Len(queue) = 1 /\ DOMAIN queue = {1} /\ queue[1].depth = 0
  BY <1>4
<1>6. 0 * Cardinality(Reqs) = 0 /\ Cardinality(Packages) * Cardinality(Reqs) \in Nat
  BY <1>1
<1>7. DOMAIN packages = {}
  BY DEF Init
<1>8. edges \in [Packages \X Packages -> 0..Cardinality(Reqs)]
  BY <1>1 DEF Init
<1>9. TypeOK
  BY <1>1, <1>5, <1>6, <1>7, <1>8 DEF Init, TypeOK, Entries
<1>10. Bounded
  BY <1>3, <1>5, <1>6 DEF Init, Bounded
<1> QED BY <1>2, <1>7, <1>9, <1>10 DEF RoadmapInv, EveryNameIsReported

(* A package is visited: there is one more, and it was there to visit.     *)
LEMMA OneMoreVisited ==
  ASSUME TypeOK, NEW p \in Packages \ visited
  PROVE  /\ Cardinality(visited \cup {p}) = Cardinality(visited) + 1
         /\ Cardinality(visited) + 1 <= Cardinality(Packages)
         /\ visited \cup {p} \subseteq Packages
<1>1. visited \cup {p} \in SUBSET Packages
  BY DEF TypeOK
<1>2. IsFiniteSet(visited)
  BY CountsAreNat
<1>3. Cardinality(visited \cup {p}) = Cardinality(visited) + 1
  BY <1>2, FS_AddElement
<1>4. Cardinality(visited \cup {p}) <= Cardinality(Packages)
  BY <1>1, FS_Subset, RoadmapAssumption
<1> QED BY <1>1, <1>3, <1>4

LEMMA StepQueue ==
  ASSUME RoadmapInv, Next
  PROVE  /\ queue' \in Seq(Entries) /\ visited' \subseteq Packages
         /\ Len(queue') <= 1 + Cardinality(Packages) * Cardinality(Reqs)
         /\ \A i \in DOMAIN queue' : queue'[i].depth <= Cardinality(visited')
         /\ Len(queue') <= 1 + Cardinality(visited') * Cardinality(Reqs)
<1> DEFINE v == Cardinality(visited)
           w == Cardinality(visited')
           r == Cardinality(Reqs)
           k == Cardinality(Packages)
<1>0. TypeOK /\ InputOK /\ Bounded /\ queue # << >>
  BY DEF RoadmapInv, Next, Resolve, LeaveOut, Skip
<1>1. v \in Nat /\ r \in Nat /\ k \in Nat /\ v <= k
  BY <1>0, CountsAreNat
<1>2. /\ Take \in Entries /\ Take = queue[1] /\ Tail(queue) \in Seq(Entries) /\ Len(Tail(queue)) = Len(queue) - 1
      /\ Len(queue) \in Nat /\ Take.depth <= v /\ Len(queue) <= 1 + v * r
      /\ \A i \in DOMAIN queue : queue[i].depth <= v
  BY <1>0, QueueParts DEF Bounded
<1>3. Take.pkg \in Packages /\ Take.depth \in Nat
  BY <1>1, <1>2 DEF Entries
<1> HIDE DEF Entries
<1>4. ASSUME NEW found \in Seq(Entries), queue' = Tail(queue) \o found,
             visited' \in SUBSET Packages,
             v <= w, w \in Nat, \A i \in DOMAIN found : found[i].depth <= w,
             Len(found) <= (w - v) * r
      PROVE  /\ queue' \in Seq(Entries)
             /\ \A i \in DOMAIN queue' : queue'[i].depth <= w
             /\ Len(queue') <= 1 + w * r /\ Len(queue') <= 1 + k * r
  <2>1. /\ queue' \in Seq(Entries) /\ Len(queue') = (Len(queue) - 1) + Len(found)
        /\ \A i \in DOMAIN queue' : \/ i + 1 \in DOMAIN queue /\ queue'[i] = queue[i + 1]
                                    \/ \E j \in DOMAIN found : queue'[i] = found[j]
    BY <1>0, <1>4, QueueAfter
  <2>2. ASSUME NEW i \in DOMAIN queue' PROVE queue'[i].depth <= w
    <3>1. queue'[i].depth <= v \/ queue'[i].depth <= w
      BY <1>2, <1>4, <2>1
    <3>2. queue'[i] \in Entries
      BY <2>1
    <3>3. queue'[i].depth \in Nat
      BY <1>1, <3>2 DEF Entries
    <3> HIDE DEF v, w
    <3> QED BY SMTT(30), <1>1, <1>4, <3>1, <3>3
  <2>3. w <= k
    BY <1>4, FS_Subset, RoadmapAssumption
  <2>4. Len(found) \in Nat
    BY <1>4
  <2> HIDE DEF v, w, k, r
  <2>5. (w - v) * r = w * r - v * r /\ v * r \in Nat /\ w * r \in Nat /\ k * r \in Nat
    BY <1>1, <1>4
  <2>6. w * r <= k * r
    <3>1. k * r = w * r + (k - w) * r /\ (k - w) * r \in Nat
      BY <1>1, <1>4, <2>3
    <3> QED BY <2>5, <3>1
  <2>7. Len(queue') <= 1 + w * r
    BY <1>2, <1>4, <2>1, <2>4, <2>5
  <2> QED BY <2>1, <2>2, <2>5, <2>6, <2>7
<1>5. << >> \in Seq(Entries) /\ Len(<< >>) = 0 /\ Tail(queue) \o << >> = Tail(queue)
      /\ \A i \in DOMAIN << >> : FALSE
  BY <1>2
<1>6. CASE Resolve
  <2> DEFINE p == Take.pkg
             found == Queued(p)
  <2>1. p \in Packages \ visited /\ visited' = visited \cup {p} /\ queue' = Tail(queue) \o found
    BY <1>3, <1>6 DEF Resolve, Visited, NewQueue
  <2>2. w = v + 1 /\ v + 1 <= k /\ visited' \in SUBSET Packages
    BY <1>0, <2>1, OneMoreVisited
  <2>3. Take.depth + 1 \in 0..k /\ Take.depth + 1 <= w
    BY <1>1, <1>2, <1>3, <2>2
  <2>4. /\ found \in Seq(Entries) /\ Len(found) <= r
        /\ \A i \in DOMAIN found : found[i].depth = Take.depth + 1
    BY <1>0, <2>1, <2>3, QueuedIs
  <2> HIDE DEF found, v, w, r, k
  <2>5. (w - v) * r = r /\ v <= w /\ w \in Nat
    BY <1>1, <2>2
  <2>6. /\ queue' \in Seq(Entries)
        /\ \A i \in DOMAIN queue' : queue'[i].depth <= w
        /\ Len(queue') <= 1 + w * r /\ Len(queue') <= 1 + k * r
    BY <1>4, <2>1, <2>2, <2>3, <2>4, <2>5
  <2> QED BY <2>2, <2>6 DEF w, k, r
<1>7. CASE LeaveOut
  <2>1. Take.pkg \in Packages \ visited /\ visited' = visited \cup {Take.pkg} /\ queue' = Tail(queue)
    BY <1>3, <1>7 DEF LeaveOut, Visited
  <2>2. w = v + 1 /\ visited' \in SUBSET Packages
    BY <1>0, <2>1, OneMoreVisited
  <2> HIDE DEF v, w, r, k
  <2>3. (w - v) * r = r /\ v <= w /\ w \in Nat /\ 0 <= r
    BY <1>1, <2>2
  <2>4. /\ queue' \in Seq(Entries)
        /\ \A i \in DOMAIN queue' : queue'[i].depth <= w
        /\ Len(queue') <= 1 + w * r /\ Len(queue') <= 1 + k * r
    BY <1>4, <1>5, <2>1, <2>2, <2>3
  <2> QED BY <2>2, <2>4 DEF w, k, r
<1>8. CASE Skip
  <2>1. visited' = visited /\ queue' = Tail(queue) /\ visited' \in SUBSET Packages
    BY <1>0, <1>8 DEF Skip, TypeOK
  <2>2. w = v /\ visited' \in SUBSET Packages
    BY <2>1
  <2> HIDE DEF v, w, r, k
  <2>3. (w - v) * r = 0 /\ v <= w /\ w \in Nat /\ 0 <= (w - v) * r
    BY <1>1, <2>2
  <2>4. /\ queue' \in Seq(Entries)
        /\ \A i \in DOMAIN queue' : queue'[i].depth <= w
        /\ Len(queue') <= 1 + w * r /\ Len(queue') <= 1 + k * r
    BY <1>4, <1>5, <2>1, <2>2, <2>3
  <2> QED BY <2>2, <2>4 DEF w, k, r
<1> QED BY <1>6, <1>7, <1>8 DEF Next

(* The steps leave the index, the rules and the options alone.             *)
LEMMA InputStays == ASSUME Next PROVE UNCHANGED input
BY DEF Next, Resolve, LeaveOut, Skip

LEMMA StepResult ==
  ASSUME RoadmapInv, EveryNameIsReported, Resolve
  PROVE  /\ DOMAIN packages' = DOMAIN packages \cup {Take.pkg}
         /\ \A p \in DOMAIN packages' : packages'[p] \subseteq Packages
         /\ edges' \in [Packages \X Packages -> 0..Cardinality(Reqs)]
         /\ \A e \in Packages \X Packages : e[2] \notin visited' => edges'[e] = 0
         /\ dropped' \subseteq Reqs /\ sysroot' \subseteq Reqs /\ unresolvable' \subseteq Reqs
         /\ EveryNameIsReported'
<1> DEFINE p == Take.pkg
           here(e) == {r \in Provided(p) : provides[r] = e[1]}
<1>0. TypeOK /\ InputOK /\ Bounded /\ queue # << >> /\ p \notin visited
  BY DEF RoadmapInv, Resolve
<1>1. p \in Packages
  <2>1. Take \in Entries
    BY <1>0, QueueParts
  <2> QED BY <2>1 DEF Entries
<1>2. /\ visited' = visited \cup {p} /\ edges' = NewEdges(p)
      /\ packages' = [q \in DOMAIN packages \cup {p} |-> IF q = p THEN BuildRequires(p)
                                                        ELSE packages[q]]
      /\ dropped' = dropped \cup (requires[p] \cap drops[p])
      /\ sysroot' = sysroot \cup {r \in Kept(p) : provides[r] = Sysroot}
      /\ unresolvable' = unresolvable \cup {r \in Kept(p) : provides[r] = Unknown}
      /\ UNCHANGED <<requires, provides, drops>>
  BY DEF Resolve, Visited, input
<1> HIDE DEF p
<1>3. /\ requires[p] \subseteq Reqs /\ Kept(p) \subseteq requires[p] /\ Provided(p) \subseteq Kept(p)
      /\ BuildRequires(p) \subseteq Packages
  BY <1>0, <1>1 DEF InputOK, Kept, Provided, BuildRequires
<1>4. DOMAIN packages' = DOMAIN packages \cup {p}
  BY <1>2
<1>5. ASSUME NEW q \in DOMAIN packages' PROVE packages'[q] \subseteq Packages
  BY <1>0, <1>2, <1>3 DEF TypeOK
<1>6. Cardinality(Reqs) \in Nat
  BY CountsAreNat
<1>7. ASSUME NEW e \in Packages \X Packages
      PROVE  /\ NewEdges(p)[e] \in 0..Cardinality(Reqs)
             /\ e[2] \notin visited' => NewEdges(p)[e] = 0
  <2>1. edges[e] \in 0..Cardinality(Reqs) /\ (e[2] \notin visited => edges[e] = 0)
    BY <1>0 DEF TypeOK, Bounded
  <2>2. CASE e[2] = p /\ e[1] # p
    <3>1. here(e) \subseteq Reqs
      BY <1>3
    <3>2. Cardinality(here(e)) \in Nat /\ Cardinality(here(e)) <= Cardinality(Reqs)
      BY <3>1, RoadmapAssumption, FS_Subset, FS_CardinalityType
    <3>3. NewEdges(p)[e] = edges[e] + Cardinality(here(e))
      BY <2>2 DEF NewEdges
    <3>4. edges[e] = 0 /\ e[2] \in visited'
      BY <1>0, <1>2, <2>1, <2>2 DEF p
    <3> HIDE DEF here
    <3> QED BY <1>6, <3>2, <3>3, <3>4
  <2>3. CASE ~(e[2] = p /\ e[1] # p)
    <3>1. NewEdges(p)[e] = edges[e]
      BY <2>3 DEF NewEdges
    <3> QED BY <1>2, <2>1, <3>1
  <2> QED BY <2>2, <2>3
<1>8. edges' \in [Packages \X Packages -> 0..Cardinality(Reqs)]
  <2>1. edges' = [e \in Packages \X Packages |-> NewEdges(p)[e]]
    BY <1>2 DEF NewEdges
  <2> QED BY <1>7, <2>1
<1>9. \A e \in Packages \X Packages : e[2] \notin visited' => edges'[e] = 0
  BY <1>2, <1>7
<1>10. dropped' \subseteq Reqs /\ sysroot' \subseteq Reqs /\ unresolvable' \subseteq Reqs
  BY <1>0, <1>2, <1>3 DEF TypeOK
<1>11. EveryNameIsReported'
  <2> SUFFICES ASSUME NEW q \in DOMAIN packages', NEW r \in requires[q]
               PROVE  IF r \in drops[q] THEN r \in dropped'
                      ELSE CASE provides[r] = Sysroot -> r \in sysroot'
                             [] provides[r] = Unknown -> r \in unresolvable'
                             [] OTHER                 -> provides[r] \in packages'[q]
    BY <1>2 DEF EveryNameIsReported
  <2>1. CASE q = p
    <3>1. packages'[q] = BuildRequires(p)
      BY <1>2, <2>1
    <3>2. CASE r \in drops[q]
      BY <1>2, <2>1, <3>2
    <3>3. CASE r \notin drops[q]
      <4>1. r \in Kept(p) /\ provides[r] \in Packages \cup {Sysroot, Unknown}
        BY <1>0, <1>3, <2>1, <3>3 DEF Kept, InputOK
      <4>2. provides[r] \in Packages => provides[r] \in BuildRequires(p)
        BY <4>1 DEF BuildRequires, Provided
      <4> QED BY <1>2, <3>1, <3>3, <4>1, <4>2
    <3> QED BY <3>2, <3>3
  <2>2. CASE q # p
    <3>1. q \in DOMAIN packages /\ packages'[q] = packages[q]
      BY <1>2, <2>2
    <3>2. IF r \in drops[q] THEN r \in dropped
          ELSE CASE provides[r] = Sysroot -> r \in sysroot
                 [] provides[r] = Unknown -> r \in unresolvable
                 [] OTHER                 -> provides[r] \in packages[q]
      BY <3>1 DEF EveryNameIsReported
    <3> QED BY <1>2, <3>1, <3>2
  <2> QED BY <2>1, <2>2
<1> QED BY <1>4, <1>5, <1>8, <1>9, <1>10, <1>11 DEF p

LEMMA StepRoadmap ==
  ASSUME RoadmapInv, EveryNameIsReported, Next
  PROVE  RoadmapInv' /\ EveryNameIsReported'
<1>1. /\ queue' \in Seq(Entries) /\ visited' \subseteq Packages
      /\ Len(queue') <= 1 + Cardinality(Packages) * Cardinality(Reqs)
      /\ \A i \in DOMAIN queue' : queue'[i].depth <= Cardinality(visited')
      /\ Len(queue') <= 1 + Cardinality(visited') * Cardinality(Reqs)
  BY StepQueue
<1>2. InputOK'
  BY InputStays DEF RoadmapInv, InputOK, input
<1>3. TypeOK /\ Bounded
  BY DEF RoadmapInv
<1>4. DOMAIN packages \subseteq visited
  BY <1>3 DEF TypeOK
<1>5. CASE Resolve
  <2>1. visited' = visited \cup {Take.pkg}
    BY <1>5 DEF Resolve, Visited
  <2>2. DOMAIN packages' \subseteq visited'
    BY <1>4, <1>5, <2>1, StepResult
  <2>3. TypeOK'
    BY <1>1, <1>5, <2>2, StepResult DEF TypeOK, Entries
  <2>4. Bounded' /\ EveryNameIsReported'
    BY <1>1, <1>5, StepResult DEF Bounded
  <2> QED BY <1>2, <2>3, <2>4 DEF RoadmapInv
<1>6. CASE LeaveOut \/ Skip
  <2>1. /\ UNCHANGED <<input, edges, packages, names>>
        /\ visited \subseteq visited'
    BY <1>6 DEF LeaveOut, Skip, Visited
  <2>2. TypeOK'
    BY <1>1, <1>3, <1>4, <2>1 DEF TypeOK, Entries, names
  <2>3. Bounded'
    BY <1>1, <1>3, <2>1 DEF Bounded
  <2>4. EveryNameIsReported'
    BY <2>1 DEF EveryNameIsReported, input, names
  <2> QED BY <1>2, <2>2, <2>3, <2>4 DEF RoadmapInv
<1> QED BY <1>5, <1>6 DEF Next

-----------------------------------------------------------------------------
(* The search by levels                                                    *)

LEMMA NearStays ==
  ASSUME UNCHANGED input
  PROVE  Near' = Near /\ Limit' = Limit /\ \A p : After(p)' = After(p)
BY DEF Near, Limit, After, Kept, Follow, input

(* Nothing waits nearer than the head of the queue, and nothing much       *)
(* further.                                                                *)
LEMMA HeadIsNearest ==
  ASSUME RoadmapInv, LevelByLevel, queue # << >>
  PROVE  /\ Take.depth \in Nat
         /\ \A i \in DOMAIN queue : /\ queue[i].depth \in Nat /\ Take.depth <= queue[i].depth
                                    /\ queue[i].depth <= Take.depth + 1
<1>1. /\ queue \in Seq(Entries) /\ Take = queue[1] /\ Take \in Entries /\ 1 \in DOMAIN queue
      /\ DOMAIN queue = 1..Len(queue)
  BY QueueParts DEF RoadmapInv
<1>2. \A i \in DOMAIN queue : queue[i] \in Entries
  BY <1>1
<1>3. \A i \in DOMAIN queue : 1 <= i
  BY <1>1
<1>4. \A e \in Entries : e.depth \in Nat
  BY CountsAreNat DEF Entries
<1> HIDE DEF Entries
<1>5. \A i \in DOMAIN queue : Take.depth <= queue[i].depth /\ queue[i].depth <= Take.depth + 1
  BY <1>1, <1>3 DEF LevelByLevel
<1> QED BY <1>1, <1>2, <1>4, <1>5

(* When the head of the queue is further away than n, everything within n  *)
(* steps was visited.                                                      *)
LEMMA VisitedByLevel ==
  ASSUME RoadmapInv, Search, NEW n \in Nat,
         queue # << >> => n < Take.depth,
         maxDepth = 0 \/ n <= maxDepth
  PROVE  Near[n] \subseteq visited
<1> DEFINE T == {k \in Nat : k <= n => Near[k] \subseteq visited}
<1>1. ASSUME NEW d, NEW k \in Nat, k <= n, Waits(d, k) PROVE FALSE
  <2>1. PICK i \in DOMAIN queue : queue[i].depth <= k
    BY <1>1 DEF Waits
  <2>2. queue # << >>
    BY <2>1
  <2>3. queue[i].depth \in Nat /\ Take.depth \in Nat /\ Take.depth <= queue[i].depth
    BY <2>2, HeadIsNearest DEF Search
  <2> QED BY <1>1, <2>1, <2>2, <2>3
<1>2. 0 \in T
  <2>1. Target \in visited
    BY <1>1 DEF Search, NearIsFound
  <2> QED BY <2>1, NearIs
<1>3. ASSUME NEW k \in Nat, k \in T PROVE k + 1 \in T
  <2> SUFFICES ASSUME k + 1 <= n PROVE Near[k + 1] \subseteq visited
    OBVIOUS
  <2>1. Near[k] \subseteq visited /\ k <= n /\ k + 1 \in Nat
    BY <1>3
  <2>2. ASSUME NEW p \in Near[k], NEW d \in After(p) PROVE d \in visited
    <3>1. p \in DOMAIN packages
      <4>1. SUFFICES ASSUME p \notin DOMAIN packages PROVE FALSE
        OBVIOUS
      <4>2. maxDepth > 0 /\ p \notin Near[maxDepth]
        BY <2>1, <4>1 DEF Search, NearIsFound
      <4>3. maxDepth \in Nat /\ k <= maxDepth
        BY <2>1, <4>2 DEF RoadmapInv, InputOK
      <4> QED BY <4>2, <4>3, NearGrows
    <3>2. d \in visited \/ Waits(d, k + 1)
      BY <3>1 DEF Search, NearIsFound
    <3> QED BY <1>1, <2>1, <3>2
  <2> QED BY <2>1, <2>2, NearIs
<1>4. Nat \subseteq T
  <2> HIDE DEF T
  <2> QED BY <1>2, <1>3, SetInduction
<1> QED BY <1>4

(* What waits still waits after a step, unless its turn has come.          *)
LEMMA WaitsStays ==
  ASSUME RoadmapInv, queue # << >>, NEW found \in Seq(Entries), queue' = Tail(queue) \o found
  PROVE  /\ \A d, n : Waits(d, n) => d = Take.pkg \/ Waits(d, n)'
         /\ \A i \in DOMAIN found : \A d, n : found[i].pkg = d /\ found[i].depth <= n => Waits(d, n)'
<1>0. TypeOK
  BY DEF RoadmapInv
<1>1. Take = queue[1]
  BY <1>0, QueueParts
<1>2. /\ \A i \in DOMAIN queue : i = 1 \/ (i - 1 \in DOMAIN queue' /\ queue'[i - 1] = queue[i])
      /\ \A i \in DOMAIN found : /\ (Len(queue) - 1) + i \in DOMAIN queue'
                                 /\ queue'[(Len(queue) - 1) + i] = found[i]
  BY <1>0, QueueAfter
<1>3. ASSUME NEW d, NEW n, Waits(d, n) PROVE d = Take.pkg \/ Waits(d, n)'
  <2>1. PICK i \in DOMAIN queue : queue[i].pkg = d /\ queue[i].depth <= n
    BY <1>3 DEF Waits
  <2>2. i = 1 \/ (i - 1 \in DOMAIN queue' /\ queue'[i - 1] = queue[i])
    BY <1>2
  <2> QED BY <1>1, <2>1, <2>2 DEF Waits
<1>4. ASSUME NEW i \in DOMAIN found, NEW d, NEW n, found[i].pkg = d, found[i].depth <= n
      PROVE  Waits(d, n)'
  BY <1>2, <1>4 DEF Waits
<1> QED BY <1>3, <1>4

(* One level, and what was added at its end is the next.                   *)
LEMMA LevelsStay ==
  ASSUME RoadmapInv, LevelByLevel, FoundIsNear, queue # << >>, NEW found \in Seq(Entries),
         queue' = Tail(queue) \o found, UNCHANGED input,
         \A i \in DOMAIN found : /\ found[i].depth = Take.depth + 1
                                 /\ found[i].pkg \in After(Take.pkg)
  PROVE  LevelByLevel' /\ \A i \in DOMAIN queue' : queue'[i].pkg \in Near[queue'[i].depth]
<1> DEFINE k == Len(queue) - 1
<1>0. TypeOK
  BY DEF RoadmapInv
<1>1. /\ k \in Nat /\ DOMAIN queue' = 1..Len(queue') /\ queue' \in Seq(Entries)
      /\ \A i \in DOMAIN queue' : \/ i \in 1..k /\ i + 1 \in DOMAIN queue /\ queue'[i] = queue[i + 1]
                                  \/ i > k /\ i - k \in DOMAIN found /\ queue'[i] = found[i - k]
  BY <1>0, QueueAfter
<1>2. /\ Take.depth \in Nat
      /\ \A i \in DOMAIN queue : /\ queue[i].depth \in Nat /\ Take.depth <= queue[i].depth
                                 /\ queue[i].depth <= Take.depth + 1
  BY HeadIsNearest
<1> HIDE DEF k
<1>3. ASSUME NEW i \in DOMAIN queue', NEW j \in DOMAIN queue', i <= j
      PROVE  queue'[i].depth <= queue'[j].depth /\ queue'[j].depth <= queue'[i].depth + 1
  <2>0. i \in Nat /\ j \in Nat
    BY <1>1
  <2>1. CASE j \in 1..k
    <3>1. i \in 1..k
      BY <1>1, <1>3, <2>0, <2>1
    <3>2. /\ i + 1 \in DOMAIN queue /\ queue'[i] = queue[i + 1]
          /\ j + 1 \in DOMAIN queue /\ queue'[j] = queue[j + 1] /\ i + 1 <= j + 1
      BY <1>1, <1>3, <2>0, <2>1, <3>1
    <3> QED BY <3>2 DEF LevelByLevel
  <2>2. CASE j \notin 1..k
    <3>1. queue'[j].depth = Take.depth + 1
      BY <1>1, <2>2
    <3>2. \/ queue'[i].depth = Take.depth + 1
          \/ queue'[i].depth \in Nat /\ Take.depth <= queue'[i].depth
                                     /\ queue'[i].depth <= Take.depth + 1
      BY <1>1, <1>2
    <3>3. Take.depth \in Nat
      BY <1>2
    <3> DEFINE a == queue'[i].depth
               b == queue'[j].depth
               far == Take.depth
    <3> HIDE DEF a, b, far
    <3>4. a <= b /\ b <= a + 1
      BY ONLY <3>1, <3>2, <3>3 DEF a, b, far
    <3> QED BY <3>4 DEF a, b
  <2> QED BY <2>1, <2>2
<1>4. ASSUME NEW i \in DOMAIN queue' PROVE queue'[i].pkg \in Near[queue'[i].depth]
  <2>1. CASE i + 1 \in DOMAIN queue /\ queue'[i] = queue[i + 1]
    BY <2>1 DEF FoundIsNear
  <2>2. CASE i - k \in DOMAIN found /\ queue'[i] = found[i - k]
    <3>1. queue'[i].pkg \in After(Take.pkg) /\ queue'[i].depth = Take.depth + 1
      BY <2>2
    <3>2. Take.pkg \in Near[Take.depth]
      BY <1>0, QueueParts DEF FoundIsNear
    <3>3. Near[Take.depth + 1] = Near[Take.depth] \cup UNION {After(p) : p \in Near[Take.depth]}
      BY <1>2, NearIs
    <3>4. queue'[i].pkg \in Near[Take.depth + 1]
      BY <3>1, <3>2, <3>3
    <3> QED BY <3>1, <3>4
  <2> QED BY <1>1, <2>1, <2>2
<1> QED BY <1>3, <1>4 DEF LevelByLevel

LEMMA InitSearch == ASSUME Init PROVE Search
<1>1. queue = <<[pkg |-> Target, depth |-> 0]>> /\ visited = {} /\ DOMAIN packages = {}
  BY DEF Init
<1>2. DOMAIN queue = {1} /\ queue[1].pkg = Target /\ queue[1].depth = 0
  BY <1>1
<1>3. LevelByLevel /\ Waits(Target, 0)
  BY <1>2 DEF LevelByLevel, Waits
<1>4. FoundIsNear
  BY <1>1, <1>2, NearIs DEF FoundIsNear
<1>5. NearIsFound
  BY <1>1, <1>3 DEF NearIsFound
<1> QED BY <1>3, <1>4, <1>5 DEF Search

LEMMA StepSearch ==
  ASSUME RoadmapInv, Search, Next
  PROVE  Search'
<1> DEFINE p == Take.pkg
           far == Take.depth
<1>0. TypeOK /\ InputOK /\ LevelByLevel /\ FoundIsNear /\ NearIsFound /\ queue # << >>
  BY DEF RoadmapInv, Search, Next, Resolve, LeaveOut, Skip
<1>1. far \in Nat /\ p \in Packages /\ p \in Near[far] /\ far <= Cardinality(visited)
  <2>1. Take \in Entries /\ Take = queue[1] /\ 1 \in DOMAIN queue
    BY <1>0, QueueParts
  <2> QED BY <1>0, <2>1, HeadIsNearest DEF Entries, FoundIsNear, RoadmapInv, Bounded
<1>2. UNCHANGED input
  BY InputStays
<1>3. Near' = Near /\ Limit' = Limit /\ (\A q : After(q)' = After(q)) /\ maxDepth' = maxDepth
  BY <1>2, NearStays DEF input
<1>4. Limit \in Nat /\ maxDepth \in Nat
  BY <1>0, CountsAreNat DEF InputOK, Limit
<1>5. CASE Resolve
  <2> DEFINE found == Queued(p)
  <2>1. /\ p \in Packages \ visited /\ visited' = visited \cup {p} /\ queue' = Tail(queue) \o found
        /\ ~TooDeep /\ DOMAIN packages' = DOMAIN packages \cup {p}
    BY <1>1, <1>5 DEF Resolve, Visited, NewQueue
  <2>2. Cardinality(visited) + 1 <= Cardinality(Packages) /\ Cardinality(visited) \in Nat
        /\ Cardinality(Packages) \in Nat
    BY <1>0, <2>1, OneMoreVisited, CountsAreNat
  <2>3. far + 1 \in 0..Cardinality(Packages)
    BY <1>1, <2>2
  <2>4. /\ found \in Seq(Entries)
        /\ \A i \in DOMAIN found : found[i].depth = far + 1 /\ found[i].pkg \in After(p)
        /\ \A d \in After(p) \ Visited(p) : \E i \in DOMAIN found : found[i].pkg = d
    BY <1>0, <1>1, <2>3, QueuedIs
  <2>5. maxDepth = 0 \/ far <= maxDepth
    BY <1>1, <1>4, <2>1 DEF TooDeep
  <2>6. far <= Limit
    BY <1>1, <1>4, <2>3, <2>5 DEF Limit
  <2>7. Visited(p) = visited'
    BY <2>1 DEF Visited
  <2> HIDE DEF found
  <2>8. LevelByLevel' /\ \A i \in DOMAIN queue' : queue'[i].pkg \in Near[queue'[i].depth]
    BY <1>0, <1>2, <2>1, <2>4, LevelsStay
  <2>9. DOMAIN packages' \subseteq Near[Limit]
    <3>1. p \in Near[Limit]
      BY <1>1, <1>4, <2>6, NearGrows
    <3> QED BY <1>0, <2>1, <3>1 DEF FoundIsNear
  <2>10. /\ \A d, n : Waits(d, n) => d = p \/ Waits(d, n)'
         /\ \A i \in DOMAIN found : \A d, n : found[i].pkg = d /\ found[i].depth <= n => Waits(d, n)'
    <3>1. found \in Seq(Entries) /\ queue' = Tail(queue) \o found /\ queue # << >>
      BY <1>0, <2>1, <2>4
    <3> QED BY <3>1, WaitsStays
  <2>11. ASSUME NEW q \in DOMAIN packages', NEW n \in Nat, q \in Near[n], NEW d \in After(q)
         PROVE  d \in visited' \/ Waits(d, n + 1)'
    <3>1. CASE q \in DOMAIN packages
      <4>1. d \in visited \/ Waits(d, n + 1)
        BY <1>0, <2>11, <3>1 DEF NearIsFound
      <4> QED BY <2>1, <2>10, <4>1
    <3>2. CASE q = p
      <4>1. ~(n < far)
        <5>1. SUFFICES ASSUME n < far PROVE FALSE
          OBVIOUS
        <5>2. maxDepth = 0 \/ n <= maxDepth
          BY <1>1, <1>4, <2>5, <5>1
        <5>3. Near[n] \subseteq visited
          BY <5>1, <5>2, VisitedByLevel
        <5> QED BY <2>1, <2>11, <3>2, <5>3
      <4>2. far + 1 <= n + 1 /\ n + 1 \in Nat
        BY <1>1, <4>1
      <4>3. d \in visited' \/ \E i \in DOMAIN found : found[i].pkg = d
        BY <2>4, <2>7, <3>2
      <4>4. ASSUME NEW i \in DOMAIN found, found[i].pkg = d PROVE Waits(d, n + 1)'
        <5>1. found[i].depth <= n + 1
          BY <2>4, <4>2
        <5> QED BY <2>10, <4>2, <4>4, <5>1
      <4> QED BY <4>3, <4>4
    <3> QED BY <2>1, <3>1, <3>2
  <2>12. NearIsFound'
    <3>1. Target \in visited' \/ Waits(Target, 0)'
      BY <1>0, <2>1, <2>10 DEF NearIsFound
    <3>2. \A q \in visited' \ DOMAIN packages' : maxDepth > 0 /\ q \notin Near[maxDepth]
      BY <1>0, <2>1 DEF NearIsFound
    <3> QED BY <1>3, <2>11, <3>1, <3>2 DEF NearIsFound
  <2> QED BY <1>3, <2>8, <2>9, <2>12 DEF Search, FoundIsNear
<1>6. CASE LeaveOut \/ Skip
  <2>1. /\ visited \subseteq visited' /\ p \in visited' /\ visited' \subseteq visited \cup {p}
        /\ packages' = packages /\ queue' = Tail(queue)
    BY <1>6 DEF LeaveOut, Skip, Visited
  <2>2. /\ << >> \in Seq(Entries) /\ \A i \in DOMAIN << >> : FALSE
    OBVIOUS
  <2>3. queue' = Tail(queue) \o << >>
    <3>1. Tail(queue) \in Seq(Entries)
      BY <1>0, QueueParts
    <3> QED BY <2>1, <3>1
  <2>4. LevelByLevel' /\ \A i \in DOMAIN queue' : queue'[i].pkg \in Near[queue'[i].depth]
    BY <1>0, <1>2, <2>2, <2>3, LevelsStay
  <2>5. \A d, n : Waits(d, n) => d = p \/ Waits(d, n)'
    BY <1>0, <2>2, <2>3, WaitsStays
  <2>6. FoundIsNear'
    BY <1>0, <1>3, <2>1, <2>4 DEF FoundIsNear
  <2>7. ASSUME NEW q \in visited' \ DOMAIN packages'
        PROVE  maxDepth > 0 /\ q \notin Near[maxDepth]
    <3>1. CASE q \in visited
      BY <1>0, <2>1, <3>1 DEF NearIsFound
    <3>2. CASE q \notin visited
      <4>1. q = p /\ LeaveOut
        BY <1>6, <2>1, <3>2 DEF Skip
      <4>2. maxDepth > 0 /\ maxDepth < far
        BY <1>1, <1>4, <4>1 DEF LeaveOut, TooDeep
      <4>3. Near[maxDepth] \subseteq visited
        BY <1>4, <4>2, VisitedByLevel
      <4> QED BY <3>2, <4>2, <4>3
    <3> QED BY <3>1, <3>2
  <2>8. \A q \in DOMAIN packages', n \in Nat :
          q \in Near[n] => \A d \in After(q) : d \in visited' \/ Waits(d, n + 1)'
    BY <1>0, <2>1, <2>5 DEF NearIsFound
  <2>9. Target \in visited' \/ Waits(Target, 0)'
    BY <1>0, <2>1, <2>5 DEF NearIsFound
  <2>10. NearIsFound'
    BY <1>3, <2>7, <2>8, <2>9 DEF NearIsFound
  <2> QED BY <2>4, <2>6, <2>10 DEF Search
<1> QED BY <1>5, <1>6 DEF Next

(* The search ends with everything within the limit and nothing else.      *)
LEMMA SearchIsComplete == RoadmapInv /\ Search => GraphIsComplete
<1> SUFFICES ASSUME RoadmapInv, Search, queue = << >>
             PROVE  DOMAIN packages = Near[Limit]
  BY DEF GraphIsComplete, Done, Limit
<1>1. Limit \in Nat /\ (maxDepth = 0 \/ Limit <= maxDepth)
  BY CountsAreNat DEF RoadmapInv, InputOK, Limit
<1>2. Near[Limit] \subseteq visited
  BY <1>1, VisitedByLevel
<1>3. \A p \in visited \ DOMAIN packages : p \notin Near[Limit]
  <2>1. \A p \in visited \ DOMAIN packages : maxDepth > 0 /\ p \notin Near[maxDepth]
    BY DEF Search, NearIsFound
  <2>2. maxDepth > 0 => maxDepth = Limit
    BY DEF Limit
  <2> QED BY <2>1, <2>2
<1>4. DOMAIN packages \subseteq Near[Limit]
  BY DEF Search, FoundIsNear
<1> QED BY <1>2, <1>3, <1>4

-----------------------------------------------------------------------------
(* The sort's invariant                                                    *)

Seen    == DOMAIN index
OnStack == {stack[i] : i \in DOMAIN stack}
Found   == UNION {sccs[i] : i \in DOMAIN sccs}

(* An edge that the search has gone along.                                 *)
Explored(p, q) ==
  /\ q \in Order!Neighbors(p)
  /\ \A i \in DOMAIN callStack : callStack[i].node = p => q \notin callStack[i].todo

(* The list of edges has those of the report, and none that ends outside.  *)
EdgesOfPackages ==
  /\ \A p \in DOMAIN packages : \A d \in packages[p] : d # p => Order!Edge(d, p)
  /\ \A d, p \in Packages : Order!Edge(d, p) => d # p /\ p \in visited

Numbering ==
  /\ \A p \in Seen : index[p] < Cardinality(Seen)
  /\ \A p, q \in Seen : index[p] = index[q] => p = q

(* The stack has what was seen and is in no component, in its order.       *)
Stacked ==
  /\ \A i, j \in DOMAIN stack : i < j => index[stack[i]] < index[stack[j]]
  /\ OnStack \cap Found = {} /\ OnStack \cup Found = Seen

(* The calls are a path over packages on the stack.                        *)
CallsAreAPath ==
  /\ \A i \in DOMAIN callStack : /\ callStack[i].node \in OnStack
                                 /\ callStack[i].todo \subseteq Order!Neighbors(callStack[i].node)
  /\ \A i, j \in DOMAIN callStack : i < j => index[callStack[i].node] < index[callStack[j].node]
  /\ \A i \in DOMAIN callStack :
       i + 1 \in DOMAIN callStack => callStack[i + 1].node \in Order!Neighbors(callStack[i].node)

ExploredIsSeen == \A p \in Seen : \A q : Explored(p, q) => q \in Seen

(* A call reaches what was put on the stack after it, and everything on    *)
(* the stack reaches a call before it.                                     *)
CallsReach ==
  \A i \in DOMAIN callStack, p \in OnStack :
    index[callStack[i].node] <= index[p] => Order!Reaches(callStack[i].node, p)

ReachesACall ==
  \A p \in OnStack : \E i \in DOMAIN callStack :
    index[callStack[i].node] <= index[p] /\ Order!Reaches(p, callStack[i].node)

(* The low link of a call is the number of a package that it reaches, and  *)
(* no greater than those which the edges lead to from what was put on the  *)
(* stack between it and the next call.                                     *)
LowLinkIsReached ==
  \A i \in DOMAIN callStack : \E p \in OnStack :
    index[p] = lowlink[callStack[i].node] /\ Order!Reaches(callStack[i].node, p)

Between(i, p) ==
  /\ index[callStack[i].node] <= index[p]
  /\ i + 1 \in DOMAIN callStack => index[p] < index[callStack[i + 1].node]

LowLinkIsLow ==
  \A i \in DOMAIN callStack, p, q \in OnStack :
    Between(i, p) /\ Explored(p, q) => lowlink[callStack[i].node] <= index[q]

(* The components are apart and complete, and edges lead from a component  *)
(* to those found before it.                                               *)
Components ==
  /\ \A i \in DOMAIN sccs : sccs[i] # {}
  /\ \A i, j \in DOMAIN sccs : i # j => sccs[i] \cap sccs[j] = {}
  /\ \A i \in DOMAIN sccs : \A p \in sccs[i] : sccs[i] = {q \in visited : Order!Together(p, q)}
  /\ \A i \in DOMAIN sccs : \A p \in sccs[i] : \A q \in Order!Neighbors(p) :
       \E j \in DOMAIN sccs : j <= i /\ q \in sccs[j]

NotSorted ==
  /\ uncounted = {} /\ condensedAdj = {} /\ inDegree = << >> /\ ready = {} /\ sccOrder = << >>
  /\ pos = 1 /\ remaining = {} /\ order = << >>

Tarjan ==
  /\ Numbering /\ Stacked /\ CallsAreAPath /\ ExploredIsSeen
  /\ CallsReach /\ ReachesACall /\ LowLinkIsReached /\ LowLinkIsLow
  /\ Components /\ NotSorted

-----------------------------------------------------------------------------
(* Reachability                                                            *)

(* The sort counts as the rest does.                                       *)
LEMMA CountsTheSame == \A S : Order!Cardinality(S) = Cardinality(S)
BY DEF Order!Cardinality, Cardinality

LEMMA NeighborsAre == \A p : Order!Neighbors(p) \subseteq visited
BY DEF Order!Neighbors

LEMMA ReachesItself == \A p : Order!Reaches(p, p)
BY DEF Order!Reaches

LEMMA ReachesNext == \A p : \A q \in Order!Neighbors(p) : Order!Reaches(p, q)
BY DEF Order!Reaches, Order!Closed

LEMMA ReachesOn ==
  \A p, q, r : Order!Reaches(p, q) /\ Order!Reaches(q, r) => Order!Reaches(p, r)
BY DEF Order!Reaches

LEMMA GraphStays ==
  ASSUME UNCHANGED <<visited, edges>>
  PROVE  /\ \A p : Order!Neighbors(p)' = Order!Neighbors(p)
         /\ \A p, q : Order!Reaches(p, q)' <=> Order!Reaches(p, q)
         /\ \A p, q : Order!Together(p, q)' <=> Order!Together(p, q)
         /\ \A p, q : Order!Edge(p, q)' <=> Order!Edge(p, q)
BY DEF Order!Neighbors, Order!Edge, Order!Reaches, Order!Closed, Order!Together

-----------------------------------------------------------------------------
(* Tarjan's algorithm                                                      *)

(* A call: a package and the neighbours it has still to visit.             *)
CallOf == [node : visited, todo : SUBSET visited]

LEMMA TarjanTypes ==
  ASSUME Order!TypeOK
  PROVE  /\ Seen \subseteq visited /\ DOMAIN lowlink = Seen
         /\ \A p \in Seen : index[p] \in Nat /\ lowlink[p] \in Nat /\ lowlink[p] <= index[p]
         /\ Len(stack) \in Nat /\ DOMAIN stack = 1..Len(stack)
         /\ \A i \in DOMAIN stack : stack[i] \in visited
         /\ Len(callStack) \in Nat /\ DOMAIN callStack = 1..Len(callStack)
         /\ \A i \in DOMAIN callStack : callStack[i].node \in visited /\ callStack[i].todo \subseteq visited
         /\ Len(sccs) \in Nat /\ DOMAIN sccs = 1..Len(sccs)
         /\ \A i \in DOMAIN sccs : sccs[i] \subseteq visited
<1>1. /\ Seen \subseteq visited /\ DOMAIN lowlink = Seen
      /\ \A p \in Seen : index[p] \in Nat /\ lowlink[p] \in 0..index[p]
  BY DEF Order!TypeOK, Seen
<1>2. stack \in Seq(visited) /\ sccs \in Seq(SUBSET visited)
  BY DEF Order!TypeOK
<1>3. callStack \in Seq(CallOf)
  BY DEF Order!TypeOK, CallOf
<1>4. \A p \in Seen : lowlink[p] \in Nat /\ lowlink[p] <= index[p]
  BY <1>1
<1>5. Len(stack) \in Nat /\ DOMAIN stack = 1..Len(stack) /\ \A i \in DOMAIN stack : stack[i] \in visited
  BY <1>2
<1>6. /\ Len(sccs) \in Nat /\ DOMAIN sccs = 1..Len(sccs)
      /\ \A i \in DOMAIN sccs : sccs[i] \in SUBSET visited
  BY <1>2
<1>7. /\ Len(callStack) \in Nat /\ DOMAIN callStack = 1..Len(callStack)
      /\ \A i \in DOMAIN callStack : callStack[i] \in CallOf
  BY <1>3
<1>8. \A i \in DOMAIN callStack : callStack[i].node \in visited /\ callStack[i].todo \subseteq visited
  BY <1>7 DEF CallOf
<1> QED BY <1>1, <1>4, <1>5, <1>6, <1>7, <1>8

(* What Root and Descend do: a package gets its numbers, goes on the stack *)
(* and is called, by the last call if there is one.                        *)
Enters(v) ==
  /\ v \in visited \ Seen /\ UNCHANGED <<visited, edges, sccs>>
  /\ index' = Order!Numbered(index, v) /\ lowlink' = Order!Numbered(lowlink, v)
  /\ Len(stack') = Len(stack) + 1 /\ DOMAIN stack' = 1..(Len(stack) + 1)
  /\ stack'[Len(stack) + 1] = v /\ \A i \in DOMAIN stack : stack'[i] = stack[i]
  /\ Len(callStack') = Len(callStack) + 1 /\ DOMAIN callStack' = 1..(Len(callStack) + 1)
  /\ callStack'[Len(callStack) + 1] = [node |-> v, todo |-> Order!Neighbors(v)]
  /\ \A i \in DOMAIN callStack :
       /\ callStack'[i].node = callStack[i].node
       /\ i # Len(callStack) => callStack'[i].todo = callStack[i].todo
       /\ i = Len(callStack) => /\ v \in callStack[i].todo
                                /\ callStack'[i].todo = callStack[i].todo \ {v}

LEMMA RootEnters ==
  ASSUME TypeOK, Order!TypeOK, Order!Root
  PROVE  \E v : Enters(v) /\ stack' = Append(stack, v)
                /\ callStack' \in Seq(CallOf)
<1> DEFINE v == Order!Min(visited \ DOMAIN index)
           call == [node |-> v, todo |-> Order!Neighbors(v)]
<1>1. visited \ DOMAIN index # {} /\ visited \ DOMAIN index \subseteq Nat
  BY ReportAssumption DEF Order!Root, Order!TypeOK, TypeOK
<1>2. v \in visited \ DOMAIN index
  <2>1. \E n \in visited \ DOMAIN index : \A m \in visited \ DOMAIN index : n <= m
    BY <1>1, SmallestMember
  <2> QED BY <2>1 DEF Order!Min
<1>3. /\ UNCHANGED <<visited, edges, sccs>> /\ callStack = << >>
      /\ index' = Order!Numbered(index, v) /\ lowlink' = Order!Numbered(lowlink, v)
      /\ stack' = Append(stack, v) /\ callStack' = Append(<< >>, call)
  BY DEF Order!Root, Order!Enter, Order!input
<1> HIDE DEF v
<1>4. call \in CallOf
  BY <1>2, NeighborsAre DEF CallOf
<1> HIDE DEF call
<1>5. stack \in Seq(visited)
  BY DEF Order!TypeOK
<1>6. /\ Len(stack') = Len(stack) + 1 /\ DOMAIN stack' = 1..(Len(stack) + 1)
      /\ stack'[Len(stack) + 1] = v /\ \A i \in DOMAIN stack : stack'[i] = stack[i]
  BY <1>2, <1>3, <1>5
<1>7. callStack' = <<call>> /\ callStack' \in Seq(CallOf)
  BY <1>3, <1>4
<1>8. /\ Len(callStack) = 0 /\ DOMAIN callStack = {} /\ Len(callStack') = 1
      /\ DOMAIN callStack' = 1..1 /\ callStack'[1] = call
  BY <1>3, <1>7
<1>9. Enters(v)
  BY <1>2, <1>3, <1>6, <1>8 DEF Enters, Seen, call
<1> QED BY <1>3, <1>7, <1>9

LEMMA CallIs ==
  ASSUME NEW c \in CallOf, NEW t \in SUBSET visited
  PROVE  [c EXCEPT !.todo = t] \in CallOf /\ [c EXCEPT !.todo = t] = [node |-> c.node, todo |-> t]
BY DEF CallOf

(* The last call has one neighbour less to visit.                          *)
LEMMA OneLess ==
  ASSUME Order!TypeOK, callStack # << >>, NEW v
  PROVE  LET m == Len(callStack)
             calls == [callStack EXCEPT ![m].todo = @ \ {v}]
         IN /\ m \in DOMAIN callStack /\ Order!Top = callStack[m]
            /\ calls \in Seq(CallOf) /\ Len(calls) = m /\ DOMAIN calls = 1..m
            /\ \A i \in 1..m : /\ calls[i].node = callStack[i].node
                               /\ i # m => calls[i].todo = callStack[i].todo
                               /\ i = m => calls[i].todo = callStack[i].todo \ {v}
<1> DEFINE m == Len(callStack)
           calls == [callStack EXCEPT ![m].todo = @ \ {v}]
           todo == callStack[m].todo \ {v}
           last == [callStack[m] EXCEPT !.todo = todo]
<1>1. callStack \in Seq(CallOf)
  BY DEF Order!TypeOK, CallOf
<1>2. m \in Nat \ {0} /\ DOMAIN callStack = 1..m /\ m \in 1..m /\ callStack[m] \in CallOf
  BY <1>1
<1>3. Order!Top = callStack[m]
  BY DEF Order!Top, Order!Last
<1>4. todo \in SUBSET visited
  BY <1>2 DEF CallOf
<1>5. calls = [callStack EXCEPT ![m] = last]
  OBVIOUS
<1>6. last \in CallOf /\ last = [node |-> callStack[m].node, todo |-> todo]
  <2> HIDE DEF todo
  <2> QED BY <1>2, <1>4, CallIs
<1> HIDE DEF last, calls
<1>7. /\ calls \in Seq(CallOf) /\ Len(calls) = m
      /\ \A i \in 1..m : calls[i] = IF i = m THEN last ELSE callStack[i]
  <2>1. /\ [callStack EXCEPT ![m] = last] \in Seq(CallOf)
        /\ Len([callStack EXCEPT ![m] = last]) = Len(callStack)
        /\ \A i \in 1..Len(callStack) :
             [callStack EXCEPT ![m] = last][i] = IF i = m THEN last ELSE callStack[i]
    BY <1>1, <1>2, <1>6, ExceptSeq
  <2> QED BY <1>5, <2>1
<1>8. DOMAIN calls = 1..m
  BY <1>7
<1>9. \A i \in 1..m : /\ calls[i].node = callStack[i].node
                      /\ i # m => calls[i].todo = callStack[i].todo
                      /\ i = m => calls[i].todo = todo
  BY <1>6, <1>7
<1> QED BY <1>2, <1>3, <1>7, <1>8, <1>9 DEF calls

LEMMA DescendEnters ==
  ASSUME TypeOK, Order!TypeOK, Order!Descend
  PROVE  \E v : Enters(v) /\ stack' = Append(stack, v) /\ callStack' \in Seq(CallOf)
<1> DEFINE m == Len(callStack)
<1>1. PICK v \in Order!Top.todo :
        ~Order!Seen(v) /\ Order!Enter(v, [callStack EXCEPT ![Len(callStack)].todo = @ \ {v}])
  BY DEF Order!Descend
<1> DEFINE call == [node |-> v, todo |-> Order!Neighbors(v)]
           calls == [callStack EXCEPT ![m].todo = @ \ {v}]
<1>2. /\ UNCHANGED <<visited, edges, sccs>> /\ callStack # << >>
      /\ index' = Order!Numbered(index, v) /\ lowlink' = Order!Numbered(lowlink, v)
      /\ stack' = Append(stack, v) /\ callStack' = Append(calls, call)
  BY <1>1 DEF Order!Descend, Order!Enter, Order!input
<1>3. stack \in Seq(visited) /\ callStack \in Seq(CallOf)
  BY DEF Order!TypeOK, CallOf
<1>4. /\ m \in DOMAIN callStack /\ Order!Top = callStack[m]
      /\ calls \in Seq(CallOf) /\ Len(calls) = m /\ DOMAIN calls = 1..m
      /\ \A i \in 1..m : /\ calls[i].node = callStack[i].node
                         /\ i # m => calls[i].todo = callStack[i].todo
                         /\ i = m => calls[i].todo = callStack[i].todo \ {v}
  BY <1>2, OneLess
<1>5. DOMAIN callStack = 1..m /\ callStack[m] \in CallOf
  BY <1>3, <1>4
<1>6. v \in callStack[m].todo /\ v \in visited \ Seen
  BY <1>1, <1>4, <1>5 DEF CallOf, Order!Seen, Seen
<1>7. call \in CallOf
  BY <1>6, NeighborsAre DEF CallOf
<1> HIDE DEF calls, call, m
<1>8. /\ callStack' \in Seq(CallOf) /\ Len(callStack') = m + 1 /\ DOMAIN callStack' = 1..(m + 1)
      /\ callStack'[m + 1] = call /\ \A i \in 1..m : callStack'[i] = calls[i]
  <2>1. /\ callStack' \in Seq(CallOf) /\ Len(callStack') = m + 1
        /\ callStack'[m + 1] = call /\ \A i \in 1..m : callStack'[i] = calls[i]
    BY <1>2, <1>4, <1>7, AppendProperties
  <2> QED BY <2>1
<1>9. /\ Len(stack') = Len(stack) + 1 /\ DOMAIN stack' = 1..(Len(stack) + 1)
      /\ stack'[Len(stack) + 1] = v /\ \A i \in DOMAIN stack : stack'[i] = stack[i]
  BY <1>2, <1>3, <1>6
<1>10. \A i \in 1..m : /\ callStack'[i].node = callStack[i].node
                       /\ i # m => callStack'[i].todo = callStack[i].todo
                       /\ i = m => callStack'[i].todo = callStack[i].todo \ {v}
  BY <1>4, <1>8
<1>11. Enters(v)
  BY <1>2, <1>5, <1>6, <1>8, <1>9, <1>10 DEF Enters, call, m
<1> QED BY <1>2, <1>8, <1>11

later == <<uncounted, condensedAdj, inDegree, ready, sccOrder, pos, remaining, order>>

LEMMA NotSortedStays == NotSorted /\ UNCHANGED later => NotSorted'
BY DEF NotSorted, later

LEMMA ComponentsStay ==
  ASSUME Components, UNCHANGED <<visited, edges, sccs>> PROVE Components'
<1>1. /\ \A p : Order!Neighbors(p)' = Order!Neighbors(p)
      /\ \A p, q : Order!Together(p, q)' <=> Order!Together(p, q)
  BY GraphStays
<1>2. \A p : {q \in visited : Order!Together(p, q)'} = {q \in visited : Order!Together(p, q)}
  BY <1>1
<1> QED BY <1>1, <1>2 DEF Components

(* A package that enters has the greatest number, and the edges that count *)
(* as explored are those before and the one that led to it.                *)
LEMMA EntersIs ==
  ASSUME TypeOK, Order!TypeOK, Tarjan, NEW v, Enters(v)
  PROVE  LET m == Len(callStack)
             c == Cardinality(Seen)
         IN /\ c \in Nat /\ Seen' = Seen \cup {v} /\ Cardinality(Seen') = c + 1 /\ v \notin Seen
            /\ index'[v] = c /\ lowlink'[v] = c
            /\ \A p \in Seen : index'[p] = index[p] /\ lowlink'[p] = lowlink[p] /\ index[p] < c
            /\ OnStack' = OnStack \cup {v} /\ Found' = Found /\ OnStack \subseteq Seen
            /\ m \in Nat /\ DOMAIN callStack = 1..m /\ DOMAIN callStack' = 1..(m + 1)
            /\ callStack'[m + 1].node = v
            /\ \A i \in 1..m : callStack'[i].node = callStack[i].node /\ callStack[i].node \in OnStack
            /\ \A q : ~Explored(v, q)'
            /\ \A p \in Seen : \A q : Explored(p, q)' =>
                 Explored(p, q) \/ (m \in 1..m /\ p = callStack[m].node /\ q = v)
<1> DEFINE m == Len(callStack)
           c == Cardinality(Seen)
<1>1. /\ v \in visited \ Seen /\ UNCHANGED <<visited, edges, sccs>>
      /\ index' = Order!Numbered(index, v) /\ lowlink' = Order!Numbered(lowlink, v)
  BY DEF Enters
<1>2. /\ Seen \subseteq visited /\ DOMAIN lowlink = Seen
      /\ m \in Nat /\ DOMAIN callStack = 1..m /\ DOMAIN stack = 1..Len(stack) /\ Len(stack) \in Nat
  BY TarjanTypes
<1>3. IsFiniteSet(Seen)
  BY <1>2, RoadmapAssumption, FS_Subset DEF TypeOK
<1>4. c \in Nat /\ Cardinality(Seen \cup {v}) = c + 1
  BY <1>1, <1>3, FS_AddElement, FS_CardinalityType
<1>5. /\ Seen' = Seen \cup {v} /\ index'[v] = c /\ lowlink'[v] = c
      /\ \A p \in Seen : index'[p] = index[p] /\ lowlink'[p] = lowlink[p]
  BY <1>1, <1>2, CountsTheSame DEF Seen, Order!Numbered
<1>6. \A p \in Seen : index[p] < c
  BY DEF Tarjan, Numbering
<1>7. OnStack' = OnStack \cup {v}
  <2>1. /\ DOMAIN stack' = 1..(Len(stack) + 1) /\ stack'[Len(stack) + 1] = v
        /\ \A i \in 1..Len(stack) : stack'[i] = stack[i]
    BY <1>2 DEF Enters
  <2>2. \A i : i \in 1..(Len(stack) + 1) <=> i \in 1..Len(stack) \/ i = Len(stack) + 1
    BY <1>2
  <2> QED BY <1>2, <2>1, <2>2 DEF OnStack
<1>8. Found' = Found
  BY <1>1 DEF Found
<1>9. OnStack \subseteq Seen
  BY DEF Tarjan, Stacked
<1>10. /\ DOMAIN callStack' = 1..(m + 1) /\ callStack'[m + 1] = [node |-> v, todo |-> Order!Neighbors(v)]
       /\ \A i \in 1..m : /\ callStack'[i].node = callStack[i].node
                          /\ i # m => callStack'[i].todo = callStack[i].todo
                          /\ i = m => /\ v \in callStack[i].todo
                                      /\ callStack'[i].todo = callStack[i].todo \ {v}
  BY <1>2 DEF Enters
<1>11. callStack'[m + 1].node = v /\ callStack'[m + 1].todo = Order!Neighbors(v)
  BY <1>10
<1>12. \A i \in 1..m : callStack[i].node \in OnStack
  BY <1>2 DEF Tarjan, CallsAreAPath
<1>13. \A p : Order!Neighbors(p)' = Order!Neighbors(p)
  BY <1>1, GraphStays
<1>14. \A i : i \in 1..(m + 1) <=> i \in 1..m \/ i = m + 1
  BY <1>2
<1> HIDE DEF m, c
<1>15. \A q : ~Explored(v, q)'
  BY <1>10, <1>11, <1>13, <1>14 DEF Explored
<1>16. ASSUME NEW p \in Seen, NEW q, Explored(p, q)'
       PROVE  Explored(p, q) \/ (m \in 1..m /\ p = callStack[m].node /\ q = v)
  <2>1. q \in Order!Neighbors(p) /\ \A i \in 1..m : callStack[i].node = p => q \notin callStack'[i].todo
    BY <1>10, <1>13, <1>14, <1>16 DEF Explored
  <2>2. ASSUME NEW i \in 1..m, callStack[i].node = p, q \in callStack[i].todo
        PROVE  m \in 1..m /\ p = callStack[m].node /\ q = v
    BY <1>10, <2>1, <2>2
  <2> QED BY <1>2, <2>1, <2>2 DEF Explored, m
<1> QED BY <1>1, <1>2, <1>4, <1>5, <1>6, <1>7, <1>8, <1>9, <1>10, <1>11, <1>12, <1>15, <1>16 DEF m, c

LEMMA EnterKeeps ==
  ASSUME TypeOK, Order!TypeOK, Tarjan, NEW v, Enters(v), UNCHANGED later
  PROVE  Tarjan'
<1> DEFINE m == Len(callStack)
           c == Cardinality(Seen)
           node(i) == callStack[i].node
<1>1. /\ c \in Nat /\ Seen' = Seen \cup {v} /\ Cardinality(Seen') = c + 1 /\ v \notin Seen
      /\ index'[v] = c /\ lowlink'[v] = c
      /\ \A p \in Seen : index'[p] = index[p] /\ lowlink'[p] = lowlink[p] /\ index[p] < c
      /\ OnStack' = OnStack \cup {v} /\ Found' = Found /\ OnStack \subseteq Seen
      /\ m \in Nat /\ DOMAIN callStack = 1..m /\ DOMAIN callStack' = 1..(m + 1)
      /\ callStack'[m + 1].node = v
      /\ \A i \in 1..m : callStack'[i].node = node(i) /\ node(i) \in OnStack
      /\ \A q : ~Explored(v, q)'
      /\ \A p \in Seen : \A q : Explored(p, q)' =>
           Explored(p, q) \/ (m \in 1..m /\ p = node(m) /\ q = v)
  BY EntersIs
<1>2. \A p \in Seen : index[p] \in Nat /\ lowlink[p] \in Nat /\ lowlink[p] <= index[p]
  BY TarjanTypes
<1>3. /\ \A p : Order!Neighbors(p)' = Order!Neighbors(p)
      /\ \A p, q : Order!Reaches(p, q)' <=> Order!Reaches(p, q)
      /\ UNCHANGED <<visited, edges, sccs>>
  BY GraphStays DEF Enters
<1>4. /\ Numbering /\ Stacked /\ CallsAreAPath /\ ExploredIsSeen
      /\ CallsReach /\ ReachesACall /\ LowLinkIsReached /\ LowLinkIsLow
      /\ Components /\ NotSorted
  BY DEF Tarjan
<1>5. m > 0 => /\ v \in Order!Neighbors(node(m)) /\ m \in 1..m
  <2>1. m > 0 => v \in callStack[m].todo /\ m \in 1..m
    BY <1>1 DEF Enters
  <2> QED BY <1>1, <1>4, <2>1 DEF CallsAreAPath
<1>6. \A i : i \in 1..(m + 1) <=> i \in 1..m \/ i = m + 1
  BY <1>1
<1>7. \A i \in 1..m : index[node(i)] \in Nat /\ node(i) \in Seen
  BY <1>1, <1>2
<1> HIDE DEF m, c, node
<1>8. Numbering'
  <2>1. \A p \in Seen : index'[p] < c + 1
    BY <1>1, <1>2
  <2> QED BY <1>1, <1>2, <1>4, <2>1 DEF Numbering
<1>9. Stacked'
  <2>1. /\ Len(stack) \in Nat /\ DOMAIN stack = 1..Len(stack) /\ DOMAIN stack' = 1..(Len(stack) + 1)
        /\ stack'[Len(stack) + 1] = v /\ \A i \in DOMAIN stack : stack'[i] = stack[i]
    BY TarjanTypes DEF Enters
  <2>2. \A i \in DOMAIN stack : stack[i] \in Seen
    BY <1>1 DEF OnStack
  <2>3. ASSUME NEW i \in DOMAIN stack', NEW j \in DOMAIN stack', i < j
        PROVE  index'[stack'[i]] < index'[stack'[j]]
    <3>1. i \in DOMAIN stack
      BY <2>1, <2>3
    <3>2. CASE j \in DOMAIN stack
      <4>1. stack'[i] = stack[i] /\ stack'[j] = stack[j] /\ index[stack[i]] < index[stack[j]]
        BY <1>4, <2>1, <2>3, <3>1, <3>2 DEF Stacked
      <4> QED BY <1>1, <2>2, <3>1, <3>2, <4>1
    <3>3. CASE j = Len(stack) + 1
      BY <1>1, <2>1, <2>2, <3>1, <3>3
    <3> QED BY <2>1, <3>2, <3>3
  <2>4. OnStack' \cap Found' = {} /\ OnStack' \cup Found' = Seen'
    BY <1>1, <1>4 DEF Stacked
  <2> QED BY <2>3, <2>4 DEF Stacked
<1>10. CallsAreAPath'
  <2>1. ASSUME NEW i \in 1..(m + 1)
        PROVE  /\ callStack'[i].node \in OnStack'
               /\ callStack'[i].todo \subseteq Order!Neighbors(callStack'[i].node)
    <3>1. CASE i = m + 1
      <4>1. callStack'[i].todo = Order!Neighbors(v) /\ callStack'[i].node = v
        BY <1>1, <3>1 DEF Enters, m
      <4> QED BY <1>1, <4>1
    <3>2. CASE i \in 1..m
      <4>1. callStack'[i].todo \subseteq callStack[i].todo
        BY <1>1, <3>2 DEF Enters
      <4>2. callStack'[i].node = node(i) /\ node(i) \in OnStack /\ callStack[i].todo \subseteq Order!Neighbors(node(i))
        BY <1>1, <1>4, <3>2 DEF CallsAreAPath, node
      <4> QED BY <1>1, <4>1, <4>2
    <3> QED BY <1>6, <3>1, <3>2
  <2>2. ASSUME NEW i \in 1..(m + 1), NEW j \in 1..(m + 1), i < j
        PROVE  index'[callStack'[i].node] < index'[callStack'[j].node]
    <3>1. i \in 1..m
      BY <1>1, <2>2
    <3>2. CASE j = m + 1
      BY <1>1, <1>7, <3>1, <3>2
    <3>3. CASE j \in 1..m
      <4>1. index[node(i)] < index[node(j)]
        BY <1>1, <1>4, <2>2, <3>1, <3>3 DEF CallsAreAPath, node
      <4> QED BY <1>1, <1>7, <3>1, <3>3, <4>1
    <3> QED BY <1>6, <3>2, <3>3
  <2>3. ASSUME NEW i \in 1..(m + 1), i + 1 \in 1..(m + 1)
        PROVE  callStack'[i + 1].node \in Order!Neighbors(callStack'[i].node)
    <3>1. i \in 1..m
      BY <1>1, <2>3
    <3>2. CASE i = m
      <4>1. v \in Order!Neighbors(node(m))
        BY <1>1, <1>5, <3>1, <3>2
      <4> QED BY <1>1, <3>1, <3>2, <4>1
    <3>3. CASE i # m
      <4>1. i + 1 \in 1..m
        BY <1>1, <3>1, <3>3
      <4>2. node(i + 1) \in Order!Neighbors(node(i))
        BY <1>1, <1>4, <3>1, <4>1 DEF CallsAreAPath, node
      <4> QED BY <1>1, <3>1, <4>1, <4>2
    <3> QED BY <3>2, <3>3
  <2> QED BY <1>1, <1>3, <2>1, <2>2, <2>3 DEF CallsAreAPath
<1>11. ExploredIsSeen'
  BY <1>1, <1>4 DEF ExploredIsSeen
<1>12. CallsReach'
  <2> SUFFICES ASSUME NEW i \in 1..(m + 1), NEW p \in OnStack \cup {v},
                      index'[callStack'[i].node] <= index'[p]
               PROVE  Order!Reaches(callStack'[i].node, p)
    BY <1>1, <1>3 DEF CallsReach
  <2>1. CASE i = m + 1
    <3>1. p = v
      BY <1>1, <1>2, <2>1
    <3> QED BY <1>1, <2>1, <3>1, ReachesItself
  <2>2. CASE i \in 1..m /\ p = v
    <3>1. m > 0 /\ m \in 1..m
      BY <1>1, <2>2
    <3>2. i = m \/ index[node(i)] < index[node(m)]
      BY SMTT(30), <1>1, <1>4, <2>2, <3>1 DEF CallsAreAPath, node
    <3>3. index[node(i)] <= index[node(m)]
      BY <1>7, <2>2, <3>1, <3>2
    <3>4. Order!Reaches(node(i), node(m))
      BY <1>1, <1>4, <2>2, <3>1, <3>3 DEF CallsReach, node
    <3>5. Order!Reaches(node(m), v)
      BY <1>5, <3>1, ReachesNext
    <3> QED BY <1>1, <2>2, <3>4, <3>5, ReachesOn
  <2>3. CASE i \in 1..m /\ p # v
    <3>1. p \in OnStack /\ callStack'[i].node = node(i) /\ index[node(i)] <= index[p]
      BY <1>1, <2>3
    <3> QED BY <1>1, <1>4, <2>3, <3>1 DEF CallsReach, node
  <2> QED BY <1>6, <2>1, <2>2, <2>3
<1>13. ReachesACall'
  <2> SUFFICES ASSUME NEW p \in OnStack \cup {v}
               PROVE  \E i \in 1..(m + 1) : /\ index'[callStack'[i].node] <= index'[p]
                                            /\ Order!Reaches(p, callStack'[i].node)
    BY <1>1, <1>3 DEF ReachesACall
  <2>1. CASE p = v
    <3>1. m + 1 \in 1..(m + 1) /\ index'[v] <= index'[v]
      BY <1>1
    <3> QED BY <1>1, <2>1, <3>1, ReachesItself
  <2>2. CASE p \in OnStack
    <3>1. PICK i \in 1..m : index[node(i)] <= index[p] /\ Order!Reaches(p, node(i))
      BY <1>1, <1>4, <2>2 DEF ReachesACall, node
    <3>2. index'[callStack'[i].node] = index[node(i)] /\ index'[p] = index[p] /\ i \in 1..(m + 1)
      BY <1>1, <1>6, <2>2, <3>1
    <3> QED BY <1>1, <3>1, <3>2
  <2> QED BY <2>1, <2>2
<1>14. LowLinkIsReached'
  <2> SUFFICES ASSUME NEW i \in 1..(m + 1)
               PROVE  \E p \in OnStack \cup {v} : /\ index'[p] = lowlink'[callStack'[i].node]
                                                  /\ Order!Reaches(callStack'[i].node, p)
    BY <1>1, <1>3 DEF LowLinkIsReached
  <2>1. CASE i = m + 1
    BY <1>1, <2>1, ReachesItself
  <2>2. CASE i \in 1..m
    <3>1. PICK p \in OnStack : index[p] = lowlink[node(i)] /\ Order!Reaches(node(i), p)
      BY <1>1, <1>4, <2>2 DEF LowLinkIsReached, node
    <3>2. callStack'[i].node = node(i) /\ lowlink'[node(i)] = lowlink[node(i)] /\ index'[p] = index[p]
      BY <1>1, <1>7, <2>2, <3>1
    <3> QED BY <3>1, <3>2
  <2> QED BY <1>6, <2>1, <2>2
<1>15. LowLinkIsLow'
  <2> SUFFICES ASSUME NEW i \in 1..(m + 1), NEW p \in OnStack \cup {v}, NEW q \in OnStack \cup {v},
                      index'[callStack'[i].node] <= index'[p],
                      i + 1 \in 1..(m + 1) => index'[p] < index'[callStack'[i + 1].node],
                      Explored(p, q)'
               PROVE  lowlink'[callStack'[i].node] <= index'[q]
    BY <1>1 DEF LowLinkIsLow, Between
  <2>1. p \in OnStack /\ p \in Seen
    BY <1>1
  <2>2. i \in 1..m
    <3>1. i # m + 1
      BY <1>1, <1>2, <2>1
    <3> QED BY <1>6, <3>1
  <2>3. /\ callStack'[i].node = node(i) /\ lowlink'[node(i)] = lowlink[node(i)]
        /\ index'[node(i)] = index[node(i)] /\ index'[p] = index[p]
    BY <1>1, <1>7, <2>1, <2>2
  <2>4. CASE q = v
    <3>1. lowlink[node(i)] <= index[node(i)] /\ index[node(i)] < c /\ index'[q] = c
      BY <1>1, <1>2, <1>7, <2>2, <2>4
    <3> QED BY <1>1, <1>2, <1>7, <2>2, <2>3, <3>1
  <2>5. CASE q # v
    <3>1. q \in OnStack /\ Explored(p, q) /\ index'[q] = index[q]
      BY <1>1, <2>1, <2>5
    <3>2. Between(i, p)
      <4>1. ASSUME i + 1 \in 1..m PROVE index[p] < index[node(i + 1)]
        <5>1. i + 1 \in 1..(m + 1)
          BY <1>6, <4>1
        <5>2. index'[callStack'[i + 1].node] = index[node(i + 1)]
          BY <1>1, <1>7, <4>1
        <5> QED BY <2>3, <5>1, <5>2
      <4> QED BY <1>1, <2>3, <4>1 DEF Between, node
    <3> QED BY <1>1, <1>4, <2>1, <2>2, <2>3, <3>1, <3>2 DEF LowLinkIsLow, node
  <2> QED BY <2>4, <2>5
<1> QED BY <1>3, <1>4, <1>8, <1>9, <1>10, <1>11, <1>12, <1>13, <1>14, <1>15,
           ComponentsStay, NotSortedStays DEF Tarjan

LEMMA MinIs ==
  ASSUME NEW a \in Nat, NEW b \in Nat
  PROVE  LET n == Order!Min({a, b}) IN n \in {a, b} /\ n <= a /\ n <= b
<1>1. \E n \in {a, b} : \A k \in {a, b} : n <= k
  BY SmallestMember
<1> QED BY <1>1 DEF Order!Min

(* What Visit does to the low links, and which edges it explores.          *)
LEMMA VisitIs ==
  ASSUME TypeOK, Order!TypeOK, Tarjan, Order!Visit
  PROVE  LET m == Len(callStack)
             v == callStack[m].node
         IN /\ UNCHANGED <<visited, edges, sccs, index, stack, later>>
            /\ m \in 1..m /\ DOMAIN callStack = 1..m /\ DOMAIN callStack' = 1..m
            /\ callStack' \in Seq(CallOf)
            /\ \A i \in 1..m : callStack'[i].node = callStack[i].node
            /\ \A i \in 1..m : callStack'[i].todo \subseteq callStack[i].todo
            /\ v \in Seen /\ DOMAIN lowlink' = Seen
            /\ \A p \in Seen : /\ lowlink'[p] \in Nat /\ lowlink'[p] <= lowlink[p]
                               /\ p # v => lowlink'[p] = lowlink[p]
            /\ \E w \in Order!Neighbors(v) \cap Seen :
                 /\ w \in OnStack => lowlink'[v] <= index[w]
                 /\ lowlink'[v] = lowlink[v] \/ (w \in OnStack /\ lowlink'[v] = index[w])
                 /\ \A p, q : Explored(p, q)' => Explored(p, q) \/ (p = v /\ q = w)
<1> DEFINE m == Len(callStack)
           v == callStack[m].node
<1>1. PICK w \in Order!Top.todo :
        /\ Order!Seen(w)
        /\ lowlink' = IF Order!Contains(stack, w)
                        THEN [lowlink EXCEPT ![Order!Top.node] = Order!Min({@, index[w]})] ELSE lowlink
        /\ callStack' = [callStack EXCEPT ![Len(callStack)].todo = @ \ {w}]
  BY DEF Order!Visit
<1>2. /\ UNCHANGED <<visited, edges, sccs, index, stack, later>> /\ callStack # << >>
  BY DEF Order!Visit, Order!input, Order!kahn, Order!expanded, later
<1>3. /\ m \in DOMAIN callStack /\ Order!Top = callStack[m]
      /\ callStack' \in Seq(CallOf) /\ Len(callStack') = m /\ DOMAIN callStack' = 1..m
      /\ \A i \in 1..m : /\ callStack'[i].node = callStack[i].node
                         /\ i # m => callStack'[i].todo = callStack[i].todo
                         /\ i = m => callStack'[i].todo = callStack[i].todo \ {w}
  BY <1>1, <1>2, OneLess
<1>4. /\ Seen \subseteq visited /\ DOMAIN lowlink = Seen /\ DOMAIN callStack = 1..m
      /\ \A p \in Seen : index[p] \in Nat /\ lowlink[p] \in Nat /\ lowlink[p] <= index[p]
      /\ DOMAIN stack = 1..Len(stack)
  BY TarjanTypes
<1>5. v \in OnStack /\ v \in Seen /\ w \in Order!Neighbors(v) /\ w \in Seen
  BY <1>1, <1>3 DEF Tarjan, CallsAreAPath, Stacked, Order!Seen, Seen
<1>6. Order!Contains(stack, w) <=> w \in OnStack
  BY <1>4 DEF Order!Contains, OnStack
<1> DEFINE n == Order!Min({lowlink[v], index[w]})
<1>7. n \in {lowlink[v], index[w]} /\ n <= lowlink[v] /\ n <= index[w] /\ n \in Nat
  BY <1>4, <1>5, MinIs
<1>8. lowlink' = IF w \in OnStack THEN [lowlink EXCEPT ![v] = n] ELSE lowlink
  BY <1>1, <1>3, <1>6
<1> HIDE DEF n, v, m
<1>9. /\ DOMAIN lowlink' = Seen
      /\ \A p \in Seen : /\ lowlink'[p] \in Nat /\ lowlink'[p] <= lowlink[p]
                         /\ p # v => lowlink'[p] = lowlink[p]
      /\ w \in OnStack => lowlink'[v] = n
      /\ w \notin OnStack => lowlink'[v] = lowlink[v]
  <2>1. CASE w \in OnStack
    BY <1>4, <1>5, <1>7, <1>8, <2>1
  <2>2. CASE w \notin OnStack
    BY <1>4, <1>5, <1>8, <2>2
  <2> QED BY <2>1, <2>2
<1>10. /\ w \in OnStack => lowlink'[v] <= index[w]
       /\ lowlink'[v] = lowlink[v] \/ (w \in OnStack /\ lowlink'[v] = index[w])
  BY <1>7, <1>9
<1>11. ASSUME NEW p, NEW q, Explored(p, q)' PROVE Explored(p, q) \/ (p = v /\ q = w)
  <2>1. Order!Neighbors(p)' = Order!Neighbors(p)
    BY <1>2, GraphStays
  <2>2. q \in Order!Neighbors(p) /\ \A i \in 1..m : callStack[i].node = p => q \notin callStack'[i].todo
    BY <1>3, <1>11, <2>1 DEF Explored
  <2>3. ASSUME NEW i \in 1..m, callStack[i].node = p, q \in callStack[i].todo
        PROVE  p = v /\ q = w
    BY <1>3, <2>2, <2>3 DEF v
  <2> QED BY <1>4, <2>2, <2>3 DEF Explored
<1>12. \A i \in 1..m : callStack'[i].todo \subseteq callStack[i].todo
  BY <1>3
<1>13. m \in 1..m
  BY <1>3, <1>4
<1> QED BY <1>2, <1>3, <1>4, <1>5, <1>9, <1>10, <1>11, <1>12, <1>13 DEF m, v

LEMMA VisitKeeps ==
  ASSUME TypeOK, Order!TypeOK, Tarjan, Order!Visit
  PROVE  Tarjan'
<1> DEFINE m == Len(callStack)
           node(i) == callStack[i].node
           v == node(m)
<1>1. /\ UNCHANGED <<visited, edges, sccs, index, stack, later>>
      /\ m \in 1..m /\ DOMAIN callStack = 1..m /\ DOMAIN callStack' = 1..m
      /\ \A i \in 1..m : callStack'[i].node = node(i)
      /\ \A i \in 1..m : callStack'[i].todo \subseteq callStack[i].todo
      /\ v \in Seen
      /\ \A p \in Seen : /\ lowlink'[p] \in Nat /\ lowlink'[p] <= lowlink[p]
                         /\ p # v => lowlink'[p] = lowlink[p]
  BY VisitIs
<1>2. PICK w \in Order!Neighbors(v) \cap Seen :
        /\ w \in OnStack => lowlink'[v] <= index[w]
        /\ lowlink'[v] = lowlink[v] \/ (w \in OnStack /\ lowlink'[v] = index[w])
        /\ \A p, q : Explored(p, q)' => Explored(p, q) \/ (p = v /\ q = w)
  BY VisitIs
<1>3. \A p \in Seen : index[p] \in Nat /\ lowlink[p] \in Nat /\ lowlink[p] <= index[p]
  BY TarjanTypes
<1>4. /\ \A p : Order!Neighbors(p)' = Order!Neighbors(p)
      /\ \A p, q : Order!Reaches(p, q)' <=> Order!Reaches(p, q)
      /\ UNCHANGED <<visited, edges, sccs>> /\ UNCHANGED later
  BY <1>1, GraphStays
<1>5. /\ Numbering /\ Stacked /\ CallsAreAPath /\ ExploredIsSeen
      /\ CallsReach /\ ReachesACall /\ LowLinkIsReached /\ LowLinkIsLow
      /\ Components /\ NotSorted
  BY DEF Tarjan
<1>6. Seen' = Seen /\ OnStack' = OnStack /\ Found' = Found
  BY <1>1 DEF Seen, OnStack, Found
<1>7. OnStack \subseteq Seen /\ \A i \in 1..m : node(i) \in OnStack
  BY <1>1, <1>5 DEF Stacked, CallsAreAPath
<1> HIDE DEF m, node, v
<1>8. Numbering'
  BY <1>1, <1>5, <1>6 DEF Numbering
<1>9. Stacked'
  BY <1>1, <1>5, <1>6 DEF Stacked
<1>10. CallsAreAPath'
  <2>1. \A i \in 1..m : /\ callStack'[i].node \in OnStack'
                        /\ callStack'[i].todo \subseteq Order!Neighbors(callStack'[i].node)
    BY <1>1, <1>5, <1>6, <1>7 DEF CallsAreAPath, node
  <2>2. \A i, j \in 1..m : i < j => index'[callStack'[i].node] < index'[callStack'[j].node]
    BY <1>1, <1>5 DEF CallsAreAPath, node
  <2>3. \A i \in 1..m : i + 1 \in 1..m =>
          callStack'[i + 1].node \in Order!Neighbors(callStack'[i].node)
    BY <1>1, <1>5 DEF CallsAreAPath, node
  <2> QED BY <1>1, <1>4, <2>1, <2>2, <2>3 DEF CallsAreAPath
<1>11. ExploredIsSeen'
  BY <1>2, <1>5, <1>6 DEF ExploredIsSeen
<1>12. CallsReach'
  BY <1>1, <1>4, <1>5, <1>6 DEF CallsReach, node
<1>13. ReachesACall'
  BY <1>1, <1>4, <1>5, <1>6 DEF ReachesACall, node
<1>14. LowLinkIsReached'
  <2> SUFFICES ASSUME NEW i \in 1..m
               PROVE  \E p \in OnStack : index[p] = lowlink'[node(i)] /\ Order!Reaches(node(i), p)
    BY <1>1, <1>4, <1>6 DEF LowLinkIsReached
  <2>1. CASE lowlink'[node(i)] = lowlink[node(i)]
    BY <1>1, <1>5, <2>1 DEF LowLinkIsReached, node
  <2>2. CASE lowlink'[node(i)] # lowlink[node(i)]
    <3>1. node(i) = v /\ w \in OnStack /\ lowlink'[v] = index[w]
      BY <1>1, <1>2, <1>7, <2>2
    <3> QED BY <1>2, <3>1, ReachesNext
  <2> QED BY <2>1, <2>2
<1>15. LowLinkIsLow'
  <2> SUFFICES ASSUME NEW i \in 1..m, NEW p \in OnStack, NEW q \in OnStack,
                      Between(i, p), Explored(p, q)'
               PROVE  lowlink'[node(i)] <= index[q]
    BY <1>1, <1>6 DEF LowLinkIsLow, Between, node
  <2>1. node(i) \in Seen /\ q \in Seen /\ p \in Seen
    BY <1>7
  <2>2. CASE Explored(p, q)
    <3>1. lowlink[node(i)] <= index[q]
      BY <1>1, <1>5, <2>2 DEF LowLinkIsLow, node
    <3> QED BY <1>1, <1>3, <2>1, <3>1
  <2>3. CASE ~Explored(p, q)
    <3>1. p = v /\ q = w
      BY <1>2, <2>3
    <3>2. i = m
      <4>1. SUFFICES ASSUME i # m PROVE FALSE
        OBVIOUS
      <4>2. i + 1 \in 1..m /\ (i + 1 = m \/ i + 1 < m)
        BY <1>1, <4>1
      <4>3. index[p] < index[node(i + 1)]
        BY <1>1, <4>2 DEF Between, node
      <4>4. i + 1 = m \/ index[node(i + 1)] < index[v]
        BY <1>1, <1>5, <4>2 DEF CallsAreAPath, node, v
      <4>5. index[node(i + 1)] \in Nat /\ index[v] \in Nat
        BY <1>1, <1>3, <1>7, <4>2
      <4> QED BY <3>1, <4>3, <4>4, <4>5 DEF v
    <3> QED BY <1>2, <3>1, <3>2 DEF v
  <2> QED BY <2>2, <2>3
<1> QED BY <1>4, <1>5, <1>8, <1>9, <1>10, <1>11, <1>12, <1>13, <1>14, <1>15,
           ComponentsStay, NotSortedStays DEF Tarjan

LEMMA FrontIs ==
  ASSUME NEW S, NEW s \in Seq(S), Len(s) \in Nat \ {0}
  PROVE  LET n == Len(s) - 1
             t == Order!Front(s)
         IN t \in Seq(S) /\ DOMAIN t = 1..n /\ \A i \in 1..n : t[i] = s[i]
<1> DEFINE n == Len(s) - 1
<1>1. n \in Nat /\ DOMAIN s = 1..(n + 1) /\ \A i \in 1..n : s[i] \in S
  <2>1. n \in Nat /\ n + 1 = Len(s)
    OBVIOUS
  <2>2. DOMAIN s = 1..(n + 1)
    BY <2>1, LenProperties
  <2>3. \A i \in 1..n : i \in 1..Len(s)
    OBVIOUS
  <2> QED BY <2>1, <2>2, <2>3, ElementOfSeq
<1>2. Order!Front(s) = SubSeq(s, 1, n)
  BY DEF Order!Front
<1> HIDE DEF n
<1>3. /\ SubSeq(s, 1, n) \in Seq(S) /\ Len(SubSeq(s, 1, n)) = IF 1 <= n THEN n - 1 + 1 ELSE 0
      /\ \A i \in 1..(n - 1 + 1) : SubSeq(s, 1, n)[i] = s[1 + i - 1]
  BY <1>1, SubSeqProperties
<1>4. Len(SubSeq(s, 1, n)) = n
  BY <1>1, <1>3
<1>5. ASSUME NEW i \in 1..n PROVE SubSeq(s, 1, n)[i] = s[i]
  <2>1. i \in 1..(n - 1 + 1) /\ 1 + i - 1 = i
    BY <1>1
  <2> QED BY <1>3, <2>1
<1>6. DOMAIN SubSeq(s, 1, n) = 1..n
  BY <1>3, <1>4, LenProperties
<1> QED BY <1>2, <1>3, <1>5, <1>6 DEF n

(* What Return does: the last call ends, its caller may get a smaller low  *)
(* link from it, and a package that is the root of a component goes off    *)
(* the stack with all that was put there after it.                         *)
LEMMA ReturnIs ==
  ASSUME TypeOK, Order!TypeOK, Tarjan, Order!Return
  PROVE  LET m == Len(callStack)
             v == callStack[m].node
         IN /\ UNCHANGED <<visited, edges, index, later>>
            /\ m \in Nat \ {0} /\ DOMAIN callStack = 1..m /\ DOMAIN callStack' = 1..(m - 1)
            /\ callStack' \in Seq(CallOf)
            /\ \A i \in 1..(m - 1) : callStack'[i] = callStack[i]
            /\ callStack[m].todo = {} /\ v \in OnStack /\ v \in Seen
            /\ DOMAIN lowlink' = Seen
            /\ \A p \in Seen : /\ lowlink'[p] \in Nat /\ lowlink'[p] <= lowlink[p]
                               /\ lowlink'[p] # lowlink[p] =>
                                    m > 1 /\ p = callStack[m - 1].node /\ lowlink'[p] = lowlink[v]
            /\ m > 1 => lowlink'[callStack[m - 1].node] <= lowlink[v]
            /\ \/ lowlink[v] # index[v] /\ UNCHANGED <<stack, sccs>>
               \/ /\ lowlink[v] = index[v]
                  /\ \E at \in DOMAIN stack :
                       /\ stack[at] = v /\ stack' = SubSeq(stack, 1, at - 1)
                       /\ sccs' = Append(sccs, {stack[i] : i \in at..Len(stack)})
<1> DEFINE m == Len(callStack)
           v == callStack[m].node
           at == CHOOSE i \in DOMAIN stack : stack[i] = v
           u == callStack[m - 1].node
           n == Order!Min({lowlink[u], lowlink[v]})
<1>1. callStack # << >> /\ Order!Top = callStack[m]
  BY DEF Order!Return, Order!Top, Order!Last
<1>2. /\ callStack[m].todo = {} /\ UNCHANGED <<visited, edges, index, later>>
      /\ callStack' = Order!Front(callStack)
      /\ lowlink' = IF m = 1 THEN lowlink ELSE [lowlink EXCEPT ![u] = n]
      /\ IF lowlink[v] = index[v]
           THEN stack' = SubSeq(stack, 1, at - 1) /\ sccs' = Append(sccs, {stack[i] : i \in at..Len(stack)})
           ELSE UNCHANGED <<stack, sccs>>
  BY <1>1 DEF Order!Return, Order!input, Order!kahn, Order!expanded, later
<1>3. /\ Seen \subseteq visited /\ DOMAIN lowlink = Seen /\ m \in Nat /\ DOMAIN callStack = 1..m
      /\ \A p \in Seen : index[p] \in Nat /\ lowlink[p] \in Nat /\ lowlink[p] <= index[p]
  BY TarjanTypes
<1>4. callStack \in Seq(CallOf)
  BY DEF Order!TypeOK, CallOf
<1>5. m \in Nat \ {0} /\ m \in DOMAIN callStack
  BY <1>1, <1>3, <1>4, EmptySeq
<1>6. /\ callStack' \in Seq(CallOf) /\ DOMAIN callStack' = 1..(m - 1)
      /\ \A i \in 1..(m - 1) : callStack'[i] = callStack[i]
  BY <1>2, <1>4, <1>5, FrontIs
<1>7. OnStack \subseteq Seen /\ \A i \in 1..m : callStack[i].node \in OnStack
  BY <1>3 DEF Tarjan, Stacked, CallsAreAPath
<1>8. v \in OnStack /\ v \in Seen
  BY <1>3, <1>5, <1>7
<1> HIDE DEF n, at
<1>11. /\ DOMAIN lowlink' = Seen
       /\ \A p \in Seen : /\ lowlink'[p] \in Nat /\ lowlink'[p] <= lowlink[p]
                          /\ lowlink'[p] # lowlink[p] =>
                               m > 1 /\ p = u /\ lowlink'[p] = lowlink[v]
       /\ m > 1 => lowlink'[u] <= lowlink[v]
  <2>1. CASE m = 1
    BY <1>2, <1>3, <2>1
  <2>2. CASE m # 1
    <3> m > 1 /\ m - 1 \in 1..m
      BY <1>5, <2>2
    <3>1. m > 1 /\ m - 1 \in 1..m /\ u \in Seen
      BY <1>7
    <3>2. n \in {lowlink[u], lowlink[v]} /\ n <= lowlink[u] /\ n <= lowlink[v]
      BY <1>3, <1>8, <3>1, MinIs DEF n
    <3>3. lowlink' = [lowlink EXCEPT ![u] = n]
      BY <1>2, <2>2
    <3> HIDE DEF u, v
    <3>4. /\ DOMAIN lowlink' = Seen /\ lowlink'[u] = n
          /\ \A p \in Seen : p # u => lowlink'[p] = lowlink[p]
      BY <1>3, <3>1, <3>3
    <3> QED BY <1>3, <1>8, <3>1, <3>2, <3>4
  <2> QED BY <2>1, <2>2
<1>12. \/ lowlink[v] # index[v] /\ UNCHANGED <<stack, sccs>>
       \/ /\ lowlink[v] = index[v]
          /\ \E k \in DOMAIN stack :
               /\ stack[k] = v /\ stack' = SubSeq(stack, 1, k - 1)
               /\ sccs' = Append(sccs, {stack[i] : i \in k..Len(stack)})
  <2>1. \E i \in DOMAIN stack : stack[i] = v
    BY <1>8 DEF OnStack
  <2>2. at \in DOMAIN stack /\ stack[at] = v
    BY <2>1 DEF at
  <2> QED BY <1>2, <2>2
<1> QED BY <1>2, <1>3, <1>5, <1>6, <1>8, <1>11, <1>12

(* What the two kinds of return have in common.                            *)
LEMMA ReturnStays ==
  ASSUME TypeOK, Order!TypeOK, Tarjan, Order!Return
  PROVE  LET m == Len(callStack)
             v == callStack[m].node
         IN /\ Seen' = Seen /\ OnStack \subseteq Seen /\ \A i \in 1..m : callStack[i].node \in OnStack
            /\ \A p \in Seen : index[p] \in Nat /\ lowlink[p] \in Nat /\ lowlink[p] <= index[p]
            /\ \A i \in 1..(m - 1) : i \in 1..m /\ index[callStack[i].node] < index[v]
            /\ \A p, q : Explored(p, q)' => Explored(p, q)
            /\ \A p : index[v] <= index[p] => \A q \in Order!Neighbors(p) : p \in Seen => Explored(p, q)
            /\ Numbering' /\ ExploredIsSeen' /\ NotSorted'
<1> DEFINE m == Len(callStack)
           v == callStack[m].node
<1>1. /\ UNCHANGED <<visited, edges, index, later>>
      /\ m \in Nat \ {0} /\ DOMAIN callStack = 1..m /\ DOMAIN callStack' = 1..(m - 1)
      /\ \A i \in 1..(m - 1) : callStack'[i] = callStack[i]
      /\ callStack[m].todo = {} /\ v \in Seen
  BY ReturnIs
<1>2. /\ Seen \subseteq visited /\ DOMAIN lowlink = Seen
      /\ \A p \in Seen : index[p] \in Nat /\ lowlink[p] \in Nat /\ lowlink[p] <= index[p]
  BY TarjanTypes
<1>3. \A p : Order!Neighbors(p)' = Order!Neighbors(p)
  BY <1>1, GraphStays
<1>4. /\ Numbering /\ Stacked /\ CallsAreAPath /\ ExploredIsSeen /\ NotSorted
  BY DEF Tarjan
<1>5. Seen' = Seen
  BY <1>1 DEF Seen
<1>6. OnStack \subseteq Seen /\ \A i \in 1..m : callStack[i].node \in OnStack
  BY <1>1, <1>4 DEF Stacked, CallsAreAPath
<1> HIDE DEF m
<1>7. ASSUME NEW i \in 1..(m - 1) PROVE i \in 1..m /\ index[callStack[i].node] < index[v]
  <2>1. i \in 1..m /\ m \in 1..m /\ i < m
    BY <1>1
  <2> QED BY <1>1, <1>4, <2>1 DEF CallsAreAPath
<1>8. ASSUME NEW p, NEW q, Explored(p, q)' PROVE Explored(p, q)
  <2>1. /\ q \in Order!Neighbors(p)
        /\ \A i \in 1..(m - 1) : callStack[i].node = p => q \notin callStack[i].todo
    BY <1>1, <1>3, <1>8 DEF Explored
  <2>2. \A i \in 1..m : i = m \/ i \in 1..(m - 1)
    BY <1>1
  <2> QED BY <1>1, <2>1, <2>2 DEF Explored
<1>9. ASSUME NEW p \in Seen, index[v] <= index[p], NEW q \in Order!Neighbors(p)
      PROVE  Explored(p, q)
  <2>1. ASSUME NEW i \in 1..m, callStack[i].node = p PROVE i = m
    <3>1. SUFFICES ASSUME i # m PROVE FALSE
      OBVIOUS
    <3>2. i \in 1..(m - 1)
      BY <1>1, <3>1
    <3>3. index[p] < index[v]
      BY <1>7, <2>1, <3>2
    <3> QED BY <1>1, <1>2, <1>9, <3>3
  <2> QED BY <1>1, <2>1 DEF Explored
<1>10. Numbering'
  BY <1>1, <1>4, <1>5 DEF Numbering
<1>11. ExploredIsSeen'
  BY <1>4, <1>5, <1>8 DEF ExploredIsSeen
<1>12. NotSorted'
  BY <1>1, <1>4, NotSortedStays
<1> QED BY <1>2, <1>5, <1>6, <1>7, <1>8, <1>9, <1>10, <1>11, <1>12 DEF m

(* A call that ends and is not the root of a component: what it reaches    *)
(* before it counts for its caller.                                        *)
LEMMA ReturnToCallerKeeps ==
  ASSUME TypeOK, Order!TypeOK, Tarjan, Order!Return,
         lowlink[callStack[Len(callStack)].node] # index[callStack[Len(callStack)].node]
  PROVE  Tarjan'
<1> DEFINE m == Len(callStack)
           node(i) == callStack[i].node
           v == node(m)
<1>1. /\ UNCHANGED <<visited, edges, index, later>>
      /\ m \in Nat \ {0} /\ DOMAIN callStack = 1..m /\ DOMAIN callStack' = 1..(m - 1)
      /\ \A i \in 1..(m - 1) : callStack'[i] = callStack[i]
      /\ v \in OnStack /\ v \in Seen
      /\ \A p \in Seen : /\ lowlink'[p] \in Nat /\ lowlink'[p] <= lowlink[p]
                         /\ lowlink'[p] # lowlink[p] =>
                              m > 1 /\ p = node(m - 1) /\ lowlink'[p] = lowlink[v]
      /\ m > 1 => lowlink'[node(m - 1)] <= lowlink[v]
      /\ UNCHANGED <<stack, sccs>>
  BY ReturnIs
<1>2. /\ Seen' = Seen /\ OnStack \subseteq Seen /\ \A i \in 1..m : node(i) \in OnStack
      /\ \A p \in Seen : index[p] \in Nat /\ lowlink[p] \in Nat /\ lowlink[p] <= index[p]
      /\ \A i \in 1..(m - 1) : i \in 1..m /\ index[node(i)] < index[v]
      /\ \A p, q : Explored(p, q)' => Explored(p, q)
      /\ Numbering' /\ ExploredIsSeen' /\ NotSorted'
  BY ReturnStays
<1>3. /\ \A p : Order!Neighbors(p)' = Order!Neighbors(p)
      /\ \A p, q : Order!Reaches(p, q)' <=> Order!Reaches(p, q)
  BY <1>1, GraphStays
<1>4. /\ Stacked /\ CallsAreAPath /\ CallsReach /\ ReachesACall
      /\ LowLinkIsReached /\ LowLinkIsLow /\ Components
  BY DEF Tarjan
<1>5. OnStack' = OnStack /\ Found' = Found
  BY <1>1 DEF OnStack, Found
<1>6. lowlink[v] < index[v] /\ m \in 1..m
  BY <1>1, <1>2
<1>7. \A i \in 1..(m - 1) : callStack'[i].node = node(i) /\ callStack'[i].todo = callStack[i].todo
  BY <1>1
<1> HIDE DEF m, node, v
<1>8. Stacked'
  BY <1>1, <1>2, <1>4, <1>5 DEF Stacked
<1>9. CallsAreAPath'
  <2>1. \A i \in 1..(m - 1) : /\ callStack'[i].node \in OnStack'
                              /\ callStack'[i].todo \subseteq Order!Neighbors(callStack'[i].node)
    BY <1>1, <1>2, <1>4, <1>5, <1>7 DEF CallsAreAPath, node
  <2>2. \A i, j \in 1..(m - 1) : i < j => index'[callStack'[i].node] < index'[callStack'[j].node]
    BY <1>1, <1>2, <1>4, <1>7 DEF CallsAreAPath, node
  <2>3. \A i \in 1..(m - 1) : i + 1 \in 1..(m - 1) =>
          callStack'[i + 1].node \in Order!Neighbors(callStack'[i].node)
    BY <1>1, <1>2, <1>4, <1>7 DEF CallsAreAPath, node
  <2> QED BY <1>1, <1>3, <2>1, <2>2, <2>3 DEF CallsAreAPath
<1>10. CallsReach'
  BY <1>1, <1>2, <1>3, <1>4, <1>5, <1>7 DEF CallsReach, node
<1>11. ReachesACall'
  <2> SUFFICES ASSUME NEW p \in OnStack
               PROVE  \E i \in 1..(m - 1) : index[node(i)] <= index[p] /\ Order!Reaches(p, node(i))
    BY SMTT(30), <1>1, <1>3, <1>5, <1>7 DEF ReachesACall
  <2>1. PICK i \in 1..m : index[node(i)] <= index[p] /\ Order!Reaches(p, node(i))
    BY <1>1, <1>4 DEF ReachesACall, node
  <2>2. CASE i # m
    <3>1. i \in 1..(m - 1)
      BY <1>1, <2>2
    <3> QED BY <2>1, <3>1
  <2>3. CASE i = m
    <3>1. PICK z \in OnStack : index[z] = lowlink[v] /\ Order!Reaches(v, z)
      BY <1>1, <1>4, <1>6 DEF LowLinkIsReached, node, v
    <3>2. PICK j \in 1..m : index[node(j)] <= index[z] /\ Order!Reaches(z, node(j))
      BY <1>1, <1>4 DEF ReachesACall, node
    <3>3. index[node(j)] \in Nat /\ index[z] \in Nat /\ index[v] \in Nat /\ index[p] \in Nat
      BY <1>1, <1>2
    <3>4. j # m /\ index[node(j)] <= index[p]
      BY <1>6, <2>1, <2>3, <3>1, <3>2, <3>3 DEF v
    <3>5. j \in 1..(m - 1)
      BY <1>1, <3>4
    <3>6. Order!Reaches(p, node(j))
      BY <2>1, <2>3, <3>1, <3>2, ReachesOn DEF v
    <3> QED BY <3>4, <3>5, <3>6
  <2> QED BY <2>2, <2>3
<1>12. LowLinkIsReached'
  <2> SUFFICES ASSUME NEW i \in 1..(m - 1)
               PROVE  \E p \in OnStack : index[p] = lowlink'[node(i)] /\ Order!Reaches(node(i), p)
    BY <1>1, <1>3, <1>5, <1>7 DEF LowLinkIsReached
  <2>1. CASE lowlink'[node(i)] = lowlink[node(i)]
    BY <1>1, <1>2, <1>4, <2>1 DEF LowLinkIsReached, node
  <2>2. CASE lowlink'[node(i)] # lowlink[node(i)]
    <3>1. m > 1 /\ node(i) = node(m - 1) /\ lowlink'[node(i)] = lowlink[v]
      BY <1>1, <1>2, <2>2
    <3>2. PICK z \in OnStack : index[z] = lowlink[v] /\ Order!Reaches(v, z)
      BY <1>1, <1>4, <1>6 DEF LowLinkIsReached, node, v
    <3>3. m - 1 \in 1..m /\ m - 1 + 1 = m
      BY <1>1, <3>1
    <3>4. v \in Order!Neighbors(node(m - 1))
      BY <1>1, <1>4, <1>6, <3>3 DEF CallsAreAPath, node, v
    <3>5. Order!Reaches(node(i), z)
      BY <3>1, <3>2, <3>4, ReachesNext, ReachesOn
    <3> QED BY <3>1, <3>2, <3>5
  <2> QED BY <2>1, <2>2
<1>13. LowLinkIsLow'
  <2> SUFFICES ASSUME NEW i \in 1..(m - 1), NEW p \in OnStack, NEW q \in OnStack,
                      index[node(i)] <= index[p],
                      i + 1 \in 1..(m - 1) => index[p] < index[node(i + 1)],
                      Explored(p, q)
               PROVE  lowlink'[node(i)] <= index[q]
    BY <1>1, <1>2, <1>5, <1>7 DEF LowLinkIsLow, Between
  <2>1. /\ i \in 1..m /\ node(i) \in Seen /\ v \in Seen /\ p \in Seen /\ q \in Seen
        /\ lowlink'[node(i)] \in Nat /\ lowlink'[node(i)] <= lowlink[node(i)]
    BY <1>1, <1>2
  <2>2. CASE Between(i, p)
    <3>1. lowlink[node(i)] <= index[q]
      BY <1>1, <1>4, <2>1, <2>2 DEF LowLinkIsLow, node
    <3> QED BY <1>2, <2>1, <3>1
  <2>3. CASE ~Between(i, p)
    <3>1. i + 1 \in 1..m /\ ~(index[p] < index[node(i + 1)])
      BY <1>1, <2>3 DEF Between, node
    <3>2. i + 1 = m /\ m > 1 /\ i = m - 1
      BY <1>1, <3>1
    <3>3. index[v] <= index[p]
      BY <1>2, <2>1, <3>1, <3>2 DEF v
    <3>4. Between(m, p)
      BY <1>1, <3>3 DEF Between, node, v
    <3>5. lowlink[v] <= index[q]
      BY <1>1, <1>4, <1>6, <3>4 DEF LowLinkIsLow, node, v
    <3>6. lowlink'[node(i)] <= lowlink[v]
      BY <1>1, <3>2
    <3> QED BY <1>2, <2>1, <3>5, <3>6
  <2> QED BY <2>2, <2>3
<1>14. Components'
  BY <1>1, <1>4, ComponentsStay
<1> QED BY <1>2, <1>8, <1>9, <1>10, <1>11, <1>12, <1>13, <1>14 DEF Tarjan

(* The root of a component takes off the stack what has no smaller number. *)
LEMMA ComponentIs ==
  ASSUME TypeOK, Order!TypeOK, Tarjan, Order!Return,
         lowlink[callStack[Len(callStack)].node] = index[callStack[Len(callStack)].node]
  PROVE  LET v == callStack[Len(callStack)].node
             c == {p \in OnStack : index[v] <= index[p]}
             k == Len(sccs) + 1
         IN /\ stack' \in Seq(visited) /\ DOMAIN stack' \subseteq DOMAIN stack
            /\ \A i \in DOMAIN stack' : stack'[i] = stack[i]
            /\ OnStack' = OnStack \ c
            /\ sccs' \in Seq(SUBSET visited) /\ DOMAIN sccs' = 1..k /\ DOMAIN sccs = 1..Len(sccs) /\ k \in Nat
            /\ sccs'[k] = c /\ \A i \in DOMAIN sccs : i \in 1..k /\ i < k /\ sccs'[i] = sccs[i]
            /\ Found' = Found \cup c
<1> DEFINE v == callStack[Len(callStack)].node
           c == {p \in OnStack : index[v] <= index[p]}
           k == Len(sccs) + 1
<1>1. PICK at \in DOMAIN stack :
        /\ stack[at] = v /\ stack' = SubSeq(stack, 1, at - 1)
        /\ sccs' = Append(sccs, {stack[i] : i \in at..Len(stack)})
  BY ReturnIs
<1>2. /\ \A p \in Seen : index[p] \in Nat
      /\ Len(stack) \in Nat /\ DOMAIN stack = 1..Len(stack) /\ \A i \in DOMAIN stack : stack[i] \in visited
      /\ Len(sccs) \in Nat /\ DOMAIN sccs = 1..Len(sccs) /\ Seen \subseteq visited
  BY TarjanTypes
<1>3. stack \in Seq(visited) /\ sccs \in Seq(SUBSET visited)
  BY DEF Order!TypeOK
<1>4. OnStack \subseteq Seen /\ \A i \in DOMAIN stack : stack[i] \in OnStack
  BY DEF Tarjan, Stacked, OnStack
<1>5. /\ at \in Nat \ {0} /\ at <= Len(stack)
  BY <1>1, <1>2
<1> HIDE DEF v, k
<1>6. \A i \in DOMAIN stack : index[v] <= index[stack[i]] <=> at <= i
  <2> SUFFICES ASSUME NEW i \in DOMAIN stack PROVE index[v] <= index[stack[i]] <=> at <= i
    OBVIOUS
  <2>1. index[stack[i]] \in Nat /\ index[v] \in Nat
    BY <1>1, <1>2, <1>4
  <2>2. i < at => index[stack[i]] < index[v]
    BY <1>1 DEF Tarjan, Stacked
  <2>3. at < i => index[v] < index[stack[i]]
    BY <1>1 DEF Tarjan, Stacked
  <2> QED BY <1>1, <1>2, <1>5, <2>1, <2>2, <2>3
<1>7. {stack[i] : i \in at..Len(stack)} = c
  <2>1. ASSUME NEW i \in at..Len(stack) PROVE stack[i] \in c
    <3>1. i \in DOMAIN stack /\ at <= i
      BY <1>2, <1>5
    <3> QED BY <1>4, <1>6, <3>1
  <2>2. ASSUME NEW p \in c PROVE p \in {stack[i] : i \in at..Len(stack)}
    <3>1. PICK i \in DOMAIN stack : stack[i] = p
      BY DEF OnStack
    <3>2. at <= i
      BY <1>6, <3>1
    <3>3. i \in at..Len(stack)
      BY <1>2, <1>5, <3>2
    <3> QED BY <3>1, <3>3
  <2> QED BY <2>1, <2>2
<1>8. /\ stack' \in Seq(visited) /\ DOMAIN stack' = 1..(at - 1)
      /\ \A i \in 1..(at - 1) : stack'[i] = stack[i]
  <2> DEFINE n == at - 1
  <2>1. n \in Nat /\ \A i \in 1..n : i \in DOMAIN stack
    BY <1>2, <1>5
  <2>2. \A i \in 1..n : stack[i] \in visited
    BY <1>2, <2>1
  <2>3. stack' = SubSeq(stack, 1, n)
    BY <1>1
  <2> HIDE DEF n
  <2>4. /\ SubSeq(stack, 1, n) \in Seq(visited) /\ Len(SubSeq(stack, 1, n)) = IF 1 <= n THEN n - 1 + 1 ELSE 0
        /\ \A i \in 1..(n - 1 + 1) : SubSeq(stack, 1, n)[i] = stack[1 + i - 1]
    BY <2>1, <2>2, SubSeqProperties
  <2>5. Len(stack') = n
    BY <2>1, <2>3, <2>4
  <2>6. ASSUME NEW i \in 1..n PROVE stack'[i] = stack[i]
    <3>1. i \in 1..(n - 1 + 1) /\ 1 + i - 1 = i
      BY <2>1
    <3> QED BY <2>3, <2>4, <3>1
  <2>7. stack' \in Seq(visited) /\ DOMAIN stack' = 1..n
    BY <2>3, <2>4, <2>5, LenProperties
  <2> QED BY <2>6, <2>7 DEF n
<1>9. OnStack' = OnStack \ c
  <2>1. \A i \in 1..(at - 1) : i \in DOMAIN stack /\ ~(at <= i)
    BY <1>2, <1>5
  <2>2. \A i \in DOMAIN stack : ~(at <= i) => i \in 1..(at - 1)
    BY <1>2, <1>5
  <2>3. OnStack' = {stack[i] : i \in 1..(at - 1)}
    BY <1>8 DEF OnStack
  <2>4. OnStack \ c = {stack[i] : i \in {j \in DOMAIN stack : ~(at <= j)}}
    BY <1>6 DEF OnStack
  <2> QED BY <2>1, <2>2, <2>3, <2>4
<1>10. DOMAIN stack' \subseteq DOMAIN stack
  BY <1>2, <1>5, <1>8
<1>11. c \in SUBSET visited /\ sccs' = Append(sccs, c)
  BY <1>1, <1>2, <1>4, <1>7
<1> HIDE DEF c
<1>12. /\ sccs' \in Seq(SUBSET visited) /\ Len(sccs') = Len(sccs) + 1
       /\ \A i \in 1..Len(sccs) : sccs'[i] = sccs[i]
       /\ sccs'[Len(sccs) + 1] = c
  BY <1>3, <1>11, AppendProperties
<1>13. /\ DOMAIN sccs' = 1..k /\ k \in Nat /\ sccs'[k] = c
       /\ \A i \in DOMAIN sccs : i \in 1..k /\ i < k /\ sccs'[i] = sccs[i]
  <2>1. DOMAIN sccs' = 1..Len(sccs')
    BY <1>12, LenProperties
  <2> QED BY <1>2, <1>12, <2>1 DEF k
<1>14. Found' = Found \cup c
  <2>1. \A i \in 1..k : i \in DOMAIN sccs \/ i = k
    BY <1>2 DEF k
  <2>2. k \in 1..k
    BY <1>2 DEF k
  <2> QED BY <1>13, <2>1, <2>2 DEF Found
<1> QED BY <1>2, <1>8, <1>9, <1>10, <1>12, <1>13, <1>14 DEF v, c, k

(* No edge leads out of the components found.                              *)
LEMMA FoundIsClosed ==
  ASSUME Components PROVE Order!Closed(Found)
BY DEF Components, Found, Order!Closed

(* What a root takes off the stack is a component: its packages reach each *)
(* other, and edges lead only among them and to what was found before.     *)
LEMMA ComponentIsComplete ==
  ASSUME TypeOK, Order!TypeOK, Tarjan, Order!Return,
         lowlink[callStack[Len(callStack)].node] = index[callStack[Len(callStack)].node]
  PROVE  LET v == callStack[Len(callStack)].node
             c == {p \in OnStack : index[v] <= index[p]}
         IN /\ \A p \in c : c = {q \in visited : Order!Together(p, q)}
            /\ \A p \in c : Order!Neighbors(p) \subseteq c \cup Found
<1> DEFINE m == Len(callStack)
           node(i) == callStack[i].node
           v == node(m)
           c == {p \in OnStack : index[v] <= index[p]}
<1>1. m \in Nat \ {0} /\ DOMAIN callStack = 1..m /\ v \in OnStack /\ v \in Seen
  BY ReturnIs
<1>2. /\ OnStack \subseteq Seen /\ \A i \in 1..m : node(i) \in OnStack
      /\ \A p \in Seen : index[p] \in Nat /\ lowlink[p] \in Nat /\ lowlink[p] <= index[p]
      /\ \A i \in 1..(m - 1) : i \in 1..m /\ index[node(i)] < index[v]
      /\ \A p : index[v] <= index[p] => \A q \in Order!Neighbors(p) : p \in Seen => Explored(p, q)
  BY ReturnStays
<1>3. /\ Stacked /\ CallsReach /\ ReachesACall /\ LowLinkIsLow /\ ExploredIsSeen /\ Components
  BY DEF Tarjan
<1>4. lowlink[v] = index[v] /\ m \in 1..m /\ Seen \subseteq visited
  BY <1>1, TarjanTypes
<1> HIDE DEF m, node, v
<1>5. ASSUME NEW p \in c, NEW q \in Order!Neighbors(p) PROVE q \in c \cup Found
  <2>1. Explored(p, q)
    BY <1>2, <1>5
  <2>2. q \in OnStack \/ q \in Found
    BY <1>2, <1>3, <1>5, <2>1 DEF ExploredIsSeen, Stacked
  <2>3. CASE q \in OnStack
    <3>1. Between(m, p)
      BY <1>1, <1>5 DEF Between, node, v
    <3>2. lowlink[v] <= index[q]
      BY <1>1, <1>3, <1>4, <1>5, <2>1, <2>3, <3>1 DEF LowLinkIsLow, node, v
    <3> QED BY <1>4, <2>3, <3>2
  <2> QED BY <2>2, <2>3
<1>6. ASSUME NEW p \in c PROVE Order!Reaches(v, p) /\ Order!Reaches(p, v)
  <2>1. Order!Reaches(v, p)
    BY <1>1, <1>3, <1>4, <1>6 DEF CallsReach, node, v
  <2>2. PICK i \in 1..m : index[node(i)] <= index[p] /\ Order!Reaches(p, node(i))
    BY <1>1, <1>3, <1>6 DEF ReachesACall, node
  <2>3. index[node(i)] <= index[v]
    <3>1. i = m \/ i \in 1..(m - 1)
      BY <1>1
    <3> QED BY <1>1, <1>2, <3>1 DEF v
  <2>4. Order!Reaches(node(i), v)
    BY <1>1, <1>3, <2>3 DEF CallsReach, node
  <2> QED BY <2>1, <2>2, <2>4, ReachesOn
<1>7. c \subseteq visited /\ Found \subseteq visited /\ c \cap Found = {}
  BY <1>2, <1>3, <1>4 DEF Stacked
<1>8. Order!Closed(Found)
  BY <1>3, FoundIsClosed
<1>9. Order!Closed(c \cup Found)
  BY <1>5, <1>8 DEF Order!Closed
<1>10. ASSUME NEW p \in c, NEW q \in c PROVE Order!Together(p, q)
  BY <1>6, ReachesOn DEF Order!Together
<1>11. ASSUME NEW p \in c, NEW q \in visited, Order!Together(p, q) PROVE q \in c
  <2>1. q \in c \cup Found
    <3>1. c \cup Found \in SUBSET visited
      BY <1>7
    <3> QED BY <1>9, <1>11, <3>1 DEF Order!Together, Order!Reaches
  <2>2. q \notin Found
    <3>1. SUFFICES ASSUME q \in Found PROVE FALSE
      OBVIOUS
    <3>2. Found \in SUBSET visited
      BY <1>7
    <3>3. p \in Found
      BY <1>8, <1>11, <3>1, <3>2 DEF Order!Together, Order!Reaches
    <3> QED BY <1>7, <3>3
  <2> QED BY <2>1, <2>2
<1>12. \A p \in c : c = {q \in visited : Order!Together(p, q)}
  BY <1>7, <1>10, <1>11
<1> QED BY <1>5, <1>12 DEF v, node, m

(* A call that ends and is the root of a component.                        *)
LEMMA ReturnOfRootKeeps ==
  ASSUME TypeOK, Order!TypeOK, Tarjan, Order!Return,
         lowlink[callStack[Len(callStack)].node] = index[callStack[Len(callStack)].node]
  PROVE  Tarjan'
<1> DEFINE m == Len(callStack)
           node(i) == callStack[i].node
           v == node(m)
           c == {p \in OnStack : index[v] <= index[p]}
           k == Len(sccs) + 1
<1>1. /\ UNCHANGED <<visited, edges, index, later>>
      /\ m \in Nat \ {0} /\ DOMAIN callStack = 1..m /\ DOMAIN callStack' = 1..(m - 1)
      /\ \A i \in 1..(m - 1) : callStack'[i] = callStack[i]
      /\ v \in OnStack /\ v \in Seen
      /\ \A p \in Seen : /\ lowlink'[p] \in Nat /\ lowlink'[p] <= lowlink[p]
                         /\ lowlink'[p] # lowlink[p] =>
                              m > 1 /\ p = node(m - 1) /\ lowlink'[p] = lowlink[v]
  BY ReturnIs
<1>2. /\ Seen' = Seen /\ OnStack \subseteq Seen /\ \A i \in 1..m : node(i) \in OnStack
      /\ \A p \in Seen : index[p] \in Nat /\ lowlink[p] \in Nat /\ lowlink[p] <= index[p]
      /\ \A i \in 1..(m - 1) : i \in 1..m /\ index[node(i)] < index[v]
      /\ \A p, q : Explored(p, q)' => Explored(p, q)
      /\ Numbering' /\ ExploredIsSeen' /\ NotSorted'
  BY ReturnStays
<1>3. /\ \A p : Order!Neighbors(p)' = Order!Neighbors(p)
      /\ \A p, q : Order!Reaches(p, q)' <=> Order!Reaches(p, q)
      /\ \A p, q : Order!Together(p, q)' <=> Order!Together(p, q)
  BY <1>1, GraphStays
<1>4. /\ Stacked /\ CallsAreAPath /\ CallsReach /\ ReachesACall
      /\ LowLinkIsReached /\ LowLinkIsLow /\ Components
  BY DEF Tarjan
<1>5. /\ DOMAIN stack' \subseteq DOMAIN stack
      /\ \A i \in DOMAIN stack' : stack'[i] = stack[i]
      /\ OnStack' = OnStack \ c
      /\ DOMAIN sccs' = 1..k /\ DOMAIN sccs = 1..Len(sccs) /\ k \in Nat
      /\ sccs'[k] = c /\ \A i \in DOMAIN sccs : i \in 1..k /\ i < k /\ sccs'[i] = sccs[i]
      /\ Found' = Found \cup c
  BY ComponentIs
<1>6. /\ \A p \in c : c = {q \in visited : Order!Together(p, q)}
      /\ \A p \in c : Order!Neighbors(p) \subseteq c \cup Found
  BY ComponentIsComplete
<1>7. \A i \in 1..(m - 1) : callStack'[i].node = node(i) /\ callStack'[i].todo = callStack[i].todo
  BY <1>1
<1>8. \A i \in 1..k : i = k \/ i \in DOMAIN sccs
  BY <1>5
<1> HIDE DEF m, node, v, k
<1>9. /\ \A p \in OnStack : p \in OnStack' <=> index[p] < index[v]
      /\ OnStack' \subseteq OnStack
      /\ \A i \in 1..(m - 1) : i \in 1..m /\ node(i) \in OnStack'
  BY <1>1, <1>2, <1>5
<1>10. Stacked'
  <2>1. \A i, j \in DOMAIN stack' : i < j => index'[stack'[i]] < index'[stack'[j]]
    BY <1>1, <1>4, <1>5 DEF Stacked
  <2>2. OnStack' \cap Found' = {} /\ OnStack' \cup Found' = Seen'
    BY <1>2, <1>4, <1>5 DEF Stacked
  <2> QED BY <2>1, <2>2 DEF Stacked
<1>11. CallsAreAPath'
  <2>1. \A i \in 1..(m - 1) : /\ callStack'[i].node \in OnStack'
                              /\ callStack'[i].todo \subseteq Order!Neighbors(callStack'[i].node)
    BY <1>1, <1>4, <1>7, <1>9 DEF CallsAreAPath, node
  <2>2. \A i, j \in 1..(m - 1) : i < j => index'[callStack'[i].node] < index'[callStack'[j].node]
    BY <1>1, <1>4, <1>7, <1>9 DEF CallsAreAPath, node
  <2>3. \A i \in 1..(m - 1) : i + 1 \in 1..(m - 1) =>
          callStack'[i + 1].node \in Order!Neighbors(callStack'[i].node)
    BY <1>1, <1>4, <1>7, <1>9 DEF CallsAreAPath, node
  <2> QED BY <1>1, <1>3, <2>1, <2>2, <2>3 DEF CallsAreAPath
<1>12. CallsReach'
  BY <1>1, <1>3, <1>4, <1>7, <1>9 DEF CallsReach, node
<1>13. ReachesACall'
  <2> SUFFICES ASSUME NEW p \in OnStack'
               PROVE  \E i \in 1..(m - 1) : index[node(i)] <= index[p] /\ Order!Reaches(p, node(i))
    BY <1>1, <1>3, <1>7 DEF ReachesACall
  <2>1. PICK i \in 1..m : index[node(i)] <= index[p] /\ Order!Reaches(p, node(i))
    BY <1>1, <1>4, <1>9 DEF ReachesACall, node
  <2>2. i # m
    BY <1>1, <1>2, <1>9, <2>1 DEF v
  <2>3. i \in 1..(m - 1)
    BY <1>1, <2>2
  <2> QED BY <2>1, <2>3
<1>14. ASSUME NEW i \in 1..(m - 1) PROVE lowlink'[node(i)] = lowlink[node(i)]
  <2>1. SUFFICES ASSUME lowlink'[node(i)] # lowlink[node(i)] PROVE FALSE
    OBVIOUS
  <2>2. node(i) \in Seen /\ index[node(i)] < index[v] /\ lowlink[v] = index[v]
    BY <1>2 DEF v, node, m
  <2>3. lowlink'[node(i)] = index[v] /\ lowlink'[node(i)] <= lowlink[node(i)]
    BY <1>1, <2>1, <2>2
  <2> QED BY <1>1, <1>2, <2>2, <2>3
<1>15. LowLinkIsReached'
  <2> SUFFICES ASSUME NEW i \in 1..(m - 1)
               PROVE  \E p \in OnStack' : index[p] = lowlink[node(i)] /\ Order!Reaches(node(i), p)
    BY <1>1, <1>3, <1>7, <1>14 DEF LowLinkIsReached
  <2>1. PICK p \in OnStack : index[p] = lowlink[node(i)] /\ Order!Reaches(node(i), p)
    BY <1>1, <1>4, <1>9 DEF LowLinkIsReached, node
  <2>2. index[p] < index[v]
    BY SMTT(30), <1>1, <1>2, <2>1
  <2> QED BY <1>9, <2>1, <2>2
<1>16. LowLinkIsLow'
  <2> SUFFICES ASSUME NEW i \in 1..(m - 1), NEW p \in OnStack', NEW q \in OnStack',
                      index[node(i)] <= index[p],
                      i + 1 \in 1..(m - 1) => index[p] < index[node(i + 1)],
                      Explored(p, q)
               PROVE  lowlink[node(i)] <= index[q]
    BY <1>1, <1>2, <1>7, <1>14 DEF LowLinkIsLow, Between
  <2>1. ASSUME i + 1 \in 1..m PROVE index[p] < index[node(i + 1)]
    <3>1. i + 1 = m \/ i + 1 \in 1..(m - 1)
      BY <1>1, <2>1
    <3> QED BY <1>9, <3>1 DEF v
  <2>2. Between(i, p)
    BY <1>1, <2>1 DEF Between, node
  <2> QED BY <1>1, <1>4, <1>9, <2>2 DEF LowLinkIsLow, node
<1>17. Components'
  <2>1. \A i \in 1..k : sccs'[i] # {}
    <3>1. v \in c
      BY <1>1, <1>2
    <3> HIDE DEF c
    <3> QED BY <1>4, <1>5, <1>8, <3>1 DEF Components
  <2>2. \A i, j \in 1..k : i # j => sccs'[i] \cap sccs'[j] = {}
    <3>1. \A i \in DOMAIN sccs : sccs[i] \cap c = {}
      BY <1>4 DEF Stacked, Found
    <3> QED BY <1>4, <1>5, <1>8, <3>1 DEF Components
  <2>3. \A i \in 1..k : \A p \in sccs'[i] : sccs'[i] = {q \in visited : Order!Together(p, q)}
    <3> HIDE DEF c
    <3> QED BY <1>4, <1>5, <1>6, <1>8 DEF Components
  <2>4. ASSUME NEW i \in 1..k, NEW p \in sccs'[i], NEW q \in Order!Neighbors(p)
        PROVE  \E j \in 1..k : j <= i /\ q \in sccs'[j]
    <3>1. CASE i = k
      <4>1. CASE q \in c
        BY <1>5, <3>1, <4>1
      <4>2. CASE q \in Found
        <5>1. PICK j \in DOMAIN sccs : q \in sccs[j]
          BY <4>2 DEF Found
        <5> QED BY <1>5, <3>1, <5>1
      <4> QED BY <1>5, <1>6, <2>4, <3>1, <4>1, <4>2
    <3>2. CASE i \in DOMAIN sccs
      <4>1. PICK j \in DOMAIN sccs : j <= i /\ q \in sccs[j]
        BY <1>4, <1>5, <2>4, <3>2 DEF Components
      <4> QED BY <1>5, <4>1
    <3> QED BY <1>8, <3>1, <3>2
  <2>5. \A p : {q \in visited : Order!Together(p, q)'} = {q \in visited : Order!Together(p, q)}
    BY <1>3
  <2> QED BY SMTT(30), <1>1, <1>3, <1>5, <2>1, <2>2, <2>3, <2>4, <2>5 DEF Components
<1> QED BY <1>2, <1>10, <1>11, <1>12, <1>13, <1>15, <1>16, <1>17 DEF Tarjan

LEMMA ReturnKeeps ==
  ASSUME TypeOK, Order!TypeOK, Tarjan, Order!Return
  PROVE  Tarjan'
BY ReturnToCallerKeeps, ReturnOfRootKeeps

-----------------------------------------------------------------------------
(* Kahn's algorithm                                                        *)

Sorted   == {sccOrder[n] : n \in DOMAIN sccOrder}
Before(c, d) == \E p \in c, q \in d : Order!Edge(p, q)
Preds(j) == {i \in DOMAIN sccs : i # j /\ Before(sccs[i], sccs[j])}

(* A component comes once, after those that it depends on.                 *)
SortedFirst ==
  /\ \A m, n \in DOMAIN sccOrder : sccOrder[m] = sccOrder[n] => m = n
  /\ \A n \in DOMAIN sccOrder : \A j : sccOrder[n] = j =>
       \A i \in Preds(j) : \E m \in DOMAIN sccOrder : m < n /\ sccOrder[m] = i

(* What is counted of a component is how many of those are not sorted yet. *)
Counted ==
  /\ DOMAIN inDegree = DOMAIN sccs
  /\ \A j \in DOMAIN sccs : inDegree[j] = Cardinality(Preds(j) \ Sorted)
  /\ ready = {j \in DOMAIN sccs \ Sorted : inDegree[j] = 0}

NotExpanded == pos = 1 /\ remaining = {} /\ order = << >>

(* The pairs of condensed_adj are the dependencies.                        *)
Condensed ==
  \A j \in DOMAIN sccs : \A i \in DOMAIN sccs : <<i, j>> \in condensedAdj <=> i \in Preds(j)

Kahn == Components /\ Found = visited /\ SortedFirst /\ Condensed /\ Counted /\ NotExpanded

(* While the edges are counted: a pair that is known is a dependency, one  *)
(* that is not is still to come with each of its edges, and the in-degrees *)
(* count the known ones.                                                   *)
Known(j) == {i \in DOMAIN sccs : <<i, j>> \in condensedAdj}

Counting ==
  /\ Components /\ Found = visited /\ NotExpanded
  /\ ready = {} /\ sccOrder = << >>
  /\ DOMAIN inDegree = DOMAIN sccs
  /\ \A j \in DOMAIN sccs :
       /\ inDegree[j] = Cardinality(Known(j))
       /\ Known(j) \subseteq Preds(j)
       /\ \A i \in DOMAIN sccs \ Known(j) : i # j =>
            \A p \in sccs[i], q \in sccs[j] :
              Order!Edge(p, q) => <<<<p, q>>, 1>> \in uncounted

LEMMA PredsStay ==
  ASSUME UNCHANGED <<edges, sccs>> PROVE \A j : Preds(j)' = Preds(j)
BY DEF Preds, Before, Order!Edge

(* A component depends on those alone that were found after it.            *)
LEMMA PredsAreLater ==
  ASSUME Order!TypeOK, Components, NEW j \in DOMAIN sccs, NEW i \in Preds(j)
  PROVE  j < i
<1>1. DOMAIN sccs \subseteq Nat /\ sccs[j] \subseteq visited
  BY TarjanTypes
<1>2. PICK p \in sccs[i], q \in sccs[j] : Order!Edge(p, q)
  BY DEF Preds, Before
<1>3. q \in Order!Neighbors(p)
  BY <1>1, <1>2 DEF Order!Neighbors
<1>4. PICK k \in DOMAIN sccs : k <= i /\ q \in sccs[k]
  BY <1>3 DEF Components, Preds
<1>5. k = j
  BY <1>2, <1>4 DEF Components
<1> QED BY <1>1, <1>4, <1>5 DEF Preds

LEMMA PredsAreFinite ==
  ASSUME Order!TypeOK, NEW j, NEW S
  PROVE  /\ IsFiniteSet(Preds(j) \ S) /\ Cardinality(Preds(j) \ S) \in Nat
         /\ Cardinality(Preds(j) \ S) = 0 <=> Preds(j) \subseteq S
<1>1. DOMAIN sccs = 1..Len(sccs) /\ Len(sccs) \in Nat
  BY TarjanTypes
<1>2. IsFiniteSet(DOMAIN sccs)
  BY <1>1, FS_Interval
<1>3. IsFiniteSet(Preds(j) \ S)
  BY <1>2, FS_Subset DEF Preds
<1> QED BY <1>3, FS_CardinalityType, FS_EmptySet

LEMMA CondenseKeeps ==
  ASSUME TypeOK, Order!TypeOK, Tarjan, Order!Condense
  PROVE  Counting'
<1>1. /\ UNCHANGED <<visited, edges, index, stack, callStack, sccs, condensedAdj, ready, sccOrder,
                      pos, remaining, order>>
      /\ callStack = << >> /\ visited = Seen
      /\ uncounted' = Order!Entries /\ inDegree' = [i \in DOMAIN sccs |-> 0]
  BY DEF Order!Condense, Order!input, Order!tarjan, Order!expanded, Seen
<1>2. DOMAIN callStack = {}
  BY <1>1
<1>3. OnStack = {}
  BY <1>2 DEF Tarjan, ReachesACall
<1>4. Found = visited
  BY <1>1, <1>3 DEF Tarjan, Stacked
<1>5. Components' /\ Found' = visited' /\ NotExpanded'
  BY <1>1, <1>4, ComponentsStay DEF Tarjan, NotSorted, NotExpanded, Found
<1>6. condensedAdj' = {} /\ ready' = {} /\ sccOrder' = << >> /\ \A j : Known(j)' = {}
  BY <1>1 DEF Tarjan, NotSorted, Known
<1>7. ASSUME NEW i \in DOMAIN sccs, NEW j \in DOMAIN sccs, NEW p \in sccs[i], NEW q \in sccs[j],
             Order!Edge(p, q)
      PROVE  <<<<p, q>>, 1>> \in uncounted'
  <2>1. p \in Packages /\ q \in Packages
    BY <1>7, TarjanTypes DEF TypeOK
  <2>2. edges[<<p, q>>] \in 0..Cardinality(Reqs) /\ edges[<<p, q>>] > 0
    BY <1>7, <2>1 DEF TypeOK, Order!Edge
  <2>3. 1 <= edges[<<p, q>>] /\ 1 \in 1..Cardinality(Reqs)
    BY <2>2, CountsAreNat
  <2> QED BY <1>1, <2>1, <2>3 DEF Order!Entries
<1>8. \A p, q : Order!Edge(p, q)' <=> Order!Edge(p, q)
  BY <1>1, GraphStays
<1>9. Cardinality({}) = 0
  BY FS_EmptySet
<1>10. DOMAIN inDegree' = DOMAIN sccs' /\ \A j \in DOMAIN sccs' : inDegree'[j] = Cardinality(Known(j)')
  BY <1>1, <1>6, <1>9
<1>11. \A j \in DOMAIN sccs' : \A i \in DOMAIN sccs' : \A p \in sccs'[i], q \in sccs'[j] :
         Order!Edge(p, q)' => <<<<p, q>>, 1>> \in uncounted'
  BY <1>1, <1>7, <1>8
<1> QED BY <1>5, <1>6, <1>10, <1>11 DEF Counting

(* An entry of the list adds a pair or none.                               *)
LEMMA CountEdgeIs ==
  ASSUME TypeOK, Order!TypeOK, Counting, Order!CountEdge
  PROVE  \E x \in uncounted :
           LET new == Order!NewPair(x[1][1], x[1][2]) IN
           /\ UNCHANGED <<visited, edges, index, stack, callStack, sccs, ready, sccOrder, pos,
                          remaining, order, phase>>
           /\ uncounted' = uncounted \ {x} /\ condensedAdj' = condensedAdj \cup new
           /\ inDegree' = [j \in DOMAIN sccs |->
                             IF \E c \in new : c[2] = j THEN inDegree[j] + 1 ELSE inDegree[j]]
           /\ x[1] \in Packages \X Packages /\ x = <<<<x[1][1], x[1][2]>>, x[2]>>
           /\ Order!Edge(x[1][1], x[1][2])
<1> DEFINE x == CHOOSE x \in uncounted : TRUE
           new == Order!NewPair(x[1][1], x[1][2])
<1>1. /\ UNCHANGED <<visited, edges, index, stack, callStack, sccs, ready, sccOrder, pos,
                     remaining, order, phase>>
      /\ uncounted # {}
      /\ uncounted' = uncounted \ {x} /\ condensedAdj' = condensedAdj \cup new
      /\ inDegree' = [j \in DOMAIN sccs |->
                        IF \E c \in new : c[2] = j THEN inDegree[j] + 1 ELSE inDegree[j]]
  BY DEF Order!CountEdge, Order!input, Order!tarjan, Order!expanded
<1>2. x \in uncounted
  BY <1>1
<1> HIDE DEF x
<1>3. x \in (Packages \X Packages) \X (1..Cardinality(Reqs)) /\ x[2] <= edges[x[1]]
  BY <1>2 DEF Order!TypeOK, Order!Entries
<1>4. x[1] \in Packages \X Packages /\ x[2] \in 1..Cardinality(Reqs) /\ x = <<x[1], x[2]>>
  BY <1>3
<1>5. x[1] = <<x[1][1], x[1][2]>>
  BY <1>4
<1>6. edges[x[1]] \in Nat /\ x[2] \in Nat /\ x[2] >= 1
  BY <1>4 DEF TypeOK
<1>7. edges[<<x[1][1], x[1][2]>>] > 0
  BY <1>3, <1>5, <1>6
<1> QED BY <1>1, <1>2, <1>4, <1>5, <1>7 DEF Order!Edge

LEMMA CountEdgeKeeps ==
  ASSUME TypeOK, Order!TypeOK, Counting, Order!CountEdge
  PROVE  Counting'
<1>1. PICK x \in uncounted :
        LET new == Order!NewPair(x[1][1], x[1][2]) IN
        /\ UNCHANGED <<visited, edges, sccs, ready, sccOrder, pos, remaining, order>>
        /\ uncounted' = uncounted \ {x} /\ condensedAdj' = condensedAdj \cup new
        /\ inDegree' = [j \in DOMAIN sccs |->
                          IF \E c \in new : c[2] = j THEN inDegree[j] + 1 ELSE inDegree[j]]
        /\ x = <<<<x[1][1], x[1][2]>>, x[2]>> /\ Order!Edge(x[1][1], x[1][2])
  BY CountEdgeIs
<1> DEFINE d == x[1][1]
           p == x[1][2]
           new == Order!NewPair(d, p)
<1>2. new = {c \in (DOMAIN sccs) \X (DOMAIN sccs) :
               d \in sccs[c[1]] /\ p \in sccs[c[2]] /\ c[1] # c[2] /\ c \notin condensedAdj}
  BY DEF Order!NewPair, Order!Component
<1>3. \A j : Preds(j)' = Preds(j)
  BY <1>1, PredsStay
<1>4. Components' /\ Found' = visited' /\ NotExpanded' /\ ready' = {} /\ sccOrder' = << >>
  BY <1>1, ComponentsStay DEF Counting, NotExpanded, Found
<1>5. DOMAIN inDegree' = DOMAIN sccs'
  BY <1>1
<1>a. /\ uncounted' = uncounted \ {x} /\ condensedAdj' = condensedAdj \cup new
      /\ inDegree' = [j \in DOMAIN sccs |->
                        IF \E c \in new : c[2] = j THEN inDegree[j] + 1 ELSE inDegree[j]]
      /\ x = <<<<d, p>>, x[2]>> /\ Order!Edge(d, p) /\ sccs' = sccs
  BY <1>1
<1> HIDE DEF d, p, new
<1>6. ASSUME NEW j \in DOMAIN sccs
      PROVE  /\ inDegree'[j] = Cardinality(Known(j)')
             /\ Known(j)' \subseteq Preds(j)
  <2>1. inDegree[j] = Cardinality(Known(j)) /\ Known(j) \subseteq Preds(j)
    BY DEF Counting
  <2>2. IsFiniteSet(Known(j)) /\ Cardinality(Known(j)) \in Nat
    <3>1. IsFiniteSet(Preds(j) \ {})
      BY PredsAreFinite
    <3> QED BY <2>1, <3>1, FS_Subset, FS_CardinalityType
  <2>3. CASE \E c \in new : c[2] = j
    <3>1. PICK i \in DOMAIN sccs : <<i, j>> \in new
      BY <1>2, <2>3
    <3>2. d \in sccs[i] /\ p \in sccs[j] /\ i # j /\ <<i, j>> \notin condensedAdj
      BY <1>2, <3>1
    <3>3. \A h \in DOMAIN sccs : <<h, j>> \in new => h = i
      BY <1>2, <3>2 DEF Counting, Components
    <3>4. Known(j)' = Known(j) \cup {i} /\ i \notin Known(j)
      BY <1>a, <3>1, <3>2, <3>3 DEF Known
    <3>5. Cardinality(Known(j)') = Cardinality(Known(j)) + 1
      BY <2>2, <3>4, FS_AddElement
    <3>6. i \in Preds(j)
      BY <1>a, <3>2 DEF Preds, Before
    <3> QED BY <1>a, <2>1, <2>3, <3>4, <3>5, <3>6
  <2>4. CASE ~\E c \in new : c[2] = j
    <3>1. Known(j)' = Known(j)
      BY <1>a, <2>4 DEF Known
    <3> QED BY <1>a, <2>1, <2>4, <3>1
  <2> QED BY <2>3, <2>4
<1>7. ASSUME NEW j \in DOMAIN sccs, NEW i \in DOMAIN sccs, i \notin Known(j)', i # j,
             NEW a \in sccs[i], NEW b \in sccs[j], Order!Edge(a, b)
      PROVE  <<<<a, b>>, 1>> \in uncounted'
  <2>1. <<i, j>> \notin condensedAdj /\ <<i, j>> \notin new
    BY <1>a, <1>7 DEF Known
  <2>2. <<<<a, b>>, 1>> \in uncounted
    BY <1>7, <2>1 DEF Counting, Known
  <2>3. ~(a = d /\ b = p)
    BY <1>2, <1>7, <2>1
  <2>4. <<<<a, b>>, 1>> # x
    BY <1>a, <2>3
  <2> QED BY <1>a, <2>2, <2>4
<1>8. \A a, b : Order!Edge(a, b)' <=> Order!Edge(a, b)
  BY <1>1, GraphStays
<1> QED BY <1>3, <1>4, <1>5, <1>6, <1>7, <1>8, <1>a DEF Counting

(* When all are counted, all dependencies are known.                       *)
LEMMA CountEndsKeeps ==
  ASSUME TypeOK, Order!TypeOK, Counting, Order!CountEnds
  PROVE  Kahn'
<1>1. /\ UNCHANGED <<visited, edges, sccs, condensedAdj, inDegree, sccOrder, pos, remaining, order>>
      /\ uncounted = {} /\ ready' = {i \in DOMAIN sccs : inDegree[i] = 0}
  BY DEF Order!CountEnds, Order!input, Order!tarjan, Order!expanded
<1>2. Components' /\ Found' = visited' /\ NotExpanded'
  BY <1>1, ComponentsStay DEF Counting, NotExpanded, Found
<1>3. sccOrder' = << >> /\ DOMAIN sccOrder' = {} /\ Sorted' = {}
  BY <1>1 DEF Counting, Sorted
<1>4. SortedFirst'
  BY <1>3 DEF SortedFirst
<1>5. \A j \in DOMAIN sccs : Known(j) = Preds(j)
  BY <1>1 DEF Counting, Preds, Before, Known
<1>6. \A j : Preds(j)' = Preds(j)
  BY <1>1, PredsStay
<1>7. Condensed'
  BY <1>1, <1>5, <1>6 DEF Condensed, Known
<1>8. \A j \in DOMAIN sccs : inDegree'[j] = Cardinality(Preds(j))
  BY <1>1, <1>5 DEF Counting
<1>9. Counted'
  BY <1>1, <1>3, <1>6, <1>8 DEF Counted, Counting
<1> QED BY <1>2, <1>4, <1>7, <1>9 DEF Kahn

LEMMA SortIs ==
  ASSUME TypeOK, Order!TypeOK, Kahn, Order!Sort
  PROVE  \E i \in ready :
           /\ UNCHANGED <<visited, edges, sccs, condensedAdj, pos, remaining, order>>
           /\ sccOrder' = Append(sccOrder, i) /\ sccOrder' \in Seq(DOMAIN sccs)
           /\ Len(sccOrder) \in Nat
           /\ DOMAIN sccOrder = 1..Len(sccOrder) /\ DOMAIN sccOrder' = 1..(Len(sccOrder) + 1)
           /\ sccOrder'[Len(sccOrder) + 1] = i /\ \A n \in DOMAIN sccOrder : sccOrder'[n] = sccOrder[n]
           /\ inDegree' = [j \in DOMAIN sccs |-> IF i \in Preds(j) THEN inDegree[j] - 1 ELSE inDegree[j]]
           /\ ready' = (ready \ {i}) \cup {j \in DOMAIN sccs : i \in Preds(j) /\ inDegree'[j] = 0}
<1> DEFINE i == Order!Min(ready)
           after == {j \in DOMAIN sccs : <<i, j>> \in condensedAdj}
<1>1. /\ UNCHANGED <<visited, edges, sccs, condensedAdj, pos, remaining, order>> /\ ready # {}
      /\ sccOrder' = Append(sccOrder, i)
      /\ inDegree' = [j \in DOMAIN sccs |-> IF j \in after THEN inDegree[j] - 1 ELSE inDegree[j]]
      /\ ready' = (ready \ {i}) \cup {j \in after : inDegree'[j] = 0}
  BY DEF Order!Sort, Order!input, Order!tarjan, Order!expanded
<1>2. ready \subseteq DOMAIN sccs /\ DOMAIN sccs \subseteq Nat /\ sccOrder \in Seq(DOMAIN sccs)
  BY TarjanTypes DEF Order!TypeOK
<1>3. \E n \in ready : \A k \in ready : n <= k
  BY <1>1, <1>2, SmallestMember
<1>4. i \in ready
  BY <1>3 DEF Order!Min
<1> HIDE DEF i
<1>5. \A j \in DOMAIN sccs : j \in after <=> i \in Preds(j)
  BY <1>2, <1>4 DEF Kahn, Condensed
<1> DEFINE D == DOMAIN sccs
<1>6. i \in D /\ sccOrder \in Seq(D)
  BY <1>2, <1>4
<1> HIDE DEF D
<1>7. /\ sccOrder' \in Seq(D) /\ Len(sccOrder) \in Nat /\ DOMAIN sccOrder = 1..Len(sccOrder)
      /\ DOMAIN sccOrder' = 1..(Len(sccOrder) + 1) /\ sccOrder'[Len(sccOrder) + 1] = i
      /\ \A n \in DOMAIN sccOrder : sccOrder'[n] = sccOrder[n]
  BY <1>1, <1>6
<1> HIDE DEF after
<1>8. inDegree' = [j \in DOMAIN sccs |-> IF i \in Preds(j) THEN inDegree[j] - 1 ELSE inDegree[j]]
  BY <1>1, <1>5
<1>9. {j \in after : inDegree'[j] = 0} = {j \in DOMAIN sccs : i \in Preds(j) /\ inDegree'[j] = 0}
  BY <1>5 DEF after
<1> QED BY <1>1, <1>4, <1>7, <1>8, <1>9 DEF D

LEMMA SortKeeps ==
  ASSUME TypeOK, Order!TypeOK, Kahn, Order!Sort
  PROVE  Kahn'
<1> DEFINE k == Len(sccOrder) + 1
<1>1. PICK i \in ready :
        /\ UNCHANGED <<visited, edges, sccs, condensedAdj, pos, remaining, order>>
        /\ Len(sccOrder) \in Nat
        /\ DOMAIN sccOrder = 1..Len(sccOrder) /\ DOMAIN sccOrder' = 1..k
        /\ sccOrder'[k] = i /\ \A n \in DOMAIN sccOrder : sccOrder'[n] = sccOrder[n]
        /\ inDegree' = [j \in DOMAIN sccs |-> IF i \in Preds(j) THEN inDegree[j] - 1 ELSE inDegree[j]]
        /\ ready' = (ready \ {i}) \cup {j \in DOMAIN sccs : i \in Preds(j) /\ inDegree'[j] = 0}
  BY SortIs
<1>2. Components /\ Found = visited /\ SortedFirst /\ Counted /\ NotExpanded
  BY DEF Kahn
<1>3. \A j : Preds(j)' = Preds(j)
  BY <1>1, PredsStay
<1>4. Components' /\ Found' = visited' /\ NotExpanded'
  BY <1>1, <1>2, ComponentsStay DEF NotExpanded, Found
<1>5. /\ k \in Nat /\ k \in 1..k /\ \A n \in DOMAIN sccOrder : n \in 1..k /\ n < k
      /\ \A n \in 1..k : n = k \/ n \in DOMAIN sccOrder
  BY <1>1
<1> HIDE DEF k
<1>6. i \in DOMAIN sccs /\ i \notin Sorted /\ Preds(i) \subseteq Sorted
  BY <1>2, PredsAreFinite DEF Counted
<1>7. Sorted' = Sorted \cup {i}
  BY <1>1, <1>5 DEF Sorted
<1>8. SortedFirst'
  <2>1. \A m, n \in 1..k : sccOrder'[m] = sccOrder'[n] => m = n
    <3>1. \A n \in DOMAIN sccOrder : sccOrder[n] # i
      BY <1>6 DEF Sorted
    <3> QED BY <1>1, <1>2, <1>5, <3>1 DEF SortedFirst
  <2>2. ASSUME NEW n \in 1..k, NEW j, sccOrder'[n] = j, NEW h \in Preds(j)
        PROVE  \E m \in 1..k : m < n /\ sccOrder'[m] = h
    <3>1. CASE n = k
      <4>1. PICK m \in DOMAIN sccOrder : sccOrder[m] = h
        BY <1>1, <1>6, <2>2, <3>1 DEF Sorted
      <4> QED BY <1>1, <1>5, <3>1, <4>1
    <3>2. CASE n \in DOMAIN sccOrder
      <4>1. PICK m \in DOMAIN sccOrder : m < n /\ sccOrder[m] = h
        BY <1>1, <1>2, <2>2, <3>2 DEF SortedFirst
      <4> QED BY <1>1, <1>5, <4>1
    <3> QED BY <1>5, <3>1, <3>2
  <2> QED BY <1>1, <1>3, <2>1, <2>2 DEF SortedFirst
<1>9. ASSUME NEW j \in DOMAIN sccs
      PROVE  inDegree'[j] = Cardinality(Preds(j) \ Sorted')
  <2>1. inDegree[j] = Cardinality(Preds(j) \ Sorted)
    BY <1>2 DEF Counted
  <2>2. CASE i \in Preds(j)
    <3>1. i \in Preds(j) \ Sorted /\ (Preds(j) \ Sorted) \ {i} = Preds(j) \ Sorted'
      BY <1>6, <1>7, <2>2
    <3>2. Cardinality((Preds(j) \ Sorted) \ {i}) = Cardinality(Preds(j) \ Sorted) - 1
      BY <3>1, PredsAreFinite, FS_RemoveElement
    <3> QED BY <1>1, <2>1, <2>2, <3>1, <3>2
  <2>3. CASE i \notin Preds(j)
    <3>1. Preds(j) \ Sorted = Preds(j) \ Sorted'
      BY <1>7, <2>3
    <3> QED BY <1>1, <2>1, <2>3, <3>1
  <2> QED BY <2>2, <2>3
<1>10. ready' = {j \in DOMAIN sccs \ Sorted' : inDegree'[j] = 0}
  <2>1. ASSUME NEW j \in ready \ {i} PROVE j \in DOMAIN sccs \ Sorted' /\ inDegree'[j] = 0
    <3>1. j \in DOMAIN sccs \ Sorted /\ inDegree[j] = 0
      BY <1>2 DEF Counted
    <3>2. Preds(j) \subseteq Sorted
      BY <1>2, <3>1, PredsAreFinite DEF Counted
    <3> QED BY <1>1, <1>6, <1>7, <3>1, <3>2
  <2>2. ASSUME NEW j \in DOMAIN sccs, i \in Preds(j), inDegree'[j] = 0
        PROVE  j \in DOMAIN sccs \ Sorted'
    <3>1. j # i
      BY <2>2 DEF Preds
    <3>2. j \notin Sorted
      <4>1. SUFFICES ASSUME NEW n \in DOMAIN sccOrder, sccOrder[n] = j PROVE FALSE
        BY DEF Sorted
      <4>2. i \in Sorted
        BY <1>2, <2>2, <4>1 DEF SortedFirst, Sorted
      <4> QED BY <1>6, <4>2
    <3> QED BY <1>7, <3>1, <3>2
  <2>3. ASSUME NEW j \in DOMAIN sccs \ Sorted', inDegree'[j] = 0, i \notin Preds(j)
        PROVE  j \in ready \ {i}
    <3>1. inDegree[j] = 0
      BY <1>1, <2>3
    <3> QED BY <1>2, <1>7, <2>3, <3>1 DEF Counted
  <2> QED BY <1>1, <2>1, <2>2, <2>3
<1>11. Counted' /\ Condensed'
  BY <1>1, <1>2, <1>3, <1>9, <1>10 DEF Counted, Kahn, Condensed
<1> QED BY <1>4, <1>8, <1>11 DEF Kahn

LEMMA NothingInOrder == Order!InOrder({}) = << >>
<1>1. Order!Cardinality({}) = 0
  BY CountsTheSame, FS_EmptySet
<1>2. DOMAIN Order!InOrder({}) = {}
  BY <1>1 DEF Order!InOrder
<1> QED BY <1>1 DEF Order!InOrder

(* When no component is ready, all are sorted: of those that are not, the  *)
(* one found last depends on no other.                                     *)
LEMMA AllSorted ==
  ASSUME TypeOK, Order!TypeOK, Kahn, ready = {}
  PROVE  Sorted = DOMAIN sccs
<1>1. Len(sccs) \in Nat /\ DOMAIN sccs = 1..Len(sccs)
  BY TarjanTypes
<1>2. Sorted \subseteq DOMAIN sccs
  <2>1. sccOrder \in Seq(DOMAIN sccs)
    BY DEF Order!TypeOK
  <2> QED BY <2>1, ElementOfSeq, LenProperties DEF Sorted
<1>3. SUFFICES ASSUME DOMAIN sccs \ Sorted # {} PROVE FALSE
  BY <1>2
<1> DEFINE T == {Len(sccs) - j : j \in DOMAIN sccs \ Sorted}
<1>4. T \subseteq Nat /\ T # {}
  BY <1>1, <1>3
<1>5. PICK n \in T : \A m \in T : n <= m
  BY <1>4, SmallestMember
<1>6. PICK k \in DOMAIN sccs \ Sorted : \A j \in DOMAIN sccs \ Sorted : j <= k
  <2>1. PICK k \in DOMAIN sccs \ Sorted : n = Len(sccs) - k
    OBVIOUS
  <2>2. ASSUME NEW j \in DOMAIN sccs \ Sorted PROVE j <= k
    <3>1. Len(sccs) - j \in T
      OBVIOUS
    <3>2. Len(sccs) - k <= Len(sccs) - j
      BY <1>5, <2>1, <3>1
    <3> QED BY <1>1, <3>2
  <2> QED BY <2>2
<1>7. Preds(k) \subseteq Sorted
  <2>1. ASSUME NEW i \in Preds(k), i \notin Sorted PROVE FALSE
    <3>1. k < i
      BY PredsAreLater DEF Kahn
    <3>2. i <= k
      BY <1>6, <2>1 DEF Preds
    <3> QED BY <1>1, <3>1, <3>2 DEF Preds
  <2> QED BY <2>1
<1>8. Cardinality(Preds(k) \ Sorted) = 0
  BY <1>7, PredsAreFinite
<1> QED BY <1>8 DEF Kahn, Counted

-----------------------------------------------------------------------------
(* Back to packages                                                        *)

Placed == {order[n] : n \in DOMAIN order}

(* The packages of the components before pos, and of the one at pos those  *)
(* that the greedy order has taken.                                        *)
Due == {p \in visited : \E n \in DOMAIN sccOrder :
          /\ p \in sccs[sccOrder[n]]
          /\ n < pos \/ (n = pos /\ remaining # {} /\ p \notin remaining)}

(* A package comes once, after those it depends on if they do not depend   *)
(* on it.                                                                  *)
InTurn ==
  /\ \A m, n \in DOMAIN order : order[m] = order[n] => m = n
  /\ \A n \in DOMAIN order : \A p : order[n] = p =>
       \A d \in visited : Order!Edge(d, p) =>
         Order!Together(d, p) \/ \E m \in DOMAIN order : m < n /\ order[m] = d

Expansion ==
  /\ Components /\ Found = visited /\ SortedFirst /\ Sorted = DOMAIN sccs
  /\ remaining # {} => pos \in DOMAIN sccOrder /\ remaining \subseteq sccs[sccOrder[pos]]
  /\ Placed = Due /\ InTurn

LEMMA SortEndsKeeps ==
  ASSUME TypeOK, Order!TypeOK, Kahn, Order!SortEnds
  PROVE  Expansion' /\ UNCHANGED sccOrder
<1>1. /\ UNCHANGED <<visited, edges, sccs, pos, remaining, order>> /\ ready = {}
      /\ sccOrder' = sccOrder \o Order!InOrder(DOMAIN sccs \ Order!Range(sccOrder))
  BY DEF Order!SortEnds, Order!input, Order!tarjan, Order!expanded
<1>2. Sorted = DOMAIN sccs
  BY <1>1, AllSorted
<1>3. DOMAIN sccs \ Order!Range(sccOrder) = {}
  BY <1>2 DEF Order!Range, Sorted
<1>4. sccOrder \in Seq(DOMAIN sccs)
  BY DEF Order!TypeOK
<1>5. sccOrder' = sccOrder \o << >>
  BY <1>1, <1>3, NothingInOrder
<1>6. sccOrder' = sccOrder
  BY <1>4, <1>5, ConcatEmptySeq
<1>7. Components' /\ Found' = visited' /\ Sorted' = DOMAIN sccs'
  BY <1>1, <1>2, <1>6, ComponentsStay DEF Kahn, Found, Sorted
<1>8. SortedFirst'
  <2>1. \A j : Preds(j)' = Preds(j)
    BY <1>1, PredsStay
  <2> QED BY <1>6, <2>1 DEF Kahn, SortedFirst
<1>9. remaining' = {} /\ order' = << >> /\ DOMAIN order' = {} /\ pos' = 1
  BY <1>1 DEF Kahn, NotExpanded
<1>10. Placed' = {} /\ Due' = {}
  <2>1. \A n \in DOMAIN sccOrder : ~(n < 1)
    BY <1>4
  <2> QED BY <1>6, <1>9, <2>1 DEF Placed, Due
<1>11. InTurn'
  BY <1>9 DEF InTurn
<1> QED BY <1>6, <1>7, <1>8, <1>9, <1>10, <1>11 DEF Expansion

(* The next package of the component at pos comes in its turn.             *)
LEMMA NextPlaced ==
  ASSUME TypeOK, Order!TypeOK, Expansion, pos \in DOMAIN sccOrder,
         NEW x, x \in sccs[sccOrder[pos]], remaining = {} \/ x \in remaining,
         UNCHANGED <<visited, edges, sccs, sccOrder>>, order' = Append(order, x)
  PROVE  /\ x \in visited /\ order' \in Seq(visited)
         /\ Placed' = Placed \cup {x} /\ InTurn'
<1> DEFINE k == Len(order) + 1
           c == sccs[sccOrder[pos]]
<1>1. /\ Components /\ Found = visited /\ SortedFirst /\ Sorted = DOMAIN sccs
      /\ Placed = Due /\ InTurn
  BY DEF Expansion
<1>2. /\ sccOrder[pos] \in DOMAIN sccs /\ \A j \in DOMAIN sccs : sccs[j] \subseteq visited
      /\ DOMAIN sccOrder \subseteq Nat
  <2>1. sccOrder \in Seq(DOMAIN sccs)
    BY DEF Order!TypeOK
  <2> QED BY <2>1, ElementOfSeq, LenProperties, TarjanTypes
<1>3. x \in visited /\ order \in Seq(visited)
  BY <1>2 DEF Order!TypeOK
<1>4. /\ order' \in Seq(visited) /\ Len(order) \in Nat /\ DOMAIN order = 1..Len(order)
      /\ DOMAIN order' = 1..k /\ order'[k] = x /\ \A n \in DOMAIN order : order'[n] = order[n]
  BY <1>3
<1>5. /\ k \in 1..k /\ \A n \in DOMAIN order : n \in 1..k /\ n < k
      /\ \A n \in 1..k : n = k \/ n \in DOMAIN order
  BY <1>4
<1> HIDE DEF k
<1>6. Placed' = Placed \cup {x}
  BY <1>4, <1>5 DEF Placed
<1>7. x \notin Placed
  <2>1. SUFFICES ASSUME NEW n \in DOMAIN sccOrder, x \in sccs[sccOrder[n]],
                        n < pos \/ (n = pos /\ remaining # {} /\ x \notin remaining)
                 PROVE  FALSE
    BY <1>1 DEF Due
  <2>2. sccOrder[n] \in DOMAIN sccs
    BY <1>1 DEF Sorted
  <2>3. n = pos
    BY <1>1, <1>2, <2>1, <2>2 DEF Components, SortedFirst
  <2> QED BY <1>2, <2>1, <2>3
<1>8. ASSUME NEW d \in visited, Order!Edge(d, x)
      PROVE  Order!Together(d, x) \/ d \in Placed
  <2>1. PICK n \in DOMAIN sccOrder : d \in sccs[sccOrder[n]]
    BY <1>1 DEF Found, Sorted
  <2>2. sccOrder[n] \in DOMAIN sccs
    BY <1>1 DEF Sorted
  <2>3. CASE n = pos
    <3>1. c = {q \in visited : Order!Together(d, q)}
      BY <1>1, <2>1, <2>2, <2>3 DEF Components
    <3> QED BY <3>1
  <2>4. CASE n # pos
    <3>1. sccOrder[n] # sccOrder[pos]
      BY <1>1, <2>4 DEF SortedFirst
    <3>2. sccOrder[n] \in Preds(sccOrder[pos])
      BY <1>8, <2>1, <2>2, <3>1 DEF Preds, Before
    <3>3. PICK m \in DOMAIN sccOrder : m < pos /\ sccOrder[m] = sccOrder[n]
      BY <1>1, <3>2 DEF SortedFirst
    <3>4. d \in Due
      BY <2>1, <3>3 DEF Due
    <3> QED BY <1>1, <3>4
  <2> QED BY <2>3, <2>4
<1>9. /\ \A p, q : Order!Together(p, q)' <=> Order!Together(p, q)
      /\ \A p, q : Order!Edge(p, q)' <=> Order!Edge(p, q)
  BY GraphStays
<1>10. \A m, n \in 1..k : order'[m] = order'[n] => m = n
  <2>1. \A n \in DOMAIN order : order[n] # x
    BY <1>7 DEF Placed
  <2> QED BY <1>1, <1>4, <1>5, <2>1 DEF InTurn
<1>11. ASSUME NEW n \in 1..k, NEW p, order'[n] = p, NEW d \in visited, Order!Edge(d, p)
       PROVE  Order!Together(d, p) \/ \E m \in 1..k : m < n /\ order'[m] = d
  <2>1. CASE n = k
    <3>1. Order!Together(d, p) \/ d \in Placed
      BY <1>4, <1>8, <1>11, <2>1
    <3>2. ASSUME d \in Placed PROVE \E m \in 1..k : m < n /\ order'[m] = d
      <4>1. PICK m \in DOMAIN order : order[m] = d
        BY <3>2 DEF Placed
      <4> QED BY <1>4, <1>5, <2>1, <4>1
    <3> QED BY <3>1, <3>2
  <2>2. CASE n \in DOMAIN order
    <3>1. Order!Together(d, p) \/ \E m \in DOMAIN order : m < n /\ order[m] = d
      BY <1>1, <1>4, <1>11, <2>2 DEF InTurn
    <3> QED BY <1>4, <1>5, <3>1
  <2> QED BY <1>5, <2>1, <2>2
<1>12. InTurn'
  <2>1. ASSUME NEW n \in 1..k, NEW p, order'[n] = p, NEW d \in visited, Order!Edge(d, p)'
        PROVE  Order!Together(d, p)' \/ \E m \in 1..k : m < n /\ order'[m] = d
    <3>1. Order!Edge(d, p)
      BY <1>9, <2>1
    <3> QED BY <1>9, <1>11, <2>1, <3>1
  <2>2. visited' = visited /\ DOMAIN order' = 1..k
    BY <1>4
  <2>3. \A m, n \in DOMAIN order' : order'[m] = order'[n] => m = n
    BY <1>10, <2>2
  <2>4. ASSUME NEW n \in DOMAIN order', NEW p, order'[n] = p, NEW d \in visited', Order!Edge(d, p)'
        PROVE  Order!Together(d, p)' \/ \E m \in DOMAIN order' : m < n /\ order'[m] = d
    <3>1. n \in 1..k /\ d \in visited
      BY <2>2
    <3>2. Order!Together(d, p)' \/ \E m \in 1..k : m < n /\ order'[m] = d
      BY <2>1, <2>4, <3>1
    <3> QED BY <2>2, <3>2
  <2> QED BY <2>3, <2>4 DEF InTurn
<1> QED BY <1>3, <1>4, <1>6, <1>12

LEMMA OneInSequence ==
  ASSUME NEW x PROVE Order!SetToSeq({x}) = <<x>>
<1>1. Order!Cardinality({x}) = 1
  BY CountsTheSame, FS_Singleton
<1>2. <<x>> \in [1..1 -> {x}] /\ Order!IsInjective(<<x>>)
  BY DEF Order!IsInjective
<1>3. \A f \in [1..1 -> {x}] : f = <<x>>
  <2> SUFFICES ASSUME NEW f \in [1..1 -> {x}] PROVE f = <<x>>
    OBVIOUS
  <2>1. f \in Seq({x}) /\ Len(f) = 1 /\ f[1] = x
    OBVIOUS
  <2> QED BY <2>1
<1> QED BY <1>1, <1>2, <1>3 DEF Order!SetToSeq

LEMMA PositionIs ==
  ASSUME Order!TypeOK
  PROVE  /\ pos \in Nat \ {0} /\ Len(sccOrder) \in Nat /\ DOMAIN sccOrder = 1..Len(sccOrder)
         /\ pos <= Len(sccOrder) + 1
         /\ \A n \in DOMAIN sccOrder : sccOrder[n] \in DOMAIN sccs
<1>1. sccOrder \in Seq(DOMAIN sccs) /\ pos \in 1..(Len(sccOrder) + 1)
  BY DEF Order!TypeOK
<1> QED BY <1>1, ElementOfSeq, LenProperties

(* What stays as it is while packages are placed.                          *)
LEMMA ExpansionStays ==
  ASSUME Expansion, UNCHANGED <<visited, edges, sccs, sccOrder>>
  PROVE  Components' /\ Found' = visited' /\ SortedFirst' /\ Sorted' = DOMAIN sccs'
<1>1. \A j : Preds(j)' = Preds(j)
  BY PredsStay
<1>2. SortedFirst'
  BY <1>1 DEF Expansion, SortedFirst
<1> QED BY <1>2, ComponentsStay DEF Expansion, Found, Sorted

LEMMA InTurnStays ==
  ASSUME InTurn, UNCHANGED <<visited, edges, order>> PROVE InTurn'
<1>1. /\ \A p, q : Order!Together(p, q)' <=> Order!Together(p, q)
      /\ \A p, q : Order!Edge(p, q)' <=> Order!Edge(p, q)
  BY GraphStays
<1>2. order' = order /\ visited' = visited
  OBVIOUS
<1> QED BY <1>1, <1>2 DEF InTurn

LEMMA ExpandKeeps ==
  ASSUME TypeOK, Order!TypeOK, Expansion, Order!Expand
  PROVE  Expansion' /\ order' \in Seq(visited) /\ pos' \in 1..(Len(sccOrder) + 1)
<1> DEFINE c == sccs[sccOrder[pos]]
<1>1. /\ UNCHANGED <<visited, edges, sccs, sccOrder>> /\ remaining = {} /\ pos <= Len(sccOrder)
      /\ IF Order!Cardinality(c) = 1
           THEN order' = order \o Order!SetToSeq(c) /\ pos' = pos + 1 /\ remaining' = {}
           ELSE remaining' = c /\ UNCHANGED <<order, pos>>
  BY DEF Order!Expand, Order!input, Order!tarjan, Order!kahn
<1>2. /\ pos \in Nat \ {0} /\ Len(sccOrder) \in Nat /\ DOMAIN sccOrder = 1..Len(sccOrder)
      /\ pos <= Len(sccOrder) + 1
      /\ \A n \in DOMAIN sccOrder : sccOrder[n] \in DOMAIN sccs
  BY PositionIs
<1>3. pos \in DOMAIN sccOrder /\ c \subseteq visited
  BY <1>1, <1>2, TarjanTypes
<1>4. Components' /\ Found' = visited' /\ SortedFirst' /\ Sorted' = DOMAIN sccs'
  BY <1>1, ExpansionStays
<1>5. order \in Seq(visited) /\ visited \subseteq Packages
  BY DEF Order!TypeOK, TypeOK
<1>6. IsFiniteSet(c)
  BY <1>3, <1>5, RoadmapAssumption, FS_Subset
<1>7. CASE Cardinality(c) = 1
  <2>1. PICK x : c = {x}
    BY <1>6, <1>7, FS_Singleton
  <2>2. order' = order \o <<x>> /\ pos' = pos + 1 /\ remaining' = {}
    BY <1>1, <1>7, <2>1, OneInSequence, CountsTheSame
  <2>3. x \in visited /\ order' = Append(order, x)
    BY <1>3, <1>5, <2>1, <2>2, AppendIsConcat
  <2>4. order' \in Seq(visited) /\ Placed' = Placed \cup {x} /\ InTurn'
    BY <1>1, <1>3, <2>1, <2>3, NextPlaced
  <2>5. Due' = Due \cup {x}
    <3>1. \A n \in DOMAIN sccOrder : n < pos + 1 <=> n < pos \/ n = pos
      BY <1>2
    <3>2. Due' = {p \in visited : \E n \in DOMAIN sccOrder : p \in sccs[sccOrder[n]] /\ n < pos + 1}
      BY <1>1, <2>2 DEF Due
    <3>3. Due = {p \in visited : \E n \in DOMAIN sccOrder : p \in sccs[sccOrder[n]] /\ n < pos}
      BY <1>1 DEF Due
    <3> QED BY <1>3, <2>1, <2>3, <3>1, <3>2, <3>3
  <2>6. Placed' = Due' /\ remaining' = {}
    BY <2>2, <2>4, <2>5 DEF Expansion
  <2>7. pos' \in 1..(Len(sccOrder) + 1)
    BY <1>1, <1>2, <2>2
  <2> QED BY <1>4, <2>4, <2>6, <2>7 DEF Expansion
<1>8. CASE Cardinality(c) # 1
  <2>1. remaining' = c /\ UNCHANGED <<order, pos>>
    BY <1>1, <1>8, CountsTheSame
  <2>2. Placed' = Placed
    BY <2>1 DEF Placed
  <2>3. Due' = Due
    BY <1>1, <2>1 DEF Due
  <2>4. InTurn'
    BY <1>1, <2>1, InTurnStays DEF Expansion
  <2>5. remaining' # {} => pos' \in DOMAIN sccOrder' /\ remaining' \subseteq sccs'[sccOrder'[pos']]
    BY <1>1, <1>3, <2>1
  <2>6. Placed' = Due'
    BY <2>2, <2>3 DEF Expansion
  <2>7. order' \in Seq(visited) /\ pos' \in 1..(Len(sccOrder) + 1)
    BY <1>2, <1>5, <2>1
  <2> QED BY <1>4, <2>4, <2>5, <2>6, <2>7 DEF Expansion
<1> QED BY <1>7, <1>8

(* The package that the greedy order takes next is one that remains.       *)
LEMMA BestRemains ==
  ASSUME TypeOK, Order!TypeOK, remaining # {}
  PROVE  Order!Best \in remaining
<1> DEFINE counted(p) == {e \in remaining \X (1..Order!Cardinality(Reqs)) : e[2] <= edges[<<e[1], p>>]}
           fewest == {p \in remaining : \A q \in remaining : Order!Unresolved(p) <= Order!Unresolved(q)}
<1>1. IsFiniteSet(remaining) /\ remaining \subseteq Nat
  BY RoadmapAssumption, ReportAssumption, FS_Subset DEF TypeOK, Order!TypeOK
<1>2. ASSUME NEW p PROVE Order!Unresolved(p) \in Nat
  <2>1. Cardinality(Reqs) \in Nat
    BY RoadmapAssumption, FS_CardinalityType
  <2>2. IsFiniteSet(remaining \X (1..Cardinality(Reqs)))
    <3>1. IsFiniteSet(1..Cardinality(Reqs))
      BY <2>1, FS_Interval
    <3> QED BY <1>1, <3>1, FS_Product
  <2>3. IsFiniteSet(counted(p))
    BY <2>2, CountsTheSame, FS_Subset
  <2>4. Cardinality(counted(p)) \in Nat
    BY <2>3, FS_CardinalityType
  <2> QED BY <2>4, CountsTheSame DEF Order!Unresolved
<1> DEFINE T == {Order!Unresolved(p) : p \in remaining}
<1>3. T \subseteq Nat /\ T # {}
  BY <1>2
<1>4. PICK n \in T : \A m \in T : n <= m
  BY <1>3, SmallestMember
<1>5. fewest # {}
  BY <1>4
<1>6. fewest \subseteq Nat /\ fewest \subseteq remaining
  BY <1>1
<1> HIDE DEF fewest
<1>7. \E k \in fewest : \A m \in fewest : k <= m
  BY <1>5, <1>6, SmallestMember
<1>8. Order!Min(fewest) \in fewest
  BY <1>7 DEF Order!Min
<1> QED BY <1>6, <1>8 DEF Order!Best, fewest

LEMMA GreedyKeeps ==
  ASSUME TypeOK, Order!TypeOK, Expansion, Order!Greedy
  PROVE  Expansion' /\ order' \in Seq(visited) /\ pos' \in 1..(Len(sccOrder) + 1)
<1> DEFINE x == Order!Best
<1>1. /\ UNCHANGED <<visited, edges, sccs, sccOrder>> /\ remaining # {}
      /\ order' = Append(order, x) /\ remaining' = remaining \ {x}
      /\ pos' = IF remaining' = {} THEN pos + 1 ELSE pos
  BY DEF Order!Greedy, Order!input, Order!tarjan, Order!kahn
<1>2. x \in remaining
  BY <1>1, BestRemains
<1> HIDE DEF x
<1>3. /\ pos \in Nat \ {0} /\ Len(sccOrder) \in Nat /\ DOMAIN sccOrder = 1..Len(sccOrder)
  BY PositionIs
<1>4. pos \in DOMAIN sccOrder /\ remaining \subseteq sccs[sccOrder[pos]]
  BY <1>1 DEF Expansion
<1>5. x \in visited /\ order' \in Seq(visited) /\ Placed' = Placed \cup {x} /\ InTurn'
  BY <1>1, <1>2, <1>4, NextPlaced
<1>6. Components' /\ Found' = visited' /\ SortedFirst' /\ Sorted' = DOMAIN sccs'
  BY <1>1, ExpansionStays
<1>7. Due' = Due \cup {x}
  <2>1. Due = {p \in visited : \E n \in DOMAIN sccOrder :
                 p \in sccs[sccOrder[n]] /\ (n < pos \/ (n = pos /\ p \notin remaining))}
    BY <1>1 DEF Due
  <2>2. CASE remaining' = {}
    <3>1. \A n \in DOMAIN sccOrder : n < pos + 1 <=> n < pos \/ n = pos
      BY <1>3
    <3>2. Due' = {p \in visited : \E n \in DOMAIN sccOrder : p \in sccs[sccOrder[n]] /\ n < pos + 1}
      BY <1>1, <2>2 DEF Due
    <3>3. remaining = {x}
      BY <1>1, <1>2, <2>2
    <3> QED BY <1>2, <1>4, <1>5, <2>1, <3>1, <3>2, <3>3
  <2>3. CASE remaining' # {}
    <3>1. Due' = {p \in visited : \E n \in DOMAIN sccOrder :
                    p \in sccs[sccOrder[n]] /\ (n < pos \/ (n = pos /\ p \notin remaining'))}
      BY <1>1, <2>3 DEF Due
    <3> QED BY <1>1, <1>2, <1>4, <1>5, <2>1, <3>1
  <2> QED BY <2>2, <2>3
<1>8. Placed' = Due'
  BY <1>5, <1>7 DEF Expansion
<1>9. remaining' # {} => pos' \in DOMAIN sccOrder' /\ remaining' \subseteq sccs'[sccOrder'[pos']]
  BY <1>1, <1>4
<1>10. pos' \in 1..(Len(sccOrder) + 1)
  BY <1>1, <1>3, <1>4
<1> QED BY <1>5, <1>6, <1>8, <1>9, <1>10 DEF Expansion

(* The order has every package, each in its turn.                          *)
End == Components /\ InTurn /\ Placed = visited

LEMMA ExpandEndsKeeps ==
  ASSUME TypeOK, Order!TypeOK, Expansion, Order!ExpandEnds
  PROVE  End' /\ UNCHANGED order
<1>1. /\ UNCHANGED <<visited, edges, sccs, sccOrder, pos, remaining>>
      /\ remaining = {} /\ pos > Len(sccOrder)
      /\ order' = order \o Order!InOrder(visited \ Order!Range(order))
  BY DEF Order!ExpandEnds, Order!input, Order!tarjan, Order!kahn
<1>2. pos \in Nat \ {0} /\ Len(sccOrder) \in Nat /\ DOMAIN sccOrder = 1..Len(sccOrder)
  BY PositionIs
<1>3. \A n \in DOMAIN sccOrder : n < pos
  BY <1>1, <1>2
<1>4. Due = visited
  <2> SUFFICES ASSUME NEW p \in visited PROVE p \in Due
    BY DEF Due
  <2>1. PICK i \in DOMAIN sccs : p \in sccs[i]
    BY DEF Expansion, Found
  <2>2. PICK n \in DOMAIN sccOrder : sccOrder[n] = i
    BY DEF Expansion, Sorted
  <2> QED BY <1>3, <2>1, <2>2 DEF Due
<1>5. Placed = visited
  BY <1>4 DEF Expansion
<1>6. visited \ Order!Range(order) = {}
  BY <1>5 DEF Order!Range, Placed
<1>7. order \in Seq(visited) /\ order' = order \o << >>
  BY <1>1, <1>6, NothingInOrder DEF Order!TypeOK
<1>8. order' = order
  BY <1>7, ConcatEmptySeq
<1>9. InTurn'
  BY <1>1, <1>8, InTurnStays DEF Expansion
<1>10. Placed' = visited'
  BY <1>1, <1>5, <1>8 DEF Placed
<1> QED BY <1>1, <1>8, <1>9, <1>10, ExpansionStays DEF End

-----------------------------------------------------------------------------
(* The sort's variables keep their types                                   *)

TarjanTyped ==
  /\ DOMAIN index \subseteq visited /\ DOMAIN lowlink = DOMAIN index
  /\ \A n \in DOMAIN index : index[n] \in Nat /\ lowlink[n] \in 0..index[n]
  /\ stack \in Seq(visited)
  /\ callStack \in Seq(CallOf)
  /\ sccs \in Seq(SUBSET visited)

LaterTyped ==
  /\ uncounted \subseteq Order!Entries
  /\ condensedAdj \subseteq (DOMAIN sccs) \X (DOMAIN sccs)
  /\ \A i \in DOMAIN inDegree : i \in DOMAIN sccs /\ inDegree[i] \in Nat
  /\ ready \subseteq DOMAIN sccs
  /\ sccOrder \in Seq(DOMAIN sccs)
  /\ pos \in 1..(Len(sccOrder) + 1)
  /\ remaining \subseteq visited
  /\ order \in Seq(visited)

LEMMA OrderTypes ==
  /\ TypeOK /\ phase \in {"tarjan", "count", "kahn", "expand", "done"} /\ TarjanTyped /\ LaterTyped => Order!TypeOK
  /\ Order!TypeOK => TarjanTyped /\ LaterTyped
BY DEF TypeOK, Order!TypeOK, TarjanTyped, LaterTyped, CallOf

LEMMA NotSortedTypes == NotSorted => LaterTyped
<1> SUFFICES ASSUME NotSorted PROVE LaterTyped
  OBVIOUS
<1>1. /\ uncounted = {} /\ condensedAdj = {} /\ inDegree = << >> /\ ready = {} /\ sccOrder = << >>
      /\ pos = 1 /\ remaining = {} /\ order = << >>
  BY DEF NotSorted
<1> DEFINE D == DOMAIN sccs
<1>2. sccOrder \in Seq(D) /\ Len(sccOrder) = 0 /\ order \in Seq(visited) /\ DOMAIN inDegree = {}
  <2> HIDE DEF D
  <2> QED BY <1>1
<1> QED BY <1>1, <1>2 DEF LaterTyped

LEMMA EnterTypes ==
  ASSUME TypeOK, Order!TypeOK, Tarjan, NEW v, Enters(v), stack' = Append(stack, v), callStack' \in Seq(CallOf)
  PROVE  TarjanTyped' /\ Seen' # {}
<1>1. v \in visited /\ UNCHANGED <<visited, edges, sccs>> /\ DOMAIN lowlink' = DOMAIN index'
  BY TarjanTypes DEF Enters, Order!Numbered, Seen
<1>2. /\ Cardinality(Seen) \in Nat /\ Seen' = Seen \cup {v}
      /\ index'[v] = Cardinality(Seen) /\ lowlink'[v] = Cardinality(Seen)
      /\ \A p \in Seen : index'[p] = index[p] /\ lowlink'[p] = lowlink[p]
  BY EntersIs
<1>3. /\ Seen \subseteq visited
      /\ \A n \in Seen : index[n] \in Nat /\ lowlink[n] \in 0..index[n]
      /\ stack \in Seq(visited) /\ sccs \in Seq(SUBSET visited)
  BY OrderTypes DEF TarjanTyped, Seen
<1>4. \A n \in Seen' : index'[n] \in Nat /\ lowlink'[n] \in 0..index'[n]
  BY SMTT(30), <1>2, <1>3
<1>5. stack' \in Seq(visited)
  BY <1>1, <1>3
<1>6. CallOf' = CallOf
  BY <1>1 DEF CallOf
<1>7. Seen' \subseteq visited /\ DOMAIN index' = Seen'
  BY <1>1, <1>2, <1>3 DEF Seen
<1>8. Seen' # {}
  BY <1>2
<1>9. callStack' \in Seq(CallOf') /\ sccs' \in Seq(SUBSET visited')
  BY <1>1, <1>3, <1>6
<1> QED BY <1>1, <1>4, <1>5, <1>7, <1>8, <1>9 DEF TarjanTyped

LEMMA TarjanKeeps ==
  ASSUME TypeOK, TypeOK', Order!TypeOK, Tarjan, phase = "tarjan",
         Order!Root \/ Order!Descend \/ Order!Visit \/ Order!Return
  PROVE  Order!TypeOK' /\ Tarjan' /\ index' # << >> /\ phase' = "tarjan"
<1>1. UNCHANGED <<visited, edges, phase>>
  BY DEF Order!Root, Order!Descend, Order!Visit, Order!Return, Order!input
<1>2. CallOf' = CallOf
  BY <1>1 DEF CallOf
<1>3. ASSUME Order!Root \/ Order!Descend PROVE TarjanTyped' /\ Tarjan' /\ Seen' # {}
  <2>1. PICK v : Enters(v) /\ stack' = Append(stack, v) /\ callStack' \in Seq(CallOf)
    BY <1>3, RootEnters, DescendEnters
  <2>2. UNCHANGED later
    BY <1>3 DEF Order!Root, Order!Descend, Order!kahn, Order!expanded, later
  <2>3. Tarjan'
    BY <2>1, <2>2, EnterKeeps
  <2>4. TarjanTyped' /\ Seen' # {}
    BY <2>1, EnterTypes
  <2> QED BY <2>3, <2>4
<1>4. ASSUME Order!Visit PROVE TarjanTyped' /\ Tarjan' /\ Seen' # {}
  <2>1. /\ UNCHANGED <<visited, edges, sccs, index, stack, later>>
        /\ callStack' \in Seq(CallOf) /\ DOMAIN lowlink' = Seen
        /\ \A p \in Seen : lowlink'[p] \in Nat /\ lowlink'[p] <= lowlink[p]
        /\ callStack[Len(callStack)].node \in Seen
    BY <1>4, VisitIs
  <2>2. /\ Seen \subseteq visited /\ stack \in Seq(visited) /\ sccs \in Seq(SUBSET visited)
        /\ \A p \in Seen : index[p] \in Nat /\ lowlink[p] \in Nat /\ lowlink[p] <= index[p]
    BY TarjanTypes, OrderTypes DEF TarjanTyped
  <2>3. Seen' = Seen
    BY <2>1 DEF Seen
  <2>4. \A p \in Seen : index'[p] \in Nat /\ lowlink'[p] \in 0..index'[p]
    BY <2>1, <2>2
  <2>5. TarjanTyped'
    BY <1>1, <1>2, <2>1, <2>2, <2>3, <2>4 DEF TarjanTyped, Seen
  <2>6. Tarjan'
    BY <1>4, VisitKeeps
  <2> QED BY <2>1, <2>3, <2>5, <2>6
<1>5. ASSUME Order!Return PROVE TarjanTyped' /\ Tarjan' /\ Seen' # {}
  <2> DEFINE v == callStack[Len(callStack)].node
  <2>1. /\ UNCHANGED <<visited, edges, index, later>>
        /\ callStack' \in Seq(CallOf) /\ DOMAIN lowlink' = Seen
        /\ \A p \in Seen : lowlink'[p] \in Nat /\ lowlink'[p] <= lowlink[p]
        /\ v \in Seen
        /\ lowlink[v] # index[v] => UNCHANGED <<stack, sccs>>
    BY <1>5, ReturnIs
  <2>2. /\ Seen \subseteq visited /\ stack \in Seq(visited) /\ sccs \in Seq(SUBSET visited)
        /\ \A p \in Seen : index[p] \in Nat /\ lowlink[p] \in Nat /\ lowlink[p] <= index[p]
    BY TarjanTypes, OrderTypes DEF TarjanTyped
  <2>3. Seen' = Seen
    BY <2>1 DEF Seen
  <2>4. \A p \in Seen : index'[p] \in Nat /\ lowlink'[p] \in 0..index'[p]
    BY <2>1, <2>2
  <2>5. stack' \in Seq(visited) /\ sccs' \in Seq(SUBSET visited)
    BY <1>5, <2>1, <2>2, ComponentIs
  <2>6. TarjanTyped'
    BY <1>1, <1>2, <2>1, <2>2, <2>3, <2>4, <2>5 DEF TarjanTyped, Seen
  <2>7. Tarjan'
    BY <1>5, ReturnKeeps
  <2> QED BY <2>1, <2>3, <2>6, <2>7
<1>6. TarjanTyped' /\ Tarjan' /\ Seen' # {}
  BY <1>3, <1>4, <1>5
<1>7. NotSorted' => LaterTyped'
  BY NotSortedTypes, PTL
<1>8. LaterTyped'
  BY <1>6, <1>7 DEF Tarjan
<1>9. /\ TypeOK' /\ phase' \in {"tarjan", "count", "kahn", "expand", "done"} /\ TarjanTyped' /\ LaterTyped'
      => Order!TypeOK'
  BY DEF TypeOK, Order!TypeOK, TarjanTyped, LaterTyped, CallOf
<1>10. index' # << >>
  <2>1. Seen' = {} \/ index' # << >>
    BY DEF Seen
  <2> QED BY <1>6, <2>1
<1> QED BY <1>1, <1>6, <1>8, <1>9, <1>10
-----------------------------------------------------------------------------
(* The report                                                              *)

(* The results of the search stay as they are while they are sorted.       *)
ReportInv ==
  /\ RoadmapInv
  /\ phase = "resolve" => Search /\ EveryNameIsReported

LEMMA InitReport == ReportInit => ReportInv
BY InitRoadmap, InitSearch DEF ReportInit, ReportInv

LEMMA SortsKeeps ==
  ASSUME Order!Next
  PROVE  UNCHANGED <<visited, edges>> /\ phase' # "resolve"
<1>1. ASSUME Order!Root \/ Order!Descend PROVE UNCHANGED <<visited, edges>> /\ phase' # "resolve"
  BY <1>1 DEF Order!Root, Order!Descend, Order!input
<1>2. ASSUME Order!Visit \/ Order!Return PROVE UNCHANGED <<visited, edges>> /\ phase' # "resolve"
  BY <1>2 DEF Order!Visit, Order!Return, Order!input
<1>a. ASSUME Order!Condense \/ Order!CountEdge \/ Order!CountEnds
      PROVE  UNCHANGED <<visited, edges>> /\ phase' # "resolve"
  BY <1>a DEF Order!Condense, Order!CountEdge, Order!CountEnds, Order!input
<1>3. ASSUME Order!Sort \/ Order!SortEnds
      PROVE  UNCHANGED <<visited, edges>> /\ phase' # "resolve"
  BY <1>3 DEF Order!Sort, Order!SortEnds, Order!input
<1>4. ASSUME Order!Expand \/ Order!Greedy \/ Order!ExpandEnds
      PROVE  UNCHANGED <<visited, edges>> /\ phase' # "resolve"
  BY <1>4 DEF Order!Expand, Order!Greedy, Order!ExpandEnds, Order!input
<1> QED BY <1>1, <1>2, <1>a, <1>3, <1>4 DEF Order!Next

(* What the properties say of the search is about its own variables.       *)
LEMMA InvStays ==
  ASSUME RoadmapInv, InputOK', UNCHANGED <<queue, visited, edges, packages>>,
         dropped' \subseteq Reqs, sysroot' \subseteq Reqs, unresolvable' \subseteq Reqs
  PROVE  RoadmapInv'
BY DEF RoadmapInv, TypeOK, Bounded

LEMMA StepReport ==
  ASSUME ReportInv, [ReportNext]_<<vars, phase, locals, numbers>>
  PROVE  ReportInv'
<1>1. RoadmapInv
  BY DEF ReportInv
<1>2. TypeOK /\ InputOK
  BY <1>1 DEF RoadmapInv
<1>3. CASE Resolves
  <2>1. phase = "resolve" /\ phase' = phase /\ Next
    BY <1>3 DEF Resolves
  <2>2. Search /\ EveryNameIsReported
    BY <2>1 DEF ReportInv
  <2> QED BY <1>1, <2>1, <2>2, StepRoadmap, StepSearch DEF ReportInv
<1>4. CASE Call
  <2>1. InputOK'
    BY <1>4 DEF Call, InputOK
  <2>2. RoadmapInv'
    BY <1>1, <1>4, <2>1, InvStays DEF Call
  <2> QED BY <1>4, <2>2 DEF Call, ReportInv
<1>5. CASE Sorts
  <2>1. UNCHANGED <<queue, visited, edges, packages, input, names>> /\ phase' # "resolve"
    BY <1>5, SortsKeeps DEF Sorts
  <2>2. RoadmapInv'
    BY <1>1, <1>2, <2>1, InvStays DEF InputOK, TypeOK, input, names
  <2> QED BY <2>1, <2>2 DEF ReportInv
<1>6. CASE Numbered
  <2>1. UNCHANGED <<queue, visited, edges, packages, input, names>> /\ phase' # "resolve"
    BY <1>6 DEF Numbered
  <2>2. RoadmapInv'
    BY <1>1, <1>2, <2>1, InvStays DEF InputOK, TypeOK, input, names
  <2> QED BY <2>1, <2>2 DEF ReportInv
<1>7. CASE UNCHANGED <<vars, phase, locals, numbers>>
  <2>1. RoadmapInv'
    BY <1>1, <1>2, <1>7, InvStays DEF InputOK, TypeOK, vars
  <2>2. phase' = phase /\ UNCHANGED <<input, queue, visited, packages, names>>
    BY <1>7 DEF vars, input, names
  <2>3. ASSUME phase = "resolve" PROVE Search' /\ EveryNameIsReported'
    <3>1. Search /\ EveryNameIsReported
      BY <2>3 DEF ReportInv
    <3>2. Near' = Near /\ Limit' = Limit /\ (\A p : After(p)' = After(p)) /\ maxDepth' = maxDepth
      BY <2>2, NearStays DEF input
    <3>3. \A d, n : Waits(d, n) => Waits(d, n)'
      BY <2>2 DEF Waits
    <3>4. LevelByLevel' /\ FoundIsNear' /\ NearIsFound'
      BY <2>2, <3>1, <3>2, <3>3 DEF Search, LevelByLevel, FoundIsNear, NearIsFound
    <3>5. EveryNameIsReported'
      BY <2>2, <3>1 DEF EveryNameIsReported, input, names
    <3> QED BY <3>4, <3>5 DEF Search
  <2> QED BY <2>1, <2>2, <2>3 DEF ReportInv
<1> QED BY <1>3, <1>4, <1>5, <1>6, <1>7 DEF ReportNext

(* The list of edges has what the report says is required, and no more.    *)
LEMMA EdgesStep ==
  ASSUME RoadmapInv, EdgesOfPackages, Next
  PROVE  EdgesOfPackages'
<1>1. CASE Resolve
  <2> DEFINE p == Take.pkg
             here(d) == {r \in Provided(p) : provides[r] = d}
  <2>1. /\ visited' = visited \cup {p} /\ p \notin visited
        /\ edges' = NewEdges(p)
        /\ packages' = [q \in DOMAIN packages \cup {p} |-> IF q = p THEN BuildRequires(p) ELSE packages[q]]
    BY <1>1 DEF Resolve, Visited
  <2>2. TypeOK /\ InputOK /\ queue # << >> /\ DOMAIN packages \subseteq visited /\ visited \subseteq Packages
    BY <1>1 DEF RoadmapInv, TypeOK, Resolve
  <2>3. p \in Packages
    <3>1. Take \in Entries
      BY <2>2, QueueParts
    <3> QED BY <3>1 DEF Entries
  <2> HIDE DEF p
  <2>4. IsFiniteSet(Provided(p))
    <3>1. Provided(p) \subseteq Reqs
      BY <2>2, <2>3 DEF InputOK, Provided, Kept
    <3> QED BY <3>1, RoadmapAssumption, FS_Subset
  <2>5. ASSUME NEW d PROVE Cardinality(here(d)) \in Nat /\ (here(d) # {} => Cardinality(here(d)) > 0)
    <3>1. IsFiniteSet(here(d))
      BY <2>4, FS_Subset
    <3>2. Cardinality(here(d)) \in Nat /\ (Cardinality(here(d)) = 0 <=> here(d) = {})
      BY <3>1, FS_CardinalityType, FS_EmptySet
    <3> QED BY <3>2
  <2>6. ASSUME NEW d \in Packages, NEW q \in Packages
        PROVE  /\ edges[<<d, q>>] \in Nat
               /\ edges'[<<d, q>>] = IF q = p /\ d # p THEN edges[<<d, q>>] + Cardinality(here(d))
                                     ELSE edges[<<d, q>>]
    <3>1. edges \in [Packages \X Packages -> 0..Cardinality(Reqs)] /\ Cardinality(Reqs) \in Nat
      BY <2>2, CountsAreNat DEF TypeOK
    <3>2. edges[<<d, q>>] \in Nat
      BY <3>1
    <3>3. edges'[<<d, q>>] = IF q = p /\ d # p THEN edges[<<d, q>>] + Cardinality(here(d))
                             ELSE edges[<<d, q>>]
      BY <2>1 DEF NewEdges
    <3> QED BY <3>2, <3>3
  <2> HIDE DEF here
  <2>7. ASSUME NEW q \in DOMAIN packages', NEW d \in packages'[q], d # q
        PROVE  Order!Edge(d, q)'
    <3>1. CASE q = p
      <4>1. d \in BuildRequires(p)
        BY <2>1, <2>7, <3>1
      <4>2. d \in Packages /\ here(d) # {}
        BY <4>1 DEF BuildRequires, Provided, here
      <4> QED BY <2>3, <2>5, <2>6, <2>7, <3>1, <4>2 DEF Order!Edge
    <3>2. CASE q # p
      <4>1. q \in DOMAIN packages /\ d \in packages[q] /\ q \in Packages
        BY <2>1, <2>2, <2>7, <3>2
      <4>2. d \in Packages
        BY <2>2, <4>1 DEF TypeOK
      <4>3. edges[<<d, q>>] > 0
        BY <2>7, <4>1 DEF EdgesOfPackages, Order!Edge
      <4> QED BY <2>6, <3>2, <4>1, <4>2, <4>3 DEF Order!Edge
    <3> QED BY <3>1, <3>2
  <2>8. ASSUME NEW d \in Packages, NEW q \in Packages, Order!Edge(d, q)'
        PROVE  d # q /\ q \in visited'
    <3>1. CASE q = p /\ d # p
      BY <2>1, <3>1
    <3>2. CASE ~(q = p /\ d # p)
      <4>1. edges[<<d, q>>] > 0
        BY <2>6, <2>8, <3>2 DEF Order!Edge
      <4> QED BY <2>1, <4>1 DEF EdgesOfPackages, Order!Edge
    <3> QED BY <3>1, <3>2
  <2> QED BY <2>7, <2>8 DEF EdgesOfPackages
<1>2. CASE LeaveOut \/ Skip
  <2>1. edges' = edges /\ packages' = packages /\ visited \subseteq visited'
    BY <1>2 DEF LeaveOut, Skip, Visited
  <2> QED BY <2>1 DEF EdgesOfPackages, Order!Edge
<1> QED BY <1>1, <1>2 DEF Next

(* The sort's invariant, phase by phase.                                   *)
SortInv ==
  /\ EdgesOfPackages
  /\ phase = "resolve" => Order!Locals
  /\ phase \notin {"resolve", "end"} => Order!TypeOK
  /\ phase = "tarjan" => Tarjan /\ (index = << >> => Order!Locals)
  /\ phase = "count" => Counting
  /\ phase = "kahn" => Kahn
  /\ phase = "expand" => Expansion
  /\ phase \in {"done", "end"} => End
  /\ phase = "end" => numbers = Numbers

LEMMA NothingSeen ==
  ASSUME Order!Locals PROVE Tarjan
<1>1. /\ index = << >> /\ lowlink = << >> /\ stack = << >> /\ callStack = << >>
      /\ sccs = << >> /\ NotSorted
  BY DEF Order!Locals, NotSorted
<1>2. Seen = {} /\ DOMAIN stack = {} /\ DOMAIN callStack = {} /\ DOMAIN sccs = {}
  BY <1>1 DEF Seen
<1>3. OnStack = {} /\ Found = {}
  BY <1>2 DEF OnStack, Found
<1>4. Numbering /\ Stacked /\ CallsAreAPath /\ ExploredIsSeen
  BY <1>2, <1>3 DEF Numbering, Stacked, CallsAreAPath, ExploredIsSeen
<1>5. CallsReach /\ ReachesACall /\ LowLinkIsReached /\ LowLinkIsLow
  BY <1>2, <1>3 DEF CallsReach, ReachesACall, LowLinkIsReached, LowLinkIsLow
<1>6. Components
  BY <1>2 DEF Components
<1> QED BY <1>1, <1>4, <1>5, <1>6 DEF Tarjan

LEMMA LocalsTyped ==
  ASSUME Order!Locals PROVE TarjanTyped
<1>1. index = << >> /\ lowlink = << >> /\ stack = << >> /\ callStack = << >> /\ sccs = << >>
  BY DEF Order!Locals
<1>2. DOMAIN index = {} /\ DOMAIN lowlink = {}
  BY <1>1
<1>3. << >> \in Seq(visited) /\ << >> \in Seq(SUBSET visited)
  OBVIOUS
<1>4. << >> \in Seq(CallOf)
  <2> HIDE DEF CallOf
  <2> QED OBVIOUS
<1> QED BY <1>1, <1>2, <1>3, <1>4 DEF TarjanTyped

LEMMA LocalsAre == Order!Locals => TarjanTyped /\ Tarjan /\ LaterTyped
BY LocalsTyped, NothingSeen, NotSortedTypes DEF Tarjan

LEMMA TypedAfter ==
  ASSUME TypeOK', TarjanTyped', LaterTyped', phase' \in {"tarjan", "count", "kahn", "expand", "done"}
  PROVE  Order!TypeOK'
BY DEF TypeOK, Order!TypeOK, TarjanTyped, LaterTyped, CallOf

LEMMA TarjanTypedStays ==
  ASSUME TarjanTyped, UNCHANGED <<visited, index, lowlink, stack, callStack, sccs>>
  PROVE  TarjanTyped'
<1>1. CallOf' = CallOf
  BY DEF CallOf
<1> QED BY <1>1 DEF TarjanTyped

LEMMA CountedTyped ==
  ASSUME Order!TypeOK, Counted', UNCHANGED <<edges, sccs>>
  PROVE  /\ \A i \in DOMAIN inDegree' : i \in DOMAIN sccs' /\ inDegree'[i] \in Nat
         /\ ready' \subseteq DOMAIN sccs'
<1>1. \A j : Preds(j)' = Preds(j)
  BY PredsStay
<1>2. \A j : Cardinality(Preds(j) \ Sorted') \in Nat
  BY PredsAreFinite
<1> QED BY <1>1, <1>2 DEF Counted

LEMMA CountingTyped ==
  ASSUME Order!TypeOK, Counting', UNCHANGED <<edges, sccs>>
  PROVE  \A j \in DOMAIN inDegree' : j \in DOMAIN sccs' /\ inDegree'[j] \in Nat
<1>1. ASSUME NEW j \in DOMAIN sccs PROVE Cardinality(Known(j)') \in Nat
  <2>1. Known(j)' \subseteq Preds(j)
    BY <1>1, PredsStay DEF Counting
  <2>2. IsFiniteSet(Preds(j) \ {})
    BY PredsAreFinite
  <2> QED BY <2>1, <2>2, FS_Subset, FS_CardinalityType
<1> QED BY <1>1 DEF Counting

(* The list of edges stays as it is.                                       *)
LEMMA EntriesStay == UNCHANGED edges => Order!Entries' = Order!Entries
BY DEF Order!Entries

(* The count, from one phase to the next.                                  *)
LEMMA CountKeeps ==
  ASSUME TypeOK, TypeOK', Order!TypeOK, SortInv,
         Order!Condense \/ Order!CountEdge \/ Order!CountEnds
  PROVE  /\ Order!TypeOK' /\ UNCHANGED <<visited, edges>>
         /\ \/ phase' = "count" /\ Counting'
            \/ phase' = "kahn" /\ Kahn'
<1>1. UNCHANGED <<visited, edges, index, lowlink, stack, callStack, sccs, sccOrder, pos, remaining, order>>
  BY DEF Order!Condense, Order!CountEdge, Order!CountEnds, Order!input, Order!tarjan, Order!expanded
<1>2. TarjanTyped'
  BY <1>1, OrderTypes, TarjanTypedStays
<1>3. LaterTyped /\ Order!Entries' = Order!Entries
  BY <1>1, OrderTypes, EntriesStay
<1>4. CASE Order!Condense
  <2>1. /\ phase = "tarjan" /\ phase' = "count" /\ UNCHANGED <<condensedAdj, ready>>
        /\ uncounted' = Order!Entries /\ inDegree' = [i \in DOMAIN sccs |-> 0]
    BY <1>4 DEF Order!Condense
  <2>2. Counting'
    BY <1>4, <2>1, CondenseKeeps DEF SortInv
  <2>3. LaterTyped'
    BY <1>1, <1>3, <2>1 DEF LaterTyped
  <2> QED BY <1>1, <1>2, <2>1, <2>2, <2>3, TypedAfter
<1>5. CASE Order!CountEdge
  <2>1. phase = "count" /\ phase' = "count" /\ UNCHANGED ready
    BY <1>5 DEF Order!CountEdge
  <2>2. Counting /\ Counting'
    BY <1>5, <2>1, CountEdgeKeeps DEF SortInv
  <2>3. uncounted' \subseteq uncounted
    BY <1>5 DEF Order!CountEdge
  <2>4. condensedAdj' \subseteq (DOMAIN sccs) \X (DOMAIN sccs)
    BY <1>3, <1>5 DEF Order!CountEdge, Order!NewPair, Order!Component, LaterTyped
  <2>5. \A j \in DOMAIN inDegree' : j \in DOMAIN sccs' /\ inDegree'[j] \in Nat
    BY <1>1, <2>2, CountingTyped
  <2>6. LaterTyped'
    BY <1>1, <1>3, <2>1, <2>3, <2>4, <2>5 DEF LaterTyped
  <2> QED BY <1>1, <1>2, <2>1, <2>2, <2>6, TypedAfter
<1>6. CASE Order!CountEnds
  <2>1. /\ phase = "count" /\ phase' = "kahn" /\ UNCHANGED <<uncounted, condensedAdj, inDegree>>
        /\ ready' = {i \in DOMAIN sccs : inDegree[i] = 0}
    BY <1>6 DEF Order!CountEnds
  <2>2. Kahn'
    BY <1>6, <2>1, CountEndsKeeps DEF SortInv
  <2>3. LaterTyped'
    BY <1>1, <1>3, <2>1 DEF LaterTyped
  <2> QED BY <1>1, <1>2, <2>1, <2>2, <2>3, TypedAfter
<1> QED BY <1>4, <1>5, <1>6

(* Kahn's algorithm and the expansion, from one phase to the next.         *)
LEMMA KahnKeeps ==
  ASSUME TypeOK, TypeOK', Order!TypeOK, SortInv, Order!Sort \/ Order!SortEnds
  PROVE  /\ Order!TypeOK' /\ UNCHANGED <<visited, edges>>
         /\ \/ phase' = "kahn" /\ Kahn'
            \/ phase' = "expand" /\ Expansion'
<1>1. UNCHANGED <<visited, edges, index, lowlink, stack, callStack, sccs, uncounted, condensedAdj,
                  pos, remaining, order>>
  BY DEF Order!Sort, Order!SortEnds, Order!input, Order!tarjan, Order!expanded
<1>2. TarjanTyped'
  BY <1>1, OrderTypes, TarjanTypedStays
<1>3. LaterTyped /\ Order!Entries' = Order!Entries
  BY <1>1, OrderTypes, EntriesStay
<1>5. CASE Order!Sort
  <2>1. phase = "kahn" /\ phase' = "kahn"
    BY <1>5 DEF Order!Sort
  <2>2. Kahn /\ Kahn'
    BY <1>5, <2>1, SortKeeps DEF SortInv
  <2>3. sccOrder' \in Seq(DOMAIN sccs) /\ Len(sccOrder) \in Nat /\ Len(sccOrder') = Len(sccOrder) + 1
    <3>1. sccOrder' \in Seq(DOMAIN sccs) /\ Len(sccOrder) \in Nat /\ DOMAIN sccOrder' = 1..(Len(sccOrder) + 1)
      BY <1>5, <2>2, SortIs
    <3> QED BY <3>1, LenProperties
  <2>4. LaterTyped'
    BY <1>1, <1>3, <2>2, <2>3, CountedTyped DEF Kahn, LaterTyped
  <2> QED BY <1>1, <1>2, <2>1, <2>2, <2>4, TypedAfter
<1>6. CASE Order!SortEnds
  <2>1. phase = "kahn" /\ phase' = "expand" /\ UNCHANGED <<inDegree, ready>>
    BY <1>6 DEF Order!SortEnds
  <2>2. Expansion' /\ sccOrder' = sccOrder
    BY <1>6, <2>1, SortEndsKeeps DEF SortInv
  <2>3. LaterTyped'
    BY <1>1, <1>3, <2>1, <2>2 DEF LaterTyped
  <2> QED BY <1>1, <1>2, <2>1, <2>2, <2>3, TypedAfter
<1> QED BY <1>5, <1>6

LEMMA ExpansionKeeps ==
  ASSUME TypeOK, TypeOK', Order!TypeOK, SortInv,
         Order!Expand \/ Order!Greedy \/ Order!ExpandEnds
  PROVE  /\ Order!TypeOK' /\ UNCHANGED <<visited, edges>>
         /\ \/ phase' = "expand" /\ Expansion'
            \/ phase' = "done" /\ End'
<1>1. /\ UNCHANGED <<visited, edges, index, lowlink, stack, callStack, sccs, uncounted, condensedAdj,
                     inDegree, ready, sccOrder>>
      /\ phase = "expand"
  BY DEF Order!Expand, Order!Greedy, Order!ExpandEnds, Order!input, Order!tarjan, Order!kahn
<1>2. TarjanTyped'
  BY <1>1, OrderTypes, TarjanTypedStays
<1>3. LaterTyped /\ Order!Entries' = Order!Entries
  BY <1>1, OrderTypes, EntriesStay
<1>4. Expansion
  BY <1>1 DEF SortInv
<1>5. CASE Order!Expand \/ Order!Greedy
  <2>1. phase' = "expand"
    BY <1>1, <1>5 DEF Order!Expand, Order!Greedy
  <2>2. Expansion' /\ order' \in Seq(visited) /\ pos' \in 1..(Len(sccOrder) + 1)
    BY <1>4, <1>5, ExpandKeeps, GreedyKeeps
  <2>3. remaining' \subseteq visited
    <3>1. CASE Order!Expand
      <4>1. remaining' = {} \/ remaining' = sccs[sccOrder[pos]]
        BY <3>1 DEF Order!Expand
      <4>2. pos \in DOMAIN sccOrder
        BY <3>1, PositionIs DEF Order!Expand
      <4> QED BY <4>1, <4>2, PositionIs, TarjanTypes
    <3>2. CASE Order!Greedy
      BY <1>3, <3>2 DEF Order!Greedy, LaterTyped
    <3> QED BY <1>5, <3>1, <3>2
  <2>4. LaterTyped'
    BY <1>1, <1>3, <2>2, <2>3 DEF LaterTyped
  <2> QED BY <1>1, <1>2, <2>1, <2>2, <2>4, TypedAfter
<1>6. CASE Order!ExpandEnds
  <2>1. phase' = "done" /\ UNCHANGED <<pos, remaining>>
    BY <1>6 DEF Order!ExpandEnds
  <2>2. End' /\ order' = order
    BY <1>4, <1>6, ExpandEndsKeeps
  <2>3. LaterTyped'
    BY <1>1, <1>3, <2>1, <2>2 DEF LaterTyped
  <2> QED BY <1>1, <1>2, <2>1, <2>2, <2>3, TypedAfter
<1> QED BY <1>5, <1>6

LEMMA StepSort ==
  ASSUME ReportInv, TypeOK', SortInv, Sorts
  PROVE  SortInv'
<1>1. TypeOK /\ packages' = packages
  BY DEF ReportInv, RoadmapInv, Sorts
<1>2. UNCHANGED <<visited, edges>> => EdgesOfPackages'
  BY <1>1 DEF SortInv, EdgesOfPackages, Order!Edge
<1>3. CASE Order!Root \/ Order!Descend \/ Order!Visit \/ Order!Return
  <2>1. phase = "tarjan" /\ UNCHANGED <<visited, edges>>
    BY <1>3 DEF Order!Root, Order!Descend, Order!Visit, Order!Return, Order!input
  <2>2. Order!TypeOK' /\ Tarjan' /\ index' # << >> /\ phase' = "tarjan"
    BY <1>1, <1>3, <2>1, TarjanKeeps DEF SortInv
  <2> QED BY <1>2, <2>1, <2>2 DEF SortInv
<1>a. CASE Order!Condense \/ Order!CountEdge \/ Order!CountEnds
  <2>1. Order!TypeOK
    BY <1>a DEF SortInv, Order!Condense, Order!CountEdge, Order!CountEnds
  <2>2. /\ Order!TypeOK' /\ UNCHANGED <<visited, edges>>
        /\ \/ phase' = "count" /\ Counting'
           \/ phase' = "kahn" /\ Kahn'
    BY <1>1, <1>a, <2>1, CountKeeps
  <2> QED BY <1>2, <2>2 DEF SortInv
<1>4. CASE Order!Sort \/ Order!SortEnds
  <2>1. Order!TypeOK
    BY <1>4 DEF SortInv, Order!Sort, Order!SortEnds
  <2>2. /\ Order!TypeOK' /\ UNCHANGED <<visited, edges>>
        /\ \/ phase' = "kahn" /\ Kahn'
           \/ phase' = "expand" /\ Expansion'
    BY <1>1, <1>4, <2>1, KahnKeeps
  <2> QED BY <1>2, <2>2 DEF SortInv
<1>5. CASE Order!Expand \/ Order!Greedy \/ Order!ExpandEnds
  <2>1. Order!TypeOK
    BY <1>5 DEF SortInv, Order!Expand, Order!Greedy, Order!ExpandEnds
  <2>2. /\ Order!TypeOK' /\ UNCHANGED <<visited, edges>>
        /\ \/ phase' = "expand" /\ Expansion'
           \/ phase' = "done" /\ End'
    BY <1>1, <1>5, <2>1, ExpansionKeeps
  <2> QED BY <1>2, <2>2 DEF SortInv
<1> QED BY <1>3, <1>a, <1>4, <1>5 DEF Sorts, Order!Next

LEMMA InitSort == ReportInit => SortInv
<1> SUFFICES ASSUME ReportInit PROVE SortInv
  OBVIOUS
<1>1. /\ Order!Locals /\ phase = "resolve" /\ packages = << >>
      /\ edges = [e \in Packages \X Packages |-> 0]
  BY DEF ReportInit, Init
<1>2. \A d, p \in Packages : ~Order!Edge(d, p)
  BY <1>1 DEF Order!Edge
<1>3. DOMAIN packages = {}
  BY <1>1
<1> QED BY <1>1, <1>2, <1>3 DEF SortInv, EdgesOfPackages

(* The sort starts with none of its variables used.                        *)
LEMMA CallStarts ==
  ASSUME ReportInv, TypeOK', SortInv, Call
  PROVE  SortInv'
<1>1. /\ phase = "resolve" /\ phase' = "tarjan" /\ UNCHANGED <<visited, edges, packages>>
      /\ UNCHANGED <<index, lowlink, stack, callStack, sccs, uncounted, condensedAdj, inDegree,
                     ready, sccOrder, pos, remaining, order>>
  BY DEF Call, locals
<1>2. Order!Locals
  BY <1>1 DEF SortInv
<1>3. Order!Locals'
  BY <1>1, <1>2 DEF Order!Locals
<1>4. TarjanTyped' /\ Tarjan' /\ LaterTyped'
  <2>1. (Order!Locals => TarjanTyped /\ Tarjan /\ LaterTyped)'
    BY LocalsAre, PTL
  <2> QED BY <1>3, <2>1
<1>5. Order!TypeOK'
  BY <1>1, <1>4, TypedAfter
<1>6. EdgesOfPackages'
  BY <1>1 DEF SortInv, EdgesOfPackages, Order!Edge
<1> QED BY <1>1, <1>3, <1>4, <1>5, <1>6 DEF SortInv

LEMMA NumberedKeeps ==
  ASSUME SortInv, Numbered
  PROVE  SortInv'
<1>1. /\ phase = "done" /\ phase' = "end" /\ numbers' = Numbers
      /\ UNCHANGED <<visited, edges, packages, sccs, order>>
  BY DEF Numbered, locals
<1>2. Components' /\ InTurn'
  BY <1>1, ComponentsStay, InTurnStays DEF SortInv, End
<1>3. Placed' = visited'
  BY <1>1 DEF SortInv, End, Placed
<1>4. numbers' = Numbers'
  BY <1>1 DEF Numbers
<1>5. EdgesOfPackages'
  BY <1>1 DEF SortInv, EdgesOfPackages, Order!Edge
<1> QED BY <1>1, <1>2, <1>3, <1>4, <1>5 DEF SortInv, End

LEMMA SortStays ==
  ASSUME SortInv, UNCHANGED <<vars, phase, locals, numbers>>
  PROVE  SortInv'
<1>1. UNCHANGED <<visited, edges, packages, phase, index, lowlink, stack, callStack, sccs,
                  uncounted, condensedAdj, inDegree, ready, sccOrder, pos, remaining, order, numbers>>
  BY DEF vars, locals
<1>2. /\ \A p : Order!Neighbors(p)' = Order!Neighbors(p)
      /\ \A p, q : Order!Reaches(p, q)' <=> Order!Reaches(p, q)
      /\ \A j : Preds(j)' = Preds(j)
  BY <1>1, GraphStays, PredsStay
<1>3. EdgesOfPackages' /\ (Order!Locals => Order!Locals') /\ (Order!TypeOK => Order!TypeOK')
  BY <1>1 DEF SortInv, EdgesOfPackages, Order!Edge, Order!Locals, Order!TypeOK, Order!Entries
<1>4. /\ Seen' = Seen /\ OnStack' = OnStack /\ Found' = Found
      /\ Sorted' = Sorted /\ Placed' = Placed /\ Due' = Due /\ Numbers' = Numbers
      /\ \A p, q : Explored(p, q)' <=> Explored(p, q)
  BY <1>1, <1>2 DEF Seen, OnStack, Found, Sorted, Placed, Due, Numbers, Explored
<1>5. Components => Components'
  BY <1>1, ComponentsStay
<1>6. Tarjan => Tarjan'
  <2> SUFFICES ASSUME Tarjan PROVE Tarjan'
    OBVIOUS
  <2>1. Numbering' /\ Stacked' /\ CallsAreAPath' /\ ExploredIsSeen' /\ NotSorted'
    BY <1>1, <1>2, <1>4 DEF Tarjan, Numbering, Stacked, CallsAreAPath, ExploredIsSeen, NotSorted
  <2>2. CallsReach' /\ ReachesACall' /\ LowLinkIsReached' /\ LowLinkIsLow'
    BY <1>1, <1>2, <1>4 DEF Tarjan, CallsReach, ReachesACall, LowLinkIsReached, LowLinkIsLow, Between
  <2> QED BY <1>5, <2>1, <2>2 DEF Tarjan
<1>7. SortedFirst => SortedFirst'
  BY <1>1, <1>2 DEF SortedFirst
<1>a. Counting => Counting'
  <2>1. /\ \A j : Known(j)' = Known(j)
        /\ \A p, q : Order!Edge(p, q)' <=> Order!Edge(p, q)
    BY <1>1, GraphStays DEF Known
  <2> QED BY <1>1, <1>2, <1>4, <1>5, <2>1 DEF Counting, NotExpanded
<1>8. Kahn => Kahn'
  <2>1. (Counted => Counted') /\ (Condensed => Condensed')
    BY <1>1, <1>2, <1>4 DEF Counted, Condensed
  <2> QED BY <1>1, <1>4, <1>5, <1>7, <2>1 DEF Kahn, NotExpanded
<1>9. InTurn => InTurn'
  BY <1>1, InTurnStays
<1>10. (Expansion => Expansion') /\ (End => End')
  BY <1>1, <1>4, <1>5, <1>7, <1>9 DEF Expansion, End
<1> QED BY <1>1, <1>3, <1>4, <1>6, <1>a, <1>8, <1>10 DEF SortInv

LEMMA StepReportSort ==
  ASSUME ReportInv, SortInv, [ReportNext]_<<vars, phase, locals, numbers>>
  PROVE  SortInv'
<1>1. RoadmapInv /\ TypeOK'
  BY StepReport DEF ReportInv, RoadmapInv
<1>2. CASE Resolves
  <2>1. phase = "resolve" /\ phase' = "resolve" /\ Next /\ UNCHANGED locals
    BY <1>2 DEF Resolves
  <2>2. EdgesOfPackages'
    BY <1>1, <2>1, EdgesStep DEF SortInv
  <2>3. Order!Locals'
    BY <2>1 DEF SortInv, Order!Locals, locals
  <2> QED BY <2>1, <2>2, <2>3 DEF SortInv
<1>3. CASE Call
  BY <1>1, <1>3, CallStarts
<1>4. CASE Sorts
  BY <1>1, <1>4, StepSort
<1>5. CASE Numbered
  BY <1>5, NumberedKeeps
<1>6. CASE UNCHANGED <<vars, phase, locals, numbers>>
  BY <1>6, SortStays
<1> QED BY <1>2, <1>3, <1>4, <1>5, <1>6 DEF ReportNext

LEMMA SortedComponents == ReportInv /\ SortInv => ComponentsAreComplete
<1> SUFFICES ASSUME ReportInv, SortInv PROVE ComponentsAreComplete
  OBVIOUS
<1>1. TypeOK
  BY DEF ReportInv, RoadmapInv
<1>2. ASSUME phase = "tarjan", index = << >> PROVE Order!Init
  <2>1. /\ visited \in SUBSET Packages
        /\ edges \in [Packages \X Packages -> 0..Cardinality(Reqs)]
    BY <1>1 DEF TypeOK
  <2>2. \A d, p \in Packages : Order!Edge(d, p) => d # p /\ p \in visited
    BY DEF SortInv, EdgesOfPackages
  <2>3. Order!Locals
    BY <1>2 DEF SortInv
  <2> QED BY <1>2, <2>1, <2>2, <2>3 DEF Order!Init
<1>3. ASSUME phase # "resolve" PROVE Order!ComponentsAreComplete
  <2>1. phase \in {"tarjan", "count", "kahn", "expand", "done", "end"}
    BY <1>3 DEF SortInv, Order!TypeOK
  <2>2. Components
    BY <2>1 DEF SortInv, Tarjan, Counting, Kahn, Expansion, End
  <2> QED BY <2>2 DEF Components, Order!ComponentsAreComplete
<1> QED BY <1>2, <1>3 DEF SortInv, ComponentsAreComplete

LEMMA SortedDependencies == ReportInv /\ SortInv => DependenciesFirst
<1> SUFFICES ASSUME ReportInv, SortInv, phase = "end"
             PROVE  /\ IsInjective(order) /\ Range(order) = visited
                    /\ DOMAIN numbers = DOMAIN packages
                    /\ \A p, d \in DOMAIN packages :
                         d \in packages[p] /\ d # p => numbers[d] < numbers[p] \/ Order!Together(d, p)
  BY DEF DependenciesFirst
<1>1. InTurn /\ Placed = visited /\ numbers = Numbers /\ EdgesOfPackages
  BY DEF SortInv, End
<1>2. DOMAIN packages \subseteq visited
  BY DEF ReportInv, RoadmapInv, TypeOK
<1>3. IsInjective(order) /\ Range(order) = visited
  BY <1>1 DEF InTurn, Placed, IsInjective, Range
<1>4. /\ DOMAIN numbers = DOMAIN packages
      /\ \A p \in DOMAIN packages : numbers[p] = CHOOSE i \in DOMAIN order : order[i] = p
  BY <1>1, <1>2, <1>3 DEF Numbers
<1>5. \A p \in DOMAIN packages : \E i \in DOMAIN order : order[i] = p
  BY <1>1, <1>2 DEF Placed
<1>6. \A p \in DOMAIN packages : numbers[p] \in DOMAIN order /\ order[numbers[p]] = p
  BY <1>4, <1>5
<1>7. ASSUME NEW p \in DOMAIN packages, NEW d \in DOMAIN packages, d \in packages[p], d # p
      PROVE  numbers[d] < numbers[p] \/ Order!Together(d, p)
  <2>1. Order!Edge(d, p)
    BY <1>1, <1>7 DEF EdgesOfPackages
  <2>2. Order!Together(d, p) \/ \E m \in DOMAIN order : m < numbers[p] /\ order[m] = d
    BY <1>1, <1>2, <1>6, <2>1 DEF InTurn
  <2>3. \A m \in DOMAIN order : order[m] = d => m = numbers[d]
    BY <1>1, <1>6 DEF InTurn
  <2> QED BY <2>2, <2>3
<1> QED BY <1>3, <1>4, <1>7

(* The invariant that the others follow from: types, the bounds of the     *)
(* queue and, while RoadmapResolver.resolve searches, that it does so      *)
(* level by level and loses nothing on the way.                            *)
THEOREM RoadmapInductive == ReportSpec => []ReportInv
<1>1. ReportInv /\ [ReportNext]_<<vars, phase, locals, numbers>> => ReportInv'
  BY StepReport
<1> QED BY InitReport, <1>1, PTL DEF ReportSpec

(* Every name a package requires leads to a package, or it is in the list  *)
(* of the report where it belongs, whatever was dropped before.            *)
THEOREM EveryNamePlaced == ReportSpec => []EveryNameHasItsPlace
<1>1. ReportInv => EveryNameHasItsPlace
  BY DEF ReportInv, EveryNameHasItsPlace
<1> QED BY RoadmapInductive, <1>1, PTL

(* "Always resolves the complete graph": for any index, rules and options  *)
(* the search ends with the packages the target needs within max_depth,    *)
(* and no others; its queue never holds a package deeper than there are    *)
(* packages, nor more entries than these have names.                       *)
THEOREM CompleteGraph == ReportSpec => []ReportIsComplete
<1>1. ReportInv => ReportIsComplete
  BY SearchIsComplete DEF ReportInv, RoadmapInv, ReportIsComplete
<1> QED BY RoadmapInductive, <1>1, PTL

(* The invariant of the sort: what the numbers and the low links of        *)
(* Tarjan's algorithm know of the packages on its stack, what Kahn's       *)
(* counts, and what the expansion has placed.                              *)
THEOREM SortInductive == ReportSpec => [](ReportInv /\ SortInv)
<1>1. ReportInit => ReportInv /\ SortInv
  BY InitReport, InitSort
<1>2. ReportInv /\ SortInv /\ [ReportNext]_<<vars, phase, locals, numbers>> => ReportInv' /\ SortInv'
  BY StepReport, StepReportSort
<1> QED BY <1>1, <1>2, PTL DEF ReportSpec

(* For any graph that the search hands over, Tarjan's algorithm finds its  *)
(* strongly connected components, each whole: while it runs and after.     *)
THEOREM ComponentsComplete == ReportSpec => []ComponentsAreComplete
<1>1. ReportInv /\ SortInv => ComponentsAreComplete
  BY SortedComponents
<1> QED BY SortInductive, <1>1, PTL

(* For any graph, the numbers of the report are an order to build in: what *)
(* a package requires has a smaller number, unless the two require each    *)
(* other, directly or through others.                                      *)
THEOREM OrderToBuildIn == ReportSpec => []DependenciesFirst
<1>1. ReportInv /\ SortInv => DependenciesFirst
  BY SortedDependencies
<1> QED BY SortInductive, <1>1, PTL
=============================================================================
