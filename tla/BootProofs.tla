----------------------------- MODULE BootProofs -----------------------------
(***************************************************************************)
(* TLAPS proofs about the boot, for any machines, sizes of the regions and *)
(* number of events: the memory map that is handed over, how the kernel    *)
(* divides the memory, and what the loader left in it.                     *)
(***************************************************************************)
EXTENDS Boot, FiniteSetTheorems, SequenceTheorems, WellFoundedInduction, TLAPS

-----------------------------------------------------------------------------
(* Numbers and ranks.                                                      *)

\* A set of natural numbers that is not empty has a least element.
LEMMA LeastNatural ==
  ASSUME NEW S, S \subseteq Nat, S # {}
  PROVE  \E m \in S : \A n \in S : m <= n
<1> DEFINE R == OpToRel(<, Nat)
<1>1. IsWellFoundedOn(R, Nat)
  BY NatLessThanWellFounded, Zenon
<1>2. PICK m \in S : \A n \in S : ~ (<<n, m>> \in R)
  <2> HIDE DEF R
  <2> QED BY <1>1, WFMin
<1>3. \A n \in S : ~ (n < m)
  BY <1>2 DEF OpToRel
<1>4. \A n \in S : m <= n
  BY <1>3
<1> QED BY <1>4

\* Induction on the natural numbers, with the formula to be proved as a set.
LEMMA SetInduction ==
  ASSUME NEW S, 0 \in S, \A n \in Nat : n \in S => n + 1 \in S
  PROVE  Nat \subseteq S
<1> SUFFICES ASSUME Nat \ S # {} PROVE FALSE
  OBVIOUS
<1>1. PICK x \in Nat \ S : \A y \in Nat \ S : x <= y
  BY LeastNatural
<1> QED BY <1>1

\* A set of natural numbers with a bound that is not empty has a greatest one.
LEMMA GreatestNatural ==
  ASSUME NEW S, S \subseteq Nat, S # {}, NEW b \in Nat, \A n \in S : n <= b
  PROVE  \E m \in S : \A n \in S : n <= m
<1> DEFINE T == {k \in Nat : b - k \in S}
<1>1. T \subseteq Nat
  OBVIOUS
<1>2. T # {}
  <2>1. PICK n \in S : TRUE
    OBVIOUS
  <2>2. b - n \in Nat /\ b - (b - n) = n
    BY <2>1
  <2> QED BY <2>1, <2>2
<1>3. PICK k \in T : \A j \in T : k <= j
  <2> HIDE DEF T
  <2> QED BY <1>1, <1>2, LeastNatural
<1>4. b - k \in S
  BY <1>3
<1>5. ASSUME NEW n \in S PROVE n <= b - k
  <2>1. b - n \in Nat /\ b - (b - n) = n /\ n \in Nat /\ k \in Nat
    BY <1>3
  <2>2. b - n \in T
    BY <2>1
  <2>3. k <= b - n
    BY <1>3, <2>2
  <2> QED BY <2>1, <2>3
<1> QED BY <1>4, <1>5

\* How many members of S come before x.
RankUp(S, x) == Cardinality({y \in S : y < x})
RankDown(S, x) == Cardinality({y \in S : y > x})

\* s lists each member of S once.
Lists(s, S) ==
  /\ s \in Seq(S)
  /\ DOMAIN s = 1..Cardinality(S)
  /\ \A k \in DOMAIN s : s[k] \in S
  /\ \A i, j \in DOMAIN s : s[i] = s[j] => i = j
  /\ \A x \in S : \E k \in DOMAIN s : s[k] = x

(***************************************************************************)
(* A function that gives each member of a finite set another rank gives    *)
(* every rank, so the members can be listed by rank.                       *)
(***************************************************************************)
LEMMA ListsByRank ==
  ASSUME NEW S, IsFiniteSet(S), NEW rank \in [S -> 0..(Cardinality(S) - 1)],
         \A x, y \in S : rank[x] = rank[y] => x = y
  PROVE  Lists([k \in 1..Cardinality(S) |-> CHOOSE x \in S : rank[x] = k - 1], S)
<1> DEFINE n == Cardinality(S)
           T == 0..(n - 1)
           s == [k \in 1..n |-> CHOOSE x \in S : rank[x] = k - 1]
<1>1. n \in Nat
  BY FS_CardinalityType
<1>2. IsFiniteSet(T) /\ Cardinality(T) = n
  <2>1. n - 1 \in Int /\ 0 \in Int
    BY <1>1
  <2>2. /\ IsFiniteSet(T)
        /\ Cardinality(T) = IF 0 > n - 1 THEN 0 ELSE n - 1 - 0 + 1
    <3> HIDE DEF n
    <3> QED BY <2>1, FS_Interval
  <2> HIDE DEF n
  <2> QED BY <1>1, <2>2
<1>3. rank \in Injection(S, T)
  BY DEF Injection, IsInjective
<1>4. rank \in Surjection(S, T)
  <2> HIDE DEF T
  <2> QED BY <1>2, <1>3, FS_Injection
<1>5. \A t \in T : \E x \in S : rank[x] = t
  BY <1>4 DEF Surjection
<1>6. ASSUME NEW k \in 1..n PROVE s[k] \in S /\ rank[s[k]] = k - 1
  <2>1. k - 1 \in T
    BY <1>1, <1>6
  <2>2. \E x \in S : rank[x] = k - 1
    BY <1>5, <2>1
  <2>3. s[k] = CHOOSE x \in S : rank[x] = k - 1
    BY <1>6
  <2> QED BY <2>2, <2>3, Zenon
<1>7. ASSUME NEW i \in 1..n, NEW j \in 1..n, s[i] = s[j] PROVE i = j
  <2>1. rank[s[i]] = i - 1 /\ rank[s[j]] = j - 1
    BY <1>6, <1>7
  <2>2. i \in Int /\ j \in Int
    BY <1>7
  <2>3. i - 1 = j - 1
    BY <1>7, <2>1, Zenon
  <2> QED BY <2>2, <2>3
<1>8. ASSUME NEW x \in S PROVE \E k \in 1..n : s[k] = x
  <2>1. rank[x] + 1 \in 1..n /\ rank[x] + 1 - 1 = rank[x]
    BY <1>1
  <2> DEFINE k == rank[x] + 1
  <2>2. k \in 1..n /\ s[k] \in S /\ rank[s[k]] = rank[x]
    <3>1. k \in 1..n
      BY <2>1
    <3>2. s[k] \in S /\ rank[s[k]] = k - 1
      <4> HIDE DEF s, k, n
      <4> QED BY <1>6, <3>1
    <3> QED BY <3>1, <3>2, <2>1
  <2>3. s[k] = x
    <3> HIDE DEF s, k
    <3> QED BY <2>2
  <2> QED BY <2>2, <2>3
<1>9. DOMAIN s = 1..n
  OBVIOUS
<1>10. s \in Seq(S)
  BY <1>1, <1>6
<1> HIDE DEF s, n
<1>11. \A k \in DOMAIN s : s[k] \in S
  BY <1>6, <1>9
<1>12. \A i, j \in DOMAIN s : s[i] = s[j] => i = j
  BY <1>7, <1>9
<1>13. \A x \in S : \E k \in DOMAIN s : s[k] = x
  BY <1>8, <1>9
<1> QED BY <1>9, <1>10, <1>11, <1>12, <1>13, Zenon DEF Lists, n, s

\* What Sorted makes of a finite set of numbers.
LEMMA SortedUp ==
  ASSUME NEW S, IsFiniteSet(S), S \subseteq Int
  PROVE  Lists(Sorted(S, <), S)
<1> DEFINE rank == [x \in S |-> RankUp(S, x)]
<1>1. ASSUME NEW x \in S
      PROVE  /\ IsFiniteSet({y \in S : y < x})
             /\ RankUp(S, x) \in 0..(Cardinality(S) - 1)
  <2> DEFINE B == {y \in S : y < x}
  <2>1. B \in SUBSET S /\ B # S
    BY <1>1
  <2>2. IsFiniteSet(B) /\ Cardinality(B) <= Cardinality(S) /\ (Cardinality(S) = Cardinality(B) => S = B)
    <3> HIDE DEF B
    <3> QED BY <2>1, FS_Subset
  <2>3. Cardinality(S) \in Nat /\ Cardinality(B) \in Nat
    <3> HIDE DEF B
    <3> QED BY <2>2, FS_CardinalityType
  <2>4. Cardinality(B) \in 0..(Cardinality(S) - 1)
    <3> HIDE DEF B
    <3> QED BY <2>1, <2>2, <2>3
  <2> QED BY <2>2, <2>4 DEF RankUp
<1>2. rank \in [S -> 0..(Cardinality(S) - 1)]
  BY <1>1
<1>3. ASSUME NEW x \in S, NEW y \in S, x < y PROVE RankUp(S, x) < RankUp(S, y)
  <2> DEFINE A == {z \in S : z < x}
             B == {z \in S : z < y}
  <2>1. IsFiniteSet(A) /\ IsFiniteSet(B)
    BY <1>1
  <2>2. A \in SUBSET B /\ x \in B /\ x \notin A
    <3>1. x \in Int /\ y \in Int /\ \A z \in S : z \in Int
      BY <1>3
    <3>2. \A z \in A : z \in B
      BY <1>3, <3>1
    <3>3. x \in B /\ x \notin A
      BY <1>3, <3>1
    <3> HIDE DEF A, B
    <3> QED BY <3>2, <3>3
  <2>3. Cardinality(A) <= Cardinality(B) /\ (Cardinality(B) = Cardinality(A) => B = A)
    <3> HIDE DEF A, B
    <3> QED BY <2>1, <2>2, FS_Subset
  <2>4. Cardinality(A) \in Nat /\ Cardinality(B) \in Nat
    <3> HIDE DEF A, B
    <3> QED BY <2>1, FS_CardinalityType
  <2>5. Cardinality(A) < Cardinality(B)
    <3> HIDE DEF A, B
    <3> QED BY <2>2, <2>3, <2>4
  <2> QED BY <2>5 DEF RankUp
<1>4. ASSUME NEW x \in S, NEW y \in S, rank[x] = rank[y] PROVE x = y
  <2>1. RankUp(S, x) = RankUp(S, y)
    BY <1>4
  <2>2. RankUp(S, x) \in Int /\ RankUp(S, y) \in Int /\ x \in Int /\ y \in Int
    <3>1. Cardinality(S) \in Int
      BY FS_CardinalityType
    <3>2. RankUp(S, x) \in 0..(Cardinality(S) - 1) /\ RankUp(S, y) \in 0..(Cardinality(S) - 1)
      BY <1>1, Zenon
    <3> HIDE DEF rank
    <3> QED BY <3>1, <3>2
  <2>3. ~(x < y) /\ ~(y < x)
    BY <1>3, <2>1, <2>2
  <2> QED BY <2>2, <2>3
<1>5. Lists([k \in 1..Cardinality(S) |-> CHOOSE x \in S : rank[x] = k - 1], S)
  <2> HIDE DEF rank
  <2> QED BY <1>2, <1>4, ListsByRank
<1>6. \A k : (CHOOSE x \in S : rank[x] = k - 1) = (CHOOSE x \in S : Cardinality({y \in S : y < x}) = k - 1)
  <2>1. \A x \in S : rank[x] = Cardinality({y \in S : y < x})
    BY DEF RankUp
  <2> TAKE k
  <2>2. \A x : (x \in S /\ rank[x] = k - 1) <=> (x \in S /\ Cardinality({y \in S : y < x}) = k - 1)
    BY <2>1, Zenon
  <2> HIDE DEF rank
  <2> QED BY <2>2, Zenon
<1> DEFINE c(k) == CHOOSE x \in S : rank[x] = k - 1
           d(k) == CHOOSE x \in S : Cardinality({y \in S : y < x}) = k - 1
<1>7. Sorted(S, <) = [k \in 1..Cardinality(S) |-> d(k)]
  BY Zenon DEF Sorted
<1>8. [k \in 1..Cardinality(S) |-> c(k)] = [k \in 1..Cardinality(S) |-> d(k)]
  <2>1. \A k : c(k) = d(k)
    BY <1>6
  <2> HIDE DEF c, d
  <2> QED BY <2>1
<1>9. Lists([k \in 1..Cardinality(S) |-> c(k)], S)
  BY <1>5
<1> HIDE DEF c, d
<1> QED BY <1>7, <1>8, <1>9, Zenon

LEMMA SortedDown ==
  ASSUME NEW S, IsFiniteSet(S), S \subseteq Int
  PROVE  Lists(Sorted(S, >), S)
<1> DEFINE rank == [x \in S |-> RankDown(S, x)]
<1>1. ASSUME NEW x \in S
      PROVE  /\ IsFiniteSet({y \in S : y > x})
             /\ RankDown(S, x) \in 0..(Cardinality(S) - 1)
  <2> DEFINE B == {y \in S : y > x}
  <2>1. B \in SUBSET S /\ B # S
    BY <1>1
  <2>2. IsFiniteSet(B) /\ Cardinality(B) <= Cardinality(S) /\ (Cardinality(S) = Cardinality(B) => S = B)
    <3> HIDE DEF B
    <3> QED BY <2>1, FS_Subset
  <2>3. Cardinality(S) \in Nat /\ Cardinality(B) \in Nat
    <3> HIDE DEF B
    <3> QED BY <2>2, FS_CardinalityType
  <2>4. Cardinality(B) \in 0..(Cardinality(S) - 1)
    <3> HIDE DEF B
    <3> QED BY <2>1, <2>2, <2>3
  <2> QED BY <2>2, <2>4 DEF RankDown
<1>2. rank \in [S -> 0..(Cardinality(S) - 1)]
  BY <1>1
<1>3. ASSUME NEW x \in S, NEW y \in S, x > y PROVE RankDown(S, x) < RankDown(S, y)
  <2> DEFINE A == {z \in S : z > x}
             B == {z \in S : z > y}
  <2>1. IsFiniteSet(A) /\ IsFiniteSet(B)
    BY <1>1
  <2>2. A \in SUBSET B /\ x \in B /\ x \notin A
    <3>1. x \in Int /\ y \in Int /\ \A z \in S : z \in Int
      BY <1>3
    <3>2. \A z \in A : z \in B
      BY <1>3, <3>1
    <3>3. x \in B /\ x \notin A
      BY <1>3, <3>1
    <3> HIDE DEF A, B
    <3> QED BY <3>2, <3>3
  <2>3. Cardinality(A) <= Cardinality(B) /\ (Cardinality(B) = Cardinality(A) => B = A)
    <3> HIDE DEF A, B
    <3> QED BY <2>1, <2>2, FS_Subset
  <2>4. Cardinality(A) \in Nat /\ Cardinality(B) \in Nat
    <3> HIDE DEF A, B
    <3> QED BY <2>1, FS_CardinalityType
  <2>5. Cardinality(A) < Cardinality(B)
    <3> HIDE DEF A, B
    <3> QED BY <2>2, <2>3, <2>4
  <2> QED BY <2>5 DEF RankDown
<1>4. ASSUME NEW x \in S, NEW y \in S, rank[x] = rank[y] PROVE x = y
  <2>1. RankDown(S, x) = RankDown(S, y)
    BY <1>4
  <2>2. RankDown(S, x) \in Int /\ RankDown(S, y) \in Int /\ x \in Int /\ y \in Int
    <3>1. Cardinality(S) \in Int
      BY FS_CardinalityType
    <3>2. RankDown(S, x) \in 0..(Cardinality(S) - 1) /\ RankDown(S, y) \in 0..(Cardinality(S) - 1)
      BY <1>1, Zenon
    <3> HIDE DEF rank
    <3> QED BY <3>1, <3>2
  <2>3. ~(x > y) /\ ~(y > x)
    BY <1>3, <2>1, <2>2
  <2> QED BY <2>2, <2>3
<1>5. Lists([k \in 1..Cardinality(S) |-> CHOOSE x \in S : rank[x] = k - 1], S)
  <2> HIDE DEF rank
  <2> QED BY <1>2, <1>4, ListsByRank
<1>6. \A k : (CHOOSE x \in S : rank[x] = k - 1) = (CHOOSE x \in S : Cardinality({y \in S : y > x}) = k - 1)
  <2>1. \A x \in S : rank[x] = Cardinality({y \in S : y > x})
    BY DEF RankDown
  <2> TAKE k
  <2>2. \A x : (x \in S /\ rank[x] = k - 1) <=> (x \in S /\ Cardinality({y \in S : y > x}) = k - 1)
    BY <2>1, Zenon
  <2> HIDE DEF rank
  <2> QED BY <2>2, Zenon
<1> DEFINE c(k) == CHOOSE x \in S : rank[x] = k - 1
           d(k) == CHOOSE x \in S : Cardinality({y \in S : y > x}) = k - 1
<1>7. Sorted(S, >) = [k \in 1..Cardinality(S) |-> d(k)]
  BY Zenon DEF Sorted
<1>8. [k \in 1..Cardinality(S) |-> c(k)] = [k \in 1..Cardinality(S) |-> d(k)]
  <2>1. \A k : c(k) = d(k)
    BY <1>6
  <2> HIDE DEF c, d
  <2> QED BY <2>1
<1>9. Lists([k \in 1..Cardinality(S) |-> c(k)], S)
  BY <1>5
<1> HIDE DEF c, d
<1> QED BY <1>7, <1>8, <1>9, Zenon

-----------------------------------------------------------------------------
(* Memory and its descriptors.                                             *)

PageTypes == {"conventional", "loaderCode", "bootServices", "reserved", "loaderData"}
UsableTypes == {"conventional", "loaderCode", "bootServices"}

\* Memory has a first page and a last one, and a type for each between them.
IsMemory(mem) == \E a, b \in Nat : 0 < a /\ a <= b /\ mem \in [a..b -> PageTypes]

LEMMA MinOf ==
  ASSUME NEW S, S \subseteq Nat, S # {}
  PROVE  Min(S) \in S /\ \A n \in S : Min(S) <= n
<1>1. \E m \in S : \A n \in S : m <= n
  BY LeastNatural
<1> QED BY <1>1, Zenon DEF Min

LEMMA MemoryPages ==
  ASSUME NEW mem, IsMemory(mem)
  PROVE  /\ DOMAIN mem \subseteq Nat \ {0}
         /\ IsFiniteSet(DOMAIN mem)
         /\ \A p \in DOMAIN mem : mem[p] \in PageTypes
<1>1. PICK a \in Nat, b \in Nat : 0 < a /\ a <= b /\ mem \in [a..b -> PageTypes]
  BY DEF IsMemory
<1>2. DOMAIN mem = a..b
  BY <1>1
<1>3. IsFiniteSet(a..b)
  BY FS_Interval
<1> QED BY <1>1, <1>2, <1>3

LEMMA GiveMemory ==
  ASSUME NEW mem, IsMemory(mem), NEW S, NEW type \in PageTypes
  PROVE  /\ IsMemory(Give(mem, S, type))
         /\ DOMAIN Give(mem, S, type) = DOMAIN mem
         /\ \A p \in DOMAIN mem : Give(mem, S, type)[p] = IF p \in S THEN type ELSE mem[p]
<1>1. PICK a \in Nat, b \in Nat : 0 < a /\ a <= b /\ mem \in [a..b -> PageTypes]
  BY DEF IsMemory
<1>2. /\ DOMAIN Give(mem, S, type) = DOMAIN mem
      /\ \A p \in DOMAIN mem : Give(mem, S, type)[p] = IF p \in S THEN type ELSE mem[p]
  BY DEF Give
<1>3. Give(mem, S, type) \in [a..b -> PageTypes]
  BY <1>1 DEF Give
<1> QED BY <1>1, <1>2, <1>3 DEF IsMemory

\* What the firmware allocates was free.
LEMMA AllocatedFree ==
  ASSUME NEW mem, IsMemory(mem), NEW n, Fits(mem, n) # {}
  PROVE  \E p \in Fits(mem, n) : Allocated(mem, n) = p..(p + n - 1)
<1>1. PICK a \in Nat, b \in Nat : 0 < a /\ a <= b /\ mem \in [a..b -> PageTypes]
  BY DEF IsMemory
<1>2. Fits(mem, n) \subseteq Nat /\ \A q \in Fits(mem, n) : q <= b
  BY <1>1 DEF Fits
<1>3. \E p \in Fits(mem, n) : \A q \in Fits(mem, n) : q <= p
  BY <1>1, <1>2, GreatestNatural
<1>4. (CHOOSE p \in Fits(mem, n) : \A q \in Fits(mem, n) : q <= p) \in Fits(mem, n)
  BY <1>3, Zenon
<1> QED BY <1>4, Zenon DEF Allocated

LEMMA AllocatedWasFree ==
  ASSUME NEW mem, IsMemory(mem), NEW n, Fits(mem, n) # {}
  PROVE  Allocated(mem, n) \subseteq Free(mem)
<1>1. PICK p \in Fits(mem, n) : Allocated(mem, n) = p..(p + n - 1)
  BY AllocatedFree
<1>2. \A q \in p..(p + n - 1) : q \in DOMAIN mem /\ mem[q] = "conventional"
  BY Zenon DEF Fits
<1> QED BY <1>1, <1>2, Zenon DEF Free

LEMMA AllocatedPage ==
  ASSUME NEW mem, IsMemory(mem), Free(mem) # {}
  PROVE  \E p \in Free(mem) : Allocated(mem, 1) = {p}
<1>1. DOMAIN mem \subseteq Nat
  BY MemoryPages
<1>2. \A p \in DOMAIN mem : p..(p + 1 - 1) = {p}
  BY <1>1
<1>3. Fits(mem, 1) = Free(mem)
  BY <1>2, Zenon DEF Fits, Free
<1>4. PICK p \in Fits(mem, 1) : Allocated(mem, 1) = p..(p + 1 - 1)
  BY <1>3, AllocatedFree
<1> QED BY <1>2, <1>3, <1>4 DEF Free

\* The pages a descriptor starts at, those one ends at, and the descriptor that
\* starts at page p.
Starts(mem) == {p \in DOMAIN mem : p - 1 \notin DOMAIN mem \/ mem[p - 1] # mem[p]}
Ends(mem) == {p \in DOMAIN mem : p + 1 \notin DOMAIN mem \/ mem[p + 1] # mem[p]}
LastOf(mem, p) == Min({q \in Ends(mem) : q >= p})
DescriptorAt(mem, p) == [start |-> p, pages |-> LastOf(mem, p) + 1 - p, type |-> mem[p]]

(***************************************************************************)
(* The memory map D describes every page of mem exactly once, with its     *)
(* type.                                                                   *)
(***************************************************************************)
MapOf(D, mem) ==
  /\ Len(D) \in Nat /\ DOMAIN D = 1..Len(D)
  /\ \A k \in DOMAIN D : D[k].start \in Nat \ {0} /\ D[k].pages \in Nat \ {0} /\ D[k].type \in PageTypes
  /\ \A k \in DOMAIN D : \A p \in PagesOf(D[k]) : p \in DOMAIN mem /\ mem[p] = D[k].type
  /\ \A p \in DOMAIN mem : \E k \in DOMAIN D : p \in PagesOf(D[k])
  /\ \A i, j \in DOMAIN D : \A p : p \in PagesOf(D[i]) /\ p \in PagesOf(D[j]) => i = j

LEMMA LastOfIs ==
  ASSUME NEW mem, IsMemory(mem), NEW p \in DOMAIN mem
  PROVE  /\ LastOf(mem, p) \in Ends(mem) /\ LastOf(mem, p) >= p
         /\ \A q \in Ends(mem) : q >= p => LastOf(mem, p) <= q
<1> DEFINE E == {q \in Ends(mem) : q >= p}
<1>1. PICK a \in Nat, b \in Nat : 0 < a /\ a <= b /\ mem \in [a..b -> PageTypes]
  BY DEF IsMemory
<1>2. b \in DOMAIN mem /\ b + 1 \notin DOMAIN mem /\ b >= p
  BY <1>1
<1>3. E # {}
  BY <1>2 DEF Ends
<1>4. E \subseteq Nat
  BY <1>1 DEF Ends
<1>5. Min(E) \in E /\ \A n \in E : Min(E) <= n
  <2> HIDE DEF E
  <2> QED BY <1>3, <1>4, MinOf
<1>6. LastOf(mem, p) = Min(E)
  BY DEF LastOf
<1>7. LastOf(mem, p) \in E /\ \A n \in E : LastOf(mem, p) <= n
  <2> HIDE DEF E
  <2> QED BY <1>5, <1>6
<1> QED BY <1>7

\* A stretch of memory has one type, and no other descriptor starts in it.
LEMMA StretchIs ==
  ASSUME NEW mem, IsMemory(mem), NEW p \in Starts(mem)
  PROVE  \A q \in p..LastOf(mem, p) : q \in DOMAIN mem /\ mem[q] = mem[p] /\ (q \in Starts(mem) => q = p)
<1>1. PICK a \in Nat, b \in Nat : 0 < a /\ a <= b /\ mem \in [a..b -> PageTypes]
  BY DEF IsMemory
<1>2. p \in a..b /\ DOMAIN mem = a..b
  BY <1>1 DEF Starts
<1>3. LastOf(mem, p) \in a..b /\ LastOf(mem, p) >= p
  BY <1>2, LastOfIs DEF Ends
<1>4. ASSUME NEW q \in p..LastOf(mem, p), q < LastOf(mem, p) PROVE q + 1 \in DOMAIN mem /\ mem[q + 1] = mem[q]
  <2>1. q \in DOMAIN mem /\ q >= p
    BY <1>2, <1>3, <1>4
  <2>2. q \notin Ends(mem)
    BY <1>2, <1>3, <1>4, <2>1, LastOfIs
  <2> QED BY <2>1, <2>2 DEF Ends
<1>5. ASSUME NEW q \in p..LastOf(mem, p), q # p PROVE q - 1 \in p..LastOf(mem, p) /\ mem[q] = mem[q - 1] /\ q \notin Starts(mem)
  <2>1. q - 1 \in p..LastOf(mem, p) /\ q - 1 < LastOf(mem, p) /\ (q - 1) + 1 = q
    BY <1>2, <1>3, <1>5
  <2>2. q \in DOMAIN mem /\ mem[q] = mem[q - 1]
    BY <1>4, <2>1
  <2>3. q - 1 \in DOMAIN mem
    BY <1>2, <1>3, <2>1
  <2> QED BY <2>1, <2>2, <2>3 DEF Starts
<1> DEFINE B == {q \in p..LastOf(mem, p) : mem[q] # mem[p]}
<1>6. B = {}
  <2> SUFFICES ASSUME B # {} PROVE FALSE
    OBVIOUS
  <2>1. B \subseteq Nat
    BY <1>2, <1>3
  <2>2. PICK q \in B : \A r \in B : q <= r
    <3> HIDE DEF B
    <3> QED BY <2>1, LeastNatural
  <2>3. q # p /\ q \in p..LastOf(mem, p) /\ mem[q] # mem[p]
    BY <2>2
  <2>4. q - 1 \in p..LastOf(mem, p) /\ mem[q] = mem[q - 1]
    BY <1>5, <2>3
  <2>5. q - 1 \in B
    BY <2>3, <2>4
  <2>6. q <= q - 1 /\ q \in Nat
    BY <2>1, <2>2, <2>5
  <2> QED BY <2>6
<1>7. \A q \in p..LastOf(mem, p) : q \in DOMAIN mem
  BY <1>2, <1>3
<1> QED BY <1>5, <1>6, <1>7

\* The pages of a descriptor.
LEMMA DescriptorPages ==
  ASSUME NEW mem, IsMemory(mem), NEW p \in Starts(mem)
  PROVE  /\ DescriptorAt(mem, p).start \in Nat \ {0}
         /\ DescriptorAt(mem, p).pages \in Nat \ {0}
         /\ DescriptorAt(mem, p).type \in PageTypes
         /\ DescriptorAt(mem, p).type = mem[p]
         /\ PagesOf(DescriptorAt(mem, p)) = p..LastOf(mem, p)
<1>1. DOMAIN mem \subseteq Nat \ {0} /\ \A q \in DOMAIN mem : mem[q] \in PageTypes
  BY MemoryPages
<1>2. p \in DOMAIN mem
  BY DEF Starts
<1>3. LastOf(mem, p) \in DOMAIN mem /\ LastOf(mem, p) >= p
  BY <1>2, LastOfIs DEF Ends
<1>4. p \in Nat \ {0} /\ LastOf(mem, p) \in Nat
  BY <1>1, <1>2, <1>3
<1>5. LastOf(mem, p) + 1 - p \in Nat \ {0} /\ p + (LastOf(mem, p) + 1 - p) - 1 = LastOf(mem, p)
  BY <1>3, <1>4
<1> QED BY <1>1, <1>2, <1>4, <1>5 DEF DescriptorAt, PagesOf

\* Every page is in the stretch of the last start before it.
LEMMA StretchFound ==
  ASSUME NEW mem, IsMemory(mem), NEW p \in DOMAIN mem
  PROVE  \E s \in Starts(mem) : p \in s..LastOf(mem, s)
<1>1. PICK a \in Nat, b \in Nat : 0 < a /\ a <= b /\ mem \in [a..b -> PageTypes]
  BY DEF IsMemory
<1>2. DOMAIN mem = a..b /\ p \in a..b
  BY <1>1
<1> DEFINE B == {s \in Starts(mem) : s <= p}
<1>3. a \in B
  BY <1>1, <1>2 DEF Starts
<1>4. B \subseteq Nat /\ \A s \in B : s <= p
  BY <1>2 DEF Starts
<1>5. PICK s \in B : \A r \in B : r <= s
  <2>1. p \in Nat
    BY <1>2
  <2> HIDE DEF B
  <2> QED BY <1>3, <1>4, <2>1, GreatestNatural
<1>6. s \in Starts(mem) /\ s <= p /\ s \in a..b
  BY <1>2, <1>5 DEF Starts
<1>7. LastOf(mem, s) \in a..b /\ LastOf(mem, s) \in Ends(mem) /\ LastOf(mem, s) >= s
  BY <1>2, <1>6, LastOfIs DEF Ends
<1>8. LastOf(mem, s) >= p
  <2> SUFFICES ASSUME LastOf(mem, s) < p PROVE FALSE
    BY <1>2, <1>7
  <2> DEFINE q == LastOf(mem, s) + 1
  <2>1. q \in DOMAIN mem /\ q <= p /\ q > s /\ q - 1 = LastOf(mem, s)
    BY <1>2, <1>6, <1>7
  <2>2. mem[q] # mem[q - 1]
    BY <1>7, <2>1 DEF Ends
  <2>3. q \in B
    BY <2>1, <2>2 DEF Starts
  <2>4. q <= s
    BY <1>5, <2>3
  <2> QED BY <1>6, <1>7, <2>4
<1> QED BY <1>2, <1>6, <1>7, <1>8

LEMMA DescriptorsAre ==
  ASSUME NEW mem, IsMemory(mem)
  PROVE  /\ MapOf(Descriptors(mem), mem)
         /\ Len(Descriptors(mem)) = Cardinality(Starts(mem))
<1> DEFINE D == Descriptors(mem)
           S == Starts(mem)
           s == Sorted(S, <)
           n == Cardinality(S)
           at(p) == DescriptorAt(mem, p)
<1>1. IsFiniteSet(S) /\ S \subseteq Int /\ n \in Nat
  <2>1. S \in SUBSET DOMAIN mem /\ DOMAIN mem \subseteq Nat \ {0} /\ IsFiniteSet(DOMAIN mem)
    BY MemoryPages DEF Starts
  <2>2. IsFiniteSet(S)
    <3> HIDE DEF S
    <3> QED BY <2>1, FS_Subset
  <2>3. n \in Nat
    <3> HIDE DEF S
    <3> QED BY <2>2, FS_CardinalityType
  <2>4. S \subseteq Int
    BY <2>1
  <2> QED BY <2>2, <2>3, <2>4
<1>2. Lists(s, S)
  <2> HIDE DEF S
  <2> QED BY <1>1, SortedUp
<1>3. D = [k \in 1..n |-> [p \in S |-> at(p)][s[k]]]
  BY Zenon DEF Descriptors, Starts, Ends, DescriptorAt, LastOf
<1>4. \A k \in 1..n : s[k] \in S
  BY <1>2, Zenon DEF Lists
<1>5. D = [k \in 1..n |-> at(s[k])]
  <2> HIDE DEF S, s, n, D, at
  <2> QED BY <1>3, <1>4
<1>6. Len(D) = n /\ DOMAIN D = 1..n /\ \A k \in 1..n : D[k] = at(s[k])
  <2> HIDE DEF S, s, n, D, at
  <2> QED BY <1>1, <1>5
<1>7. \A p \in S : /\ at(p).start \in Nat \ {0} /\ at(p).pages \in Nat \ {0} /\ at(p).type \in PageTypes
                   /\ at(p).type = mem[p] /\ PagesOf(at(p)) = p..LastOf(mem, p)
  BY DescriptorPages
<1>8. \A p \in S : \A q \in p..LastOf(mem, p) : q \in DOMAIN mem /\ mem[q] = mem[p] /\ (q \in S => q = p)
  BY StretchIs
<1>9. \A p \in DOMAIN mem : \E r \in S : p \in r..LastOf(mem, r)
  BY StretchFound
<1>10. \A p, r \in S : \A q : q \in p..LastOf(mem, p) /\ q \in r..LastOf(mem, r) => p = r
  <2> SUFFICES ASSUME NEW p \in S, NEW r \in S, NEW q, q \in p..LastOf(mem, p), q \in r..LastOf(mem, r)
               PROVE  p = r
    BY Zenon
  <2>1. p \in Int /\ r \in Int /\ q \in Int /\ LastOf(mem, p) \in Int /\ LastOf(mem, r) \in Int
    <3>1. p \in DOMAIN mem /\ r \in DOMAIN mem
      BY DEF Starts
    <3>2. LastOf(mem, p) \in DOMAIN mem /\ LastOf(mem, r) \in DOMAIN mem
      BY <3>1, LastOfIs DEF Ends
    <3> QED BY <3>1, <3>2, MemoryPages
  <2>2. CASE p <= r
    <3>1. r \in p..LastOf(mem, p)
      BY <2>1, <2>2
    <3> HIDE DEF S
    <3> QED BY <1>8, <3>1
  <2>3. CASE r <= p
    <3>1. p \in r..LastOf(mem, r)
      BY <2>1, <2>3
    <3> HIDE DEF S
    <3> QED BY <1>8, <3>1
  <2> QED BY <2>1, <2>2, <2>3
<1>11. \A k \in 1..n : D[k].start \in Nat \ {0} /\ D[k].pages \in Nat \ {0} /\ D[k].type \in PageTypes
  <2> HIDE DEF S, s, n, D, at
  <2> QED BY <1>4, <1>6, <1>7
<1>12. \A k \in 1..n : PagesOf(D[k]) = s[k]..LastOf(mem, s[k]) /\ D[k].type = mem[s[k]]
  <2> HIDE DEF S, s, n, D, at
  <2> QED BY <1>4, <1>6, <1>7
<1>13. \A k \in 1..n : \A p \in PagesOf(D[k]) : p \in DOMAIN mem /\ mem[p] = D[k].type
  <2> HIDE DEF S, s, n, D, at
  <2> QED BY <1>4, <1>8, <1>12
<1>14. \A p \in DOMAIN mem : \E k \in 1..n : p \in PagesOf(D[k])
  <2> SUFFICES ASSUME NEW p \in DOMAIN mem PROVE \E k \in 1..n : p \in PagesOf(D[k])
    BY Zenon
  <2>1. PICK r \in S : p \in r..LastOf(mem, r)
    BY <1>9, Zenon
  <2>2. PICK k \in 1..n : s[k] = r
    BY <1>2, Zenon DEF Lists
  <2> HIDE DEF S, s, n, D, at
  <2> QED BY <1>12, <2>1, <2>2
<1>15. \A i, j \in 1..n : \A p : p \in PagesOf(D[i]) /\ p \in PagesOf(D[j]) => i = j
  <2> SUFFICES ASSUME NEW i \in 1..n, NEW j \in 1..n, NEW p, p \in PagesOf(D[i]), p \in PagesOf(D[j])
               PROVE  i = j
    BY Zenon
  <2>1. s[i] = s[j]
    <3> HIDE DEF S, s, n, D, at
    <3> QED BY <1>4, <1>10, <1>12
  <2> QED BY <1>2, <2>1, Zenon DEF Lists
<1> HIDE DEF S, s, n, D, at
<1>16. MapOf(D, mem)
  BY <1>1, <1>6, <1>11, <1>13, <1>14, <1>15 DEF MapOf
<1> QED BY <1>6, <1>16 DEF D, S, n

\* A page that changes its type adds two descriptors at most.
LEMMA TwoMoreDescriptors ==
  ASSUME NEW mem, IsMemory(mem), NEW p \in DOMAIN mem, NEW type \in PageTypes
  PROVE  Len(Descriptors(Give(mem, {p}, type))) <= Len(Descriptors(mem)) + 2
<1> DEFINE new == Give(mem, {p}, type)
           S == Starts(mem)
           T == S \cup {p}
           U == T \cup {p + 1}
<1>1. /\ IsMemory(new) /\ DOMAIN new = DOMAIN mem
      /\ \A q \in DOMAIN mem : new[q] = IF q \in {p} THEN type ELSE mem[q]
  BY GiveMemory
<1>2. Starts(new) \in SUBSET U
  <2>1. DOMAIN mem \subseteq Nat
    BY MemoryPages
  <2> SUFFICES ASSUME NEW q \in Starts(new), q # p, q # p + 1 PROVE q \in S
    OBVIOUS
  <2>2. q \in DOMAIN mem /\ (q - 1 \notin DOMAIN mem \/ new[q - 1] # new[q])
    <3> HIDE DEF new
    <3> QED BY <1>1 DEF Starts
  <2>3. q - 1 # p
    BY <2>1, <2>2
  <2>4. new[q] = mem[q] /\ (q - 1 \in DOMAIN mem => new[q - 1] = mem[q - 1])
    <3> HIDE DEF new
    <3> QED BY <1>1, <2>2, <2>3
  <2> QED BY <2>2, <2>4 DEF Starts
<1>3. IsFiniteSet(S)
  <2>1. S \in SUBSET DOMAIN mem /\ IsFiniteSet(DOMAIN mem)
    BY MemoryPages DEF Starts
  <2> HIDE DEF S
  <2> QED BY <2>1, FS_Subset
<1>4. IsFiniteSet(T) /\ Cardinality(T) = IF p \in S THEN Cardinality(S) ELSE Cardinality(S) + 1
  <2> HIDE DEF S
  <2> QED BY <1>3, FS_AddElement
<1>5. IsFiniteSet(U) /\ Cardinality(U) = IF p + 1 \in T THEN Cardinality(T) ELSE Cardinality(T) + 1
  <2> HIDE DEF T
  <2> QED BY <1>4, FS_AddElement
<1>6. IsFiniteSet(Starts(new)) /\ Cardinality(Starts(new)) <= Cardinality(U)
  <2> HIDE DEF U, new
  <2> QED BY <1>2, <1>5, FS_Subset
<1>7. Cardinality(S) \in Nat /\ Cardinality(T) \in Nat /\ Cardinality(U) \in Nat /\ Cardinality(Starts(new)) \in Nat
  <2> HIDE DEF S, T, U, new
  <2> QED BY <1>3, <1>4, <1>5, <1>6, FS_CardinalityType
<1>8. Cardinality(Starts(new)) <= Cardinality(S) + 2
  <2> HIDE DEF S, T, U, new
  <2> QED BY <1>4, <1>5, <1>6, <1>7
<1>9. Len(Descriptors(new)) = Cardinality(Starts(new)) /\ Len(Descriptors(mem)) = Cardinality(S)
  <2> HIDE DEF new
  <2> QED BY <1>1, DescriptorsAre
<1> QED BY <1>8, <1>9, Zenon

-----------------------------------------------------------------------------
(* The machine's memory at first.                                          *)

RamRegion == [type : {"conventional", "loaderCode", "bootServices", "reserved"}, pages : Nat \ {0}]

\* f[k] is where region k of ram starts.
StartsOf(f, ram, n) ==
  /\ f[1] = n
  /\ \A k \in 1..Len(ram) : f[k + 1] = f[k] + ram[k].pages

\* ram is laid out along f.
LaidOut(f, ram, n) ==
  Layout(ram, n) = [p \in n..(f[Len(ram) + 1] - 1) |-> ram[CHOOSE k \in DOMAIN ram : p \in f[k]..(f[k + 1] - 1)].type]

\* Layout's recursive function exists and is defined by its equation.
LEMMA LayoutEquation ==
  ASSUME NEW n, NEW ram, Len(ram) \in Nat
  PROVE  \E f : StartsOf(f, ram, n) /\ LaidOut(f, ram, n)
<1> DEFINE Good(m, f) == f = [k \in 1..(m + 1) |-> IF k = 1 THEN n ELSE f[k - 1] + ram[k - 1].pages]
           N == {m \in Nat : \E f : Good(m, f)}
<1>1. 0 \in N
  <2> DEFINE f == [k \in 1..(0 + 1) |-> n]
  <2>1. \A k \in 1..(0 + 1) : k = 1
    OBVIOUS
  <2>2. Good(0, f)
    BY <2>1
  <2> QED
    BY <2>2
<1>2. ASSUME NEW m \in Nat, m \in N PROVE m + 1 \in N
  <2>1. PICK f : Good(m, f)
    BY <1>2
  <2> DEFINE g == [k \in 1..(m + 1 + 1) |-> IF k <= m + 1 THEN f[k] ELSE f[m + 1] + ram[m + 1].pages]
  <2>2. \A k \in 1..(m + 1) : f[k] = IF k = 1 THEN n ELSE f[k - 1] + ram[k - 1].pages
    BY <2>1
  <2>3. \A k \in 1..(m + 1 + 1) : k # 1 => k - 1 \in 1..(m + 1) /\ g[k - 1] = f[k - 1]
    OBVIOUS
  <2>4. \A k \in 1..(m + 1 + 1) : g[k] = IF k = 1 THEN n ELSE g[k - 1] + ram[k - 1].pages
    <3> TAKE k \in 1..(m + 1 + 1)
    <3>1. CASE k = 1
      BY <3>1, <2>2
    <3>2. CASE k # 1 /\ k <= m + 1
      BY <3>2, <2>2, <2>3
    <3>3. CASE k = m + 1 + 1
      <4>1. k - 1 = m + 1 /\ k # 1 /\ ~(k <= m + 1)
        BY <3>3
      <4>2. g[k] = f[m + 1] + ram[m + 1].pages
        BY <4>1
      <4> QED BY <4>1, <4>2, <2>3
    <3> QED
      BY <3>1, <3>2, <3>3
  <2>5. Good(m + 1, g)
    BY <2>4
  <2> HIDE DEF g, Good
  <2> QED
    BY <2>5
<1>3. PICK f : Good(Len(ram), f)
  <2>1. Len(ram) \in N
    <3> HIDE DEF N
    <3> QED
      BY <1>1, <1>2, SetInduction
  <2> HIDE DEF Good
  <2> QED
    BY <2>1
<1> DEFINE h == CHOOSE g : Good(Len(ram), g)
<1>4. Good(Len(ram), h)
  <2> HIDE DEF Good
  <2> QED
    BY <1>3, Zenon
<1>5. LaidOut(h, ram, n)
  BY Zenon DEF Layout, LaidOut
<1> HIDE DEF h
<1>6. \A k \in 1..(Len(ram) + 1) : h[k] = IF k = 1 THEN n ELSE h[k - 1] + ram[k - 1].pages
  BY <1>4
<1>7. h[1] = n
  BY <1>6
<1>8. \A k \in 1..Len(ram) : h[k + 1] = h[k] + ram[k].pages
  <2> TAKE k \in 1..Len(ram)
  <2>1. k + 1 \in 1..(Len(ram) + 1) /\ k + 1 # 1 /\ k + 1 - 1 = k
    OBVIOUS
  <2> QED BY <1>6, <2>1
<1>9. StartsOf(h, ram, n)
  BY <1>7, <1>8 DEF StartsOf
<1> QED BY <1>5, <1>9

\* A machine starts with memory.
LEMMA LayoutMemory ==
  ASSUME NEW m \in Machines
  PROVE  IsMemory(Layout(m.ram, m.base))
<1> DEFINE ram == m.ram
           n == m.base
           L == Len(ram)
<1>1. n \in Nat \ {0} /\ ram # <<>> /\ ram \in Seq(RamRegion)
  BY BootAssumption DEF RamRegion
<1> HIDE DEF ram, n
<1>2. L \in Nat \ {0} /\ DOMAIN ram = 1..L /\ \A k \in 1..L : ram[k] \in RamRegion
  BY <1>1
<1>3. \A k \in 1..L : ram[k].pages \in Nat \ {0} /\ ram[k].type \in PageTypes
  BY <1>2 DEF RamRegion, PageTypes
<1>4. PICK f : StartsOf(f, ram, n) /\ LaidOut(f, ram, n)
  BY <1>2, LayoutEquation
<1> HIDE DEF L
<1>5. f[1] = n /\ \A k \in 1..L : f[k + 1] = f[k] + ram[k].pages
  BY <1>4 DEF StartsOf, L
<1> DEFINE N == {k \in Nat : k + 1 \in 1..(L + 1) => f[k + 1] \in Nat /\ f[k + 1] >= n + k}
<1>6. Nat \subseteq N
  <2>1. 0 \in N
    BY <1>1, <1>5
  <2>2. ASSUME NEW k \in Nat, k \in N PROVE k + 1 \in N
    <3> SUFFICES ASSUME k + 1 + 1 \in 1..(L + 1) PROVE f[k + 1 + 1] \in Nat /\ f[k + 1 + 1] >= n + (k + 1)
      OBVIOUS
    <3>1. k + 1 \in 1..L /\ k + 1 \in 1..(L + 1)
      BY <1>2
    <3>2. f[k + 1] \in Nat /\ f[k + 1] >= n + k
      BY <2>2, <3>1
    <3>3. f[k + 1 + 1] = f[k + 1] + ram[k + 1].pages /\ ram[k + 1].pages \in Nat \ {0}
      BY <1>3, <1>5, <3>1
    <3> QED BY <1>1, <3>2, <3>3
  <2> HIDE DEF N
  <2> QED BY <2>1, <2>2, SetInduction
<1>7. \A k \in 1..(L + 1) : f[k] \in Nat
  <2> TAKE k \in 1..(L + 1)
  <2>1. k - 1 \in N /\ k - 1 + 1 = k
    BY <1>2, <1>6
  <2> QED BY <2>1
<1>8. f[L + 1] >= n + 1
  <2>1. L \in N /\ L + 1 \in 1..(L + 1)
    BY <1>2, <1>6
  <2>2. f[L + 1] \in Nat /\ f[L + 1] >= n + L
    BY <2>1
  <2> QED BY <1>1, <1>2, <2>2
<1> DEFINE b == f[L + 1] - 1
           R(p) == CHOOSE k \in DOMAIN ram : p \in f[k]..(f[k + 1] - 1)
<1>9. b \in Nat /\ n <= b
  <2>1. f[L + 1] \in Nat
    BY <1>2, <1>7
  <2> QED BY <1>1, <1>8, <2>1
<1>10. ASSUME NEW p \in n..b PROVE R(p) \in DOMAIN ram
  <2> DEFINE A == {k \in Nat : k + 1 \in 1..(L + 1) /\ f[k + 1] > p}
  <2>1. L \in A
    BY <1>2, <1>7, <1>9, <1>10
  <2>2. PICK k \in A : \A j \in A : k <= j
    <3>1. A \subseteq Nat
      OBVIOUS
    <3> HIDE DEF A
    <3> QED BY <2>1, <3>1, LeastNatural
  <2>3. k # 0
    BY <1>1, <1>5, <1>10, <2>2
  <2>4. k - 1 \notin A
    BY <2>2
  <2>5. k \in 1..L /\ k - 1 + 1 = k /\ k \in 1..(L + 1) /\ k + 1 \in 1..(L + 1)
    BY <1>2, <2>2, <2>3
  <2>6. f[k] \in Nat /\ f[k + 1] \in Nat /\ f[k] <= p /\ f[k + 1] > p
    BY <1>7, <2>2, <2>4, <2>5, <1>10
  <2>7. p \in f[k]..(f[k + 1] - 1) /\ k \in DOMAIN ram
    BY <1>1, <1>2, <1>10, <2>5, <2>6
  <2> QED BY <2>7, Zenon
<1> HIDE DEF R
<1>11. Layout(ram, n) = [p \in n..b |-> ram[R(p)].type]
  BY <1>4, Zenon DEF R, L, LaidOut
<1> HIDE DEF b
<1>12. \A p \in n..b : ram[R(p)].type \in PageTypes
  BY <1>2, <1>3, <1>10
<1>13. Layout(ram, n) \in [n..b -> PageTypes]
  BY <1>11, <1>12
<1>14. IsMemory(Layout(ram, n))
  BY <1>1, <1>9, <1>13 DEF IsMemory
<1> QED BY <1>14 DEF ram, n

-----------------------------------------------------------------------------
(* mmap_reserve_memory.                                                    *)

\* f[k] are the regions after k descriptors.
ReservedUpTo(f, map) ==
  /\ f[0] = [kmap |-> 0, tables |-> 0]
  /\ \A k \in 1..Len(map) : f[k] = Reserve(f[k - 1], map[k])

LEMMA ReserveEquation ==
  ASSUME NEW map, Len(map) \in Nat
  PROVE  \E f : ReservedUpTo(f, map) /\ mmap_reserve_memory(map) = f[Len(map)]
<1> DEFINE c == [kmap |-> 0, tables |-> 0]
           X(u, i) == Reserve(u, map[i])
           Good(k, f) == f = [i \in 0..k |-> IF i = 0 THEN c ELSE X(f[i - 1], i)]
           N == {k \in Nat : \E f : Good(k, f)}
           h == CHOOSE f : Good(Len(map), f)
<1>1. mmap_reserve_memory(map) = h[Len(map)]
  BY Zenon DEF mmap_reserve_memory
<1> HIDE DEF c, X
<1>2. 0 \in N
  <2> DEFINE f == [i \in 0..0 |-> c]
  <2>1. \A i \in 0..0 : i = 0
    OBVIOUS
  <2>2. Good(0, f)
    BY <2>1
  <2> QED
    BY <2>2
<1>3. ASSUME NEW k \in Nat, k \in N PROVE k + 1 \in N
  <2>1. PICK f : Good(k, f)
    BY <1>3
  <2> DEFINE g == [i \in 0..(k + 1) |-> IF i <= k THEN f[i] ELSE X(f[k], i)]
  <2>2. \A i \in 0..k : f[i] = IF i = 0 THEN c ELSE X(f[i - 1], i)
    BY <2>1
  <2>3. \A i \in 0..(k + 1) : i # 0 => i - 1 \in 0..k /\ g[i - 1] = f[i - 1]
    OBVIOUS
  <2>4. \A i \in 0..(k + 1) : g[i] = IF i = 0 THEN c ELSE X(g[i - 1], i)
    <3> TAKE i \in 0..(k + 1)
    <3>1. CASE i = 0
      BY <3>1, <2>2
    <3>2. CASE i # 0 /\ i <= k
      BY <3>2, <2>2, <2>3
    <3>3. CASE i = k + 1
      BY <3>3, <2>3
    <3> QED
      BY <3>1, <3>2, <3>3
  <2>5. Good(k + 1, g)
    BY <2>4
  <2> HIDE DEF g, Good
  <2> QED
    BY <2>5
<1>4. PICK f : Good(Len(map), f)
  <2>1. Len(map) \in N
    <3> HIDE DEF N
    <3> QED
      BY <1>2, <1>3, SetInduction
  <2> HIDE DEF Good
  <2> QED
    BY <2>1
<1>5. Good(Len(map), h)
  <2> HIDE DEF Good
  <2> QED
    BY <1>4, Zenon
<1> HIDE DEF h
<1>6. h[0] = c /\ \A i \in 1..Len(map) : h[i] = X(h[i - 1], i)
  BY <1>5
<1>7. ReservedUpTo(h, map)
  BY <1>6 DEF ReservedUpTo, c, X
<1> QED BY <1>1, <1>7

\* The descriptors the regions of r were found in, among the first k.
KmapFound(r, map, k) ==
  r.kmap # 0 => \E j \in 1..k : efi_memory_map_is_usable(map[j]) /\ map[j].pages >= KmapPages /\ r.kmap = map[j].start
TablesIn(r, d) ==
  LET before == IF r.kmap = d.start THEN KmapPages ELSE 0
  IN  efi_memory_map_is_usable(d) /\ r.tables = d.start + before /\ d.pages >= TablePages + before
TablesFound(r, map, k) == r.tables # 0 => \E j \in 1..k : TablesIn(r, map[j])

\* Different descriptors start at different pages.
LEMMA StartsDiffer ==
  ASSUME NEW map, NEW mem, MapOf(map, mem), NEW i \in DOMAIN map, NEW j \in DOMAIN map, map[i].start = map[j].start
  PROVE  i = j
<1>1. \A k \in DOMAIN map : map[k].start \in Nat /\ map[k].pages \in Nat \ {0}
  BY DEF MapOf
<1>2. \A k \in DOMAIN map : map[k].start \in PagesOf(map[k])
  BY <1>1 DEF PagesOf
<1>3. \A p : p \in PagesOf(map[i]) /\ p \in PagesOf(map[j]) => i = j
  BY Zenon DEF MapOf
<1> QED BY <1>2, <1>3

LEMMA ReserveStep ==
  ASSUME NEW map, NEW mem, MapOf(map, mem), NEW k \in DOMAIN map, NEW r,
         KmapFound(r, map, k - 1), TablesFound(r, map, k - 1)
  PROVE  KmapFound(Reserve(r, map[k]), map, k) /\ TablesFound(Reserve(r, map[k]), map, k)
<1> DEFINE d == map[k]
           new == Reserve(r, d)
           kmapHere == r.kmap = 0 /\ d.pages >= KmapPages
           taken_ == IF kmapHere THEN KmapPages ELSE 0
           tablesHere == r.tables = 0 /\ d.pages - taken_ >= TablePages
<1>0. KmapPages \in Nat \ {0} /\ TablePages \in Nat \ {0}
  BY MmapAssumption
<1>1. k \in Nat \ {0} /\ k \in 1..k /\ \A j \in 1..(k - 1) : j \in 1..k /\ j \in DOMAIN map /\ j # k
  BY DEF MapOf
<1>2. d.start \in Nat \ {0} /\ d.pages \in Nat /\ \A j \in DOMAIN map : map[j].start \in Nat \ {0} /\ map[j].pages \in Nat
  BY DEF MapOf
<1>3. \A j \in 1..(k - 1) : map[j].start # d.start
  BY <1>1, StartsDiffer
<1>4. CASE ~efi_memory_map_is_usable(d)
  <2>1. new = r
    BY <1>4 DEF Reserve
  <2> HIDE DEF new
  <2>2. KmapFound(new, map, k) /\ TablesFound(new, map, k)
    BY <1>1, <2>1 DEF KmapFound, TablesFound
  <2> QED BY <2>2 DEF new
<1>5. CASE efi_memory_map_is_usable(d)
  <2>1. /\ new.kmap = IF kmapHere THEN d.start ELSE r.kmap
        /\ new.tables = IF tablesHere THEN d.start + taken_ ELSE r.tables
    BY <1>5 DEF Reserve
  <2> HIDE DEF new
  <2>2. KmapFound(new, map, k)
    <3>1. CASE kmapHere
      BY <1>1, <1>5, <2>1, <3>1 DEF KmapFound
    <3>2. CASE ~kmapHere
      BY <1>1, <2>1, <3>2 DEF KmapFound
    <3> QED BY <3>1, <3>2
  <2>3. r.kmap # d.start /\ \A j \in 1..(k - 1) : (new.kmap = map[j].start) <=> (r.kmap = map[j].start)
    <3>1. r.kmap # d.start
      BY <1>2, <1>3 DEF KmapFound
    <3>2. ASSUME NEW j \in 1..(k - 1) PROVE (new.kmap = map[j].start) <=> (r.kmap = map[j].start)
      <4>1. map[j].start # d.start /\ map[j].start # 0
        BY <1>1, <1>2, <1>3
      <4> QED BY <2>1, <4>1
    <3> QED BY <3>1, <3>2
  <2>4. TablesFound(new, map, k)
    <3>1. CASE tablesHere
      <4>1. TablesIn(new, d)
        <5>1. (new.kmap = d.start) <=> kmapHere
          BY <2>1, <2>3
        <5>2. new.tables = d.start + taken_ /\ d.pages >= TablePages + taken_
          <6>1. d.pages - taken_ >= TablePages /\ taken_ \in Nat
            BY <1>0, <3>1
          <6>2. d.pages >= TablePages + taken_
            <7> HIDE DEF taken_
            <7> QED BY <1>0, <1>2, <6>1
          <6> QED BY <2>1, <3>1, <6>2
        <5> QED BY <1>5, <5>1, <5>2 DEF TablesIn
      <4> HIDE DEF d
      <4> QED BY <1>1, <4>1 DEF TablesFound, d
    <3>2. CASE ~tablesHere
      <4>1. new.tables = r.tables
        BY <2>1, <3>2
      <4>2. \A j \in 1..(k - 1) : TablesIn(r, map[j]) => TablesIn(new, map[j])
        BY <2>3, <4>1 DEF TablesIn
      <4> HIDE DEF d
      <4> QED BY <1>1, <4>1, <4>2 DEF TablesFound
    <3> QED BY <3>1, <3>2
  <2> QED BY <2>2, <2>4 DEF new
<1> QED BY <1>4, <1>5

\* Where the regions lie.
RegionsOK(r, map) ==
  /\ \E a \in DOMAIN map : efi_memory_map_is_usable(map[a]) /\ map[a].pages >= KmapPages /\ r.kmap = map[a].start
  /\ \E b \in DOMAIN map : TablesIn(r, map[b])

LEMMA ReserveFinds ==
  ASSUME NEW map, NEW mem, MapOf(map, mem),
         mmap_reserve_memory(map).kmap # 0, mmap_reserve_memory(map).tables # 0
  PROVE  RegionsOK(mmap_reserve_memory(map), map)
<1> DEFINE n == Len(map)
<1>1. n \in Nat /\ DOMAIN map = 1..n
  BY DEF MapOf
<1>2. PICK f : ReservedUpTo(f, map) /\ mmap_reserve_memory(map) = f[n]
  BY <1>1, ReserveEquation
<1>3. f[0] = [kmap |-> 0, tables |-> 0] /\ \A k \in 1..n : f[k] = Reserve(f[k - 1], map[k])
  BY <1>2, Zenon DEF ReservedUpTo
<1> HIDE DEF n
<1> DEFINE N == {k \in Nat : k <= n => KmapFound(f[k], map, k) /\ TablesFound(f[k], map, k)}
<1>4. 0 \in N
  BY <1>3 DEF KmapFound, TablesFound
<1>5. ASSUME NEW k \in Nat, k \in N PROVE k + 1 \in N
  <2> SUFFICES ASSUME k + 1 <= n
               PROVE  KmapFound(f[k + 1], map, k + 1) /\ TablesFound(f[k + 1], map, k + 1)
    OBVIOUS
  <2>1. k + 1 \in DOMAIN map /\ k + 1 - 1 = k /\ k <= n
    BY <1>1
  <2>2. KmapFound(f[k], map, k) /\ TablesFound(f[k], map, k)
    BY <1>5, <2>1
  <2>3. KmapFound(f[k], map, (k + 1) - 1) /\ TablesFound(f[k], map, (k + 1) - 1)
    BY <2>1, <2>2
  <2>4. KmapFound(Reserve(f[k], map[k + 1]), map, k + 1) /\ TablesFound(Reserve(f[k], map[k + 1]), map, k + 1)
    BY <2>1, <2>3, ReserveStep
  <2>5. f[k + 1] = Reserve(f[k], map[k + 1])
    BY <1>1, <1>3, <2>1
  <2> QED BY <2>4, <2>5, Zenon
<1>6. n \in N
  <2> HIDE DEF N
  <2> QED BY <1>1, <1>4, <1>5, SetInduction
<1>7. KmapFound(f[n], map, n) /\ TablesFound(f[n], map, n)
  BY <1>1, <1>6
<1> QED BY <1>1, <1>2, <1>7 DEF RegionsOK, KmapFound, TablesFound

-----------------------------------------------------------------------------
(* mmap_build_memory_map.                                                  *)

MapEntries == [start : Nat, pages : Nat, usable : BOOLEAN]
Kept(r) == KmapRegion(r) \cup TableRegion(r)

\* The entries E say of every page of d exactly once whether it can be used.
Divides(E, d, r) ==
  /\ E \in Seq(MapEntries)
  /\ \A i \in 1..Len(E) : \A p \in PagesOf(E[i]) :
       p \in PagesOf(d) /\ (E[i].usable <=> efi_memory_map_is_usable(d) /\ p \notin Kept(r))
  /\ \A p \in PagesOf(d) : \E i \in 1..Len(E) : p \in PagesOf(E[i])
  /\ \A i, j \in 1..Len(E) : \A p : p \in PagesOf(E[i]) /\ p \in PagesOf(E[j]) => i = j

LEMMA DividedByOne ==
  ASSUME NEW d, NEW r, d.start \in Nat, d.pages \in Nat, NEW u \in BOOLEAN,
         \A p \in PagesOf(d) : u <=> efi_memory_map_is_usable(d) /\ p \notin Kept(r)
  PROVE  Divides(<<MapEntry(d.start, d.pages, u)>>, d, r)
<1> DEFINE e == MapEntry(d.start, d.pages, u)
<1>1. e \in MapEntries /\ PagesOf(e) = PagesOf(d) /\ e.usable = u
  BY DEF MapEntry, MapEntries, PagesOf
<1> HIDE DEF e
<1>2. <<e>> \in Seq(MapEntries) /\ Len(<<e>>) = 1 /\ <<e>>[1] = e /\ 1..1 = {1}
  BY <1>1
<1>3. Divides(<<e>>, d, r)
  BY <1>1, <1>2 DEF Divides
<1> QED BY <1>3 DEF e

LEMMA DividedByTwo ==
  ASSUME NEW d, NEW r, d.start \in Nat, d.pages \in Nat, efi_memory_map_is_usable(d),
         NEW x \in Nat, x <= d.pages,
         \A p \in PagesOf(d) : p \in Kept(r) <=> p < d.start + x
  PROVE  Divides(<<MapEntry(d.start, x, FALSE), MapEntry(d.start + x, d.pages - x, TRUE)>>, d, r)
<1> DEFINE e == MapEntry(d.start, x, FALSE)
           f == MapEntry(d.start + x, d.pages - x, TRUE)
<1>1. d.pages - x \in Nat /\ d.start + x \in Nat
  OBVIOUS
<1>2. e \in MapEntries /\ f \in MapEntries /\ e.usable = FALSE /\ f.usable = TRUE
  BY <1>1 DEF MapEntry, MapEntries
<1>3. \A p : /\ p \in PagesOf(e) <=> p \in PagesOf(d) /\ p < d.start + x
             /\ p \in PagesOf(f) <=> p \in PagesOf(d) /\ ~(p < d.start + x)
  BY <1>1 DEF MapEntry, PagesOf
<1> HIDE DEF e, f
<1>4. <<e, f>> \in Seq(MapEntries) /\ Len(<<e, f>>) = 2 /\ <<e, f>>[1] = e /\ <<e, f>>[2] = f /\ 1..2 = {1, 2}
  BY <1>2
<1>5. Divides(<<e, f>>, d, r)
  <2>1. \A i \in {1, 2} : \A p \in PagesOf(<<e, f>>[i]) :
          p \in PagesOf(d) /\ (<<e, f>>[i].usable <=> efi_memory_map_is_usable(d) /\ p \notin Kept(r))
    BY <1>2, <1>3, <1>4
  <2>2. \A p \in PagesOf(d) : \E i \in {1, 2} : p \in PagesOf(<<e, f>>[i])
    BY <1>3, <1>4
  <2>3. \A i, j \in {1, 2} : \A p : p \in PagesOf(<<e, f>>[i]) /\ p \in PagesOf(<<e, f>>[j]) => i = j
    BY <1>3, <1>4
  <2> QED BY <1>4, <2>1, <2>2, <2>3 DEF Divides
<1> QED BY <1>5 DEF e, f

LEMMA DividedByThree ==
  ASSUME NEW d, NEW r, d.start \in Nat, d.pages \in Nat, efi_memory_map_is_usable(d),
         NEW x \in Nat, NEW y \in Nat, x + y <= d.pages,
         \A p \in PagesOf(d) : p \in Kept(r) <=> p < d.start + x + y
  PROVE  Divides(<<MapEntry(d.start, x, FALSE), MapEntry(d.start + x, y, FALSE),
                   MapEntry(d.start + (x + y), d.pages - (x + y), TRUE)>>, d, r)
<1> DEFINE e == MapEntry(d.start, x, FALSE)
           f == MapEntry(d.start + x, y, FALSE)
           g == MapEntry(d.start + (x + y), d.pages - (x + y), TRUE)
<1>1. d.pages - (x + y) \in Nat /\ d.start + x \in Nat /\ d.start + (x + y) \in Nat
  OBVIOUS
<1>2. e \in MapEntries /\ f \in MapEntries /\ g \in MapEntries /\ e.usable = FALSE /\ f.usable = FALSE /\ g.usable = TRUE
  BY <1>1 DEF MapEntry, MapEntries
<1>3. \A p : /\ p \in PagesOf(e) <=> p \in PagesOf(d) /\ p < d.start + x
             /\ p \in PagesOf(f) <=> p \in PagesOf(d) /\ ~(p < d.start + x) /\ p < d.start + x + y
             /\ p \in PagesOf(g) <=> p \in PagesOf(d) /\ ~(p < d.start + x + y)
  BY <1>1 DEF MapEntry, PagesOf
<1>4. \A p \in PagesOf(d) : p < d.start + x => p < d.start + x + y
  BY DEF PagesOf
<1> HIDE DEF e, f, g
<1>5. /\ <<e, f, g>> \in Seq(MapEntries) /\ Len(<<e, f, g>>) = 3 /\ 1..3 = {1, 2, 3}
      /\ <<e, f, g>>[1] = e /\ <<e, f, g>>[2] = f /\ <<e, f, g>>[3] = g
  BY <1>2
<1>6. Divides(<<e, f, g>>, d, r)
  <2>1. \A i \in {1, 2, 3} : \A p \in PagesOf(<<e, f, g>>[i]) :
          p \in PagesOf(d) /\ (<<e, f, g>>[i].usable <=> efi_memory_map_is_usable(d) /\ p \notin Kept(r))
    BY <1>2, <1>3, <1>4, <1>5
  <2>2. \A p \in PagesOf(d) : \E i \in {1, 2, 3} : p \in PagesOf(<<e, f, g>>[i])
    BY <1>3, <1>4, <1>5
  <2>3. \A i, j \in {1, 2, 3} : \A p : p \in PagesOf(<<e, f, g>>[i]) /\ p \in PagesOf(<<e, f, g>>[j]) => i = j
    BY <1>3, <1>4, <1>5
  <2> QED BY <1>5, <2>1, <2>2, <2>3 DEF Divides
<1> QED BY <1>6 DEF e, f, g

\* The regions are those pages of the descriptors they were found in.
LEMMA RegionPages ==
  ASSUME NEW map, NEW mem, MapOf(map, mem), NEW r,
         NEW a \in DOMAIN map, map[a].pages >= KmapPages, r.kmap = map[a].start,
         NEW b \in DOMAIN map, TablesIn(r, map[b])
  PROVE  /\ KmapRegion(r) = map[a].start..(map[a].start + KmapPages - 1)
         /\ TableRegion(r) = r.tables..(r.tables + TablePages - 1)
         /\ r.tables \in Nat
         /\ \A k \in DOMAIN map : (KmapRegion(r) \subseteq PagesOf(map[k])) <=> k = a
         /\ \A k \in DOMAIN map : (TableRegion(r) \subseteq PagesOf(map[k])) <=> k = b
         /\ \A k \in DOMAIN map : \A p \in PagesOf(map[k]) :
              (p \in KmapRegion(r) => k = a) /\ (p \in TableRegion(r) => k = b)
         /\ r.tables = map[b].start + (IF a = b THEN KmapPages ELSE 0)
         /\ map[b].pages >= TablePages + (IF a = b THEN KmapPages ELSE 0)
<1>0. KmapPages \in Nat \ {0} /\ TablePages \in Nat \ {0}
  BY MmapAssumption
<1>1. \A k \in DOMAIN map : map[k].start \in Nat \ {0} /\ map[k].pages \in Nat \ {0}
  BY DEF MapOf
<1>2. (r.kmap = map[b].start) <=> a = b
  BY StartsDiffer
<1>3. /\ r.tables = map[b].start + (IF a = b THEN KmapPages ELSE 0)
      /\ map[b].pages >= TablePages + (IF a = b THEN KmapPages ELSE 0)
  BY <1>2 DEF TablesIn
<1>4. r.tables \in Nat \ {0}
  BY <1>0, <1>1, <1>3
<1>5. KmapRegion(r) = map[a].start..(map[a].start + KmapPages - 1)
  BY <1>1 DEF KmapRegion, Region
<1>6. TableRegion(r) = r.tables..(r.tables + TablePages - 1)
  BY <1>4 DEF TableRegion, Region
<1>7. map[a].start \in KmapRegion(r) /\ r.tables \in TableRegion(r)
  BY <1>0, <1>1, <1>4, <1>5, <1>6
<1>8. KmapRegion(r) \subseteq PagesOf(map[a])
  BY <1>0, <1>1, <1>5 DEF PagesOf
<1>9. TableRegion(r) \subseteq PagesOf(map[b])
  BY <1>0, <1>1, <1>3, <1>4, <1>6 DEF PagesOf
<1>10. \A i, j \in DOMAIN map : \A p : p \in PagesOf(map[i]) /\ p \in PagesOf(map[j]) => i = j
  BY Zenon DEF MapOf
<1>11. \A k \in DOMAIN map : \A p \in PagesOf(map[k]) :
              (p \in KmapRegion(r) => k = a) /\ (p \in TableRegion(r) => k = b)
  BY <1>8, <1>9, <1>10
<1>12. \A k \in DOMAIN map : (KmapRegion(r) \subseteq PagesOf(map[k])) <=> k = a
  BY <1>7, <1>8, <1>11
<1>13. \A k \in DOMAIN map : (TableRegion(r) \subseteq PagesOf(map[k])) <=> k = b
  BY <1>7, <1>9, <1>11
<1> QED BY <1>3, <1>4, <1>5, <1>6, <1>11, <1>12, <1>13

\* The entries put together.
LEMMA ConcatEntries ==
  ASSUME NEW e, NEW f, NEW g
  PROVE  /\ <<e>> \o <<>> \o <<f>> = <<e, f>>
         /\ <<>> \o <<e>> \o <<f>> = <<e, f>>
         /\ <<e>> \o <<f>> \o <<g>> = <<e, f, g>>
<1> DEFINE S == {e, f, g}
<1>0. e \in S /\ f \in S /\ g \in S
  OBVIOUS
<1> HIDE DEF S
<1>1. /\ <<>> \in Seq(S) /\ <<e>> \in Seq(S) /\ <<f>> \in Seq(S) /\ <<g>> \in Seq(S)
      /\ <<e, f>> \in Seq(S) /\ <<e, f, g>> \in Seq(S)
  BY <1>0
<1>2. <<e>> \o <<>> = <<e>> /\ <<>> \o <<e>> = <<e>>
  BY <1>1
<1>3. <<e>> \o <<f>> = <<e, f>>
  <2> DEFINE s == <<e>> \o <<f>>
             t == <<e, f>>
  <2>1. s \in Seq(S) /\ Len(s) = 2 /\ s[1] = e /\ s[2] = f
    BY <1>1
  <2>2. t \in Seq(S) /\ Len(t) = 2 /\ t[1] = e /\ t[2] = f
    BY <1>1
  <2> HIDE DEF s, t
  <2>3. \A i \in 1..Len(s) : s[i] = t[i]
    BY <2>1, <2>2
  <2>4. s = t
    BY <2>1, <2>2, <2>3, SeqEqual
  <2> QED BY <2>4 DEF s, t
<1>4. <<e, f>> \o <<g>> = <<e, f, g>>
  <2> DEFINE s == <<e, f>> \o <<g>>
             t == <<e, f, g>>
  <2>1. s \in Seq(S) /\ Len(s) = 3 /\ s[1] = e /\ s[2] = f /\ s[3] = g
    BY <1>1
  <2>2. t \in Seq(S) /\ Len(t) = 3 /\ t[1] = e /\ t[2] = f /\ t[3] = g
    BY <1>1
  <2> HIDE DEF s, t
  <2>3. \A i \in 1..Len(s) : s[i] = t[i]
    BY <2>1, <2>2
  <2>4. s = t
    BY <2>1, <2>2, <2>3, SeqEqual
  <2> QED BY <2>4 DEF s, t
<1> QED BY <1>2, <1>3, <1>4, Zenon

\* The entries for one descriptor divide it.
LEMMA EntriesDivide ==
  ASSUME NEW map, NEW mem, MapOf(map, mem), NEW r, RegionsOK(r, map), NEW k \in DOMAIN map
  PROVE  Divides(EntriesOf(r, map[k]), map[k], r)
<1> DEFINE d == map[k]
<1>0. KmapPages \in Nat \ {0} /\ TablePages \in Nat \ {0}
  BY MmapAssumption
<1>0a. KmapPages \in Nat /\ TablePages \in Nat
  BY <1>0
<1>1. PICK a \in DOMAIN map : efi_memory_map_is_usable(map[a]) /\ map[a].pages >= KmapPages /\ r.kmap = map[a].start
  BY DEF RegionsOK
<1>2. PICK b \in DOMAIN map : TablesIn(r, map[b])
  BY DEF RegionsOK
<1>3. /\ KmapRegion(r) = map[a].start..(map[a].start + KmapPages - 1)
      /\ TableRegion(r) = r.tables..(r.tables + TablePages - 1)
      /\ r.tables \in Nat
      /\ (KmapRegion(r) \subseteq PagesOf(d)) <=> k = a
      /\ (TableRegion(r) \subseteq PagesOf(d)) <=> k = b
      /\ \A p \in PagesOf(d) : (p \in KmapRegion(r) => k = a) /\ (p \in TableRegion(r) => k = b)
      /\ r.tables = map[b].start + (IF a = b THEN KmapPages ELSE 0)
      /\ map[b].pages >= TablePages + (IF a = b THEN KmapPages ELSE 0)
  BY <1>1, <1>2, RegionPages
<1>4. d.start \in Nat /\ d.pages \in Nat
  BY DEF MapOf
<1>5. \A p : p \in PagesOf(d) <=> p \in Int /\ d.start <= p /\ p <= d.start + d.pages - 1
  BY <1>4 DEF PagesOf
<1>6. \A p : p \in Kept(r) <=> p \in KmapRegion(r) \/ p \in TableRegion(r)
  BY DEF Kept
<1> DEFINE unusable == <<MapEntry(d.start, d.pages, FALSE)>>
           withKmap == KmapRegion(r) \subseteq PagesOf(d)
           withTables == TableRegion(r) \subseteq PagesOf(d)
           first == IF withKmap THEN <<MapEntry(r.kmap, KmapPages, FALSE)>> ELSE <<>>
           second == IF withTables THEN <<MapEntry(r.tables, TablePages, FALSE)>> ELSE <<>>
           x == IF withKmap THEN KmapPages ELSE 0
           y == IF withTables THEN TablePages ELSE 0
           third == MapEntry(d.start + (x + y), d.pages - (x + y), TRUE)
<1>7. EntriesOf(r, d) = IF ~efi_memory_map_is_usable(d) THEN unusable ELSE first \o second \o <<third>>
  BY Zenon DEF EntriesOf
<1>8. CASE ~efi_memory_map_is_usable(d)
  <2>1. Divides(unusable, d, r)
    <3>1. \A p \in PagesOf(d) : FALSE <=> efi_memory_map_is_usable(d) /\ p \notin Kept(r)
      BY <1>8
    <3> HIDE DEF d
    <3> QED BY <1>4, <3>1, DividedByOne
  <2> QED BY <1>7, <1>8, <2>1, Zenon
<1>9. CASE efi_memory_map_is_usable(d)
  <2>0. EntriesOf(r, d) = first \o second \o <<third>>
    BY <1>7, <1>9, Zenon
  <2>1. CASE k # a /\ k # b
    <3>1. first = <<>> /\ second = <<>> /\ x = 0 /\ y = 0
      BY <1>3, <2>1
    <3>2. third = MapEntry(d.start, d.pages, TRUE)
      <4>1. d.start + (x + y) = d.start /\ d.pages - (x + y) = d.pages
        <5> HIDE DEF x, y
        <5> QED BY <1>4, <3>1
      <4> QED BY <4>1, Zenon
    <3>3. EntriesOf(r, d) = <<MapEntry(d.start, d.pages, TRUE)>>
      <4> HIDE DEF first, second, third, d
      <4> QED BY <2>0, <3>1, <3>2
    <3>4. \A p \in PagesOf(d) : TRUE <=> efi_memory_map_is_usable(d) /\ p \notin Kept(r)
      BY <1>3, <1>6, <1>9, <2>1
    <3>5. Divides(<<MapEntry(d.start, d.pages, TRUE)>>, d, r)
      <4> HIDE DEF d
      <4> QED BY <1>4, <3>4, DividedByOne
    <3> QED BY <3>3, <3>5, Zenon
  <2>2. CASE k = a /\ k # b
    <3>1. first = <<MapEntry(d.start, KmapPages, FALSE)>> /\ second = <<>> /\ x = KmapPages /\ y = 0
      BY <1>1, <1>3, <2>2
    <3>2. third = MapEntry(d.start + KmapPages, d.pages - KmapPages, TRUE)
      <4>1. x + y = KmapPages
        <5> HIDE DEF x, y
        <5> QED BY <1>0, <3>1
      <4> QED BY <4>1, Zenon
    <3>3. EntriesOf(r, d) = <<MapEntry(d.start, KmapPages, FALSE), MapEntry(d.start + KmapPages, d.pages - KmapPages, TRUE)>>
      <4> HIDE DEF first, second, third, d
      <4> QED BY <2>0, <3>1, <3>2, ConcatEntries, Zenon
    <3>4. \A p \in PagesOf(d) : p \in Kept(r) <=> p < d.start + KmapPages
      <4> TAKE p \in PagesOf(d)
      <4>1. p \notin TableRegion(r)
        BY <1>3, <2>2
      <4>2. p \in KmapRegion(r) <=> p < d.start + KmapPages
        BY <1>0, <1>3, <1>4, <1>5, <2>2
      <4> QED BY <1>6, <4>1, <4>2
    <3>5. KmapPages <= d.pages
      BY <1>0, <1>1, <1>4, <2>2
    <3>6. Divides(<<MapEntry(d.start, KmapPages, FALSE), MapEntry(d.start + KmapPages, d.pages - KmapPages, TRUE)>>, d, r)
      <4> HIDE DEF d
      <4> QED BY <1>0a, <1>4, <1>9, <3>4, <3>5, DividedByTwo, Zenon
    <3> QED BY <3>3, <3>6, Zenon
  <2>3. CASE k # a /\ k = b
    <3>1. first = <<>> /\ second = <<MapEntry(d.start, TablePages, FALSE)>> /\ x = 0 /\ y = TablePages /\ r.tables = d.start
      <4>1. r.tables = d.start
        BY <1>3, <1>4, <2>3
      <4> QED BY <1>3, <2>3, <4>1
    <3>2. third = MapEntry(d.start + TablePages, d.pages - TablePages, TRUE)
      <4>1. x + y = TablePages
        <5> HIDE DEF x, y
        <5> QED BY <1>0, <3>1
      <4> QED BY <4>1, Zenon
    <3>3. EntriesOf(r, d) = <<MapEntry(d.start, TablePages, FALSE), MapEntry(d.start + TablePages, d.pages - TablePages, TRUE)>>
      <4> HIDE DEF first, second, third, d
      <4> QED BY <2>0, <3>1, <3>2, ConcatEntries, Zenon
    <3>4. \A p \in PagesOf(d) : p \in Kept(r) <=> p < d.start + TablePages
      <4> TAKE p \in PagesOf(d)
      <4>1. p \notin KmapRegion(r)
        BY <1>3, <2>3
      <4>2. p \in TableRegion(r) <=> p < d.start + TablePages
        BY <1>0, <1>3, <1>4, <1>5, <3>1
      <4> QED BY <1>6, <4>1, <4>2
    <3>5. TablePages <= d.pages
      BY <1>0, <1>3, <1>4, <2>3
    <3>6. Divides(<<MapEntry(d.start, TablePages, FALSE), MapEntry(d.start + TablePages, d.pages - TablePages, TRUE)>>, d, r)
      <4> HIDE DEF d
      <4> QED BY <1>0a, <1>4, <1>9, <3>4, <3>5, DividedByTwo, Zenon
    <3> QED BY <3>3, <3>6, Zenon
  <2>4. CASE k = a /\ k = b
    <3>1. r.tables = d.start + KmapPages /\ d.pages >= TablePages + KmapPages
      BY <1>3, <2>4
    <3>2. first = <<MapEntry(d.start, KmapPages, FALSE)>> /\ second = <<MapEntry(d.start + KmapPages, TablePages, FALSE)>>
      BY <1>1, <1>3, <2>4, <3>1
    <3>3. third = MapEntry(d.start + (KmapPages + TablePages), d.pages - (KmapPages + TablePages), TRUE)
      BY <1>3, <2>4
    <3>4. EntriesOf(r, d) = <<MapEntry(d.start, KmapPages, FALSE), MapEntry(d.start + KmapPages, TablePages, FALSE),
                              MapEntry(d.start + (KmapPages + TablePages), d.pages - (KmapPages + TablePages), TRUE)>>
      <4> HIDE DEF first, second, third, d
      <4> QED BY <2>0, <3>2, <3>3, ConcatEntries, Zenon
    <3>5. \A p \in PagesOf(d) : p \in Kept(r) <=> p < d.start + KmapPages + TablePages
      <4> TAKE p \in PagesOf(d)
      <4>1. p \in KmapRegion(r) <=> p < d.start + KmapPages
        BY <1>0, <1>3, <1>4, <1>5, <2>4
      <4>2. p \in TableRegion(r) <=> p >= d.start + KmapPages /\ p < d.start + KmapPages + TablePages
        <5>1. TableRegion(r) = (d.start + KmapPages)..(d.start + KmapPages + TablePages - 1)
          BY <1>3, <3>1, Zenon
        <5>2. p \in Int
          BY <1>5
        <5> HIDE DEF d
        <5> QED BY ONLY <1>0, <1>4, <5>1, <5>2
      <4> QED BY <1>0, <1>4, <1>5, <1>6, <4>1, <4>2
    <3>6. KmapPages + TablePages <= d.pages
      BY <1>0, <1>4, <3>1
    <3>7. Divides(<<MapEntry(d.start, KmapPages, FALSE), MapEntry(d.start + KmapPages, TablePages, FALSE),
                    MapEntry(d.start + (KmapPages + TablePages), d.pages - (KmapPages + TablePages), TRUE)>>, d, r)
      <4> HIDE DEF d
      <4> QED BY <1>0a, <1>4, <1>9, <3>5, <3>6, DividedByThree, Zenon
    <3> QED BY <3>4, <3>7, Zenon
  <2> QED BY <2>1, <2>2, <2>3, <2>4, Zenon
<1> QED BY <1>8, <1>9, Zenon

\* f[k] are the entries for the first k descriptors.
BuiltUpTo(f, r, map) ==
  /\ f[0] = <<>>
  /\ \A k \in 1..Len(map) : f[k] = f[k - 1] \o EntriesOf(r, map[k])

LEMMA BuildEquation ==
  ASSUME NEW r, NEW map, Len(map) \in Nat
  PROVE  \E f : BuiltUpTo(f, r, map) /\ mmap_build_memory_map(r, map) = f[Len(map)]
<1> DEFINE c == <<>>
           X(u, i) == u \o EntriesOf(r, map[i])
           Good(k, f) == f = [i \in 0..k |-> IF i = 0 THEN c ELSE X(f[i - 1], i)]
           N == {k \in Nat : \E f : Good(k, f)}
           h == CHOOSE f : Good(Len(map), f)
<1>1. mmap_build_memory_map(r, map) = h[Len(map)]
  BY Zenon DEF mmap_build_memory_map
<1> HIDE DEF c, X
<1>2. 0 \in N
  <2> DEFINE f == [i \in 0..0 |-> c]
  <2>1. \A i \in 0..0 : i = 0
    OBVIOUS
  <2>2. Good(0, f)
    BY <2>1
  <2> QED
    BY <2>2
<1>3. ASSUME NEW k \in Nat, k \in N PROVE k + 1 \in N
  <2>1. PICK f : Good(k, f)
    BY <1>3
  <2> DEFINE g == [i \in 0..(k + 1) |-> IF i <= k THEN f[i] ELSE X(f[k], i)]
  <2>2. \A i \in 0..k : f[i] = IF i = 0 THEN c ELSE X(f[i - 1], i)
    BY <2>1
  <2>3. \A i \in 0..(k + 1) : i # 0 => i - 1 \in 0..k /\ g[i - 1] = f[i - 1]
    OBVIOUS
  <2>4. \A i \in 0..(k + 1) : g[i] = IF i = 0 THEN c ELSE X(g[i - 1], i)
    <3> TAKE i \in 0..(k + 1)
    <3>1. CASE i = 0
      BY <3>1, <2>2
    <3>2. CASE i # 0 /\ i <= k
      BY <3>2, <2>2, <2>3
    <3>3. CASE i = k + 1
      BY <3>3, <2>3
    <3> QED
      BY <3>1, <3>2, <3>3
  <2>5. Good(k + 1, g)
    BY <2>4
  <2> HIDE DEF g, Good
  <2> QED
    BY <2>5
<1>4. PICK f : Good(Len(map), f)
  <2>1. Len(map) \in N
    <3> HIDE DEF N
    <3> QED
      BY <1>2, <1>3, SetInduction
  <2> HIDE DEF Good
  <2> QED
    BY <2>1
<1>5. Good(Len(map), h)
  <2> HIDE DEF Good
  <2> QED
    BY <1>4, Zenon
<1> HIDE DEF h
<1>6. h[0] = c /\ \A i \in 1..Len(map) : h[i] = X(h[i - 1], i)
  BY <1>5
<1>7. BuiltUpTo(h, r, map)
  BY <1>6 DEF BuiltUpTo, c, X
<1> QED BY <1>1, <1>7

\* The entries B divide the first k descriptors.
DividesUpTo(B, map, r, k) ==
  /\ B \in Seq(MapEntries)
  /\ \A i \in 1..Len(B) : \A p \in PagesOf(B[i]) : \E j \in 1..k :
       p \in PagesOf(map[j]) /\ (B[i].usable <=> efi_memory_map_is_usable(map[j]) /\ p \notin Kept(r))
  /\ \A j \in 1..k : \A p \in PagesOf(map[j]) : \E i \in 1..Len(B) : p \in PagesOf(B[i])
  /\ \A i, j \in 1..Len(B) : \A p : p \in PagesOf(B[i]) /\ p \in PagesOf(B[j]) => i = j

LEMMA BuildStep ==
  ASSUME NEW map, NEW mem, MapOf(map, mem), NEW r, RegionsOK(r, map), NEW k \in DOMAIN map,
         NEW B, DividesUpTo(B, map, r, k - 1)
  PROVE  DividesUpTo(B \o EntriesOf(r, map[k]), map, r, k)
<1> DEFINE E == EntriesOf(r, map[k])
           C == B \o E
           m == Len(B)
           d == map[k]
<1>1. Divides(E, d, r)
  BY EntriesDivide
<1>2. k \in Nat \ {0} /\ k \in 1..k /\ \A j \in 1..k : j \in DOMAIN map /\ (j # k => j \in 1..(k - 1))
  BY DEF MapOf
<1>3. \A j \in 1..(k - 1) : j \in 1..k /\ j \in DOMAIN map /\ j # k
  BY DEF MapOf
<1>4. \A i, j \in DOMAIN map : \A p : p \in PagesOf(map[i]) /\ p \in PagesOf(map[j]) => i = j
  BY Zenon DEF MapOf
<1>5. B \in Seq(MapEntries) /\ E \in Seq(MapEntries)
  BY <1>1, Zenon DEF Divides, DividesUpTo
<1> HIDE DEF E, d
<1>6. /\ C \in Seq(MapEntries) /\ Len(C) = m + Len(E) /\ m \in Nat /\ Len(E) \in Nat
      /\ \A i \in 1..(m + Len(E)) : C[i] = IF i <= m THEN B[i] ELSE E[i - m]
  BY <1>5, ConcatProperties, LenProperties
<1> HIDE DEF C, m
<1>7. \A i \in 1..Len(C) : \/ i \in 1..m /\ C[i] = B[i]
                           \/ i - m \in 1..Len(E) /\ C[i] = E[i - m] /\ ~(i \in 1..m)
  BY <1>6
<1>8. \A i \in 1..m : \A p \in PagesOf(B[i]) : \E j \in 1..(k - 1) :
        p \in PagesOf(map[j]) /\ (B[i].usable <=> efi_memory_map_is_usable(map[j]) /\ p \notin Kept(r))
  BY Zenon DEF DividesUpTo, m
<1>9. \A i \in 1..Len(E) : \A p \in PagesOf(E[i]) :
        p \in PagesOf(d) /\ (E[i].usable <=> efi_memory_map_is_usable(d) /\ p \notin Kept(r))
  BY <1>1, Zenon DEF Divides
<1>10. \A i \in 1..Len(C) : \A p \in PagesOf(C[i]) : \E j \in 1..k :
         p \in PagesOf(map[j]) /\ (C[i].usable <=> efi_memory_map_is_usable(map[j]) /\ p \notin Kept(r))
  <2> SUFFICES ASSUME NEW i \in 1..Len(C), NEW p \in PagesOf(C[i])
               PROVE  \E j \in 1..k :
                        p \in PagesOf(map[j]) /\ (C[i].usable <=> efi_memory_map_is_usable(map[j]) /\ p \notin Kept(r))
    BY Zenon
  <2>1. CASE i \in 1..m /\ C[i] = B[i]
    BY <1>3, <1>8, <2>1
  <2>2. CASE i - m \in 1..Len(E) /\ C[i] = E[i - m]
    <3>1. p \in PagesOf(d) /\ (C[i].usable <=> efi_memory_map_is_usable(d) /\ p \notin Kept(r))
      BY <1>9, <2>2
    <3> QED BY <1>2, <3>1 DEF d
  <2> QED BY <1>7, <2>1, <2>2
<1>11. \A j \in 1..k : \A p \in PagesOf(map[j]) : \E i \in 1..Len(C) : p \in PagesOf(C[i])
  <2> SUFFICES ASSUME NEW j \in 1..k, NEW p \in PagesOf(map[j])
               PROVE  \E i \in 1..Len(C) : p \in PagesOf(C[i])
    BY Zenon
  <2>1. CASE j # k
    <3>1. j \in 1..(k - 1)
      BY <1>2, <2>1
    <3>2. PICK i \in 1..m : p \in PagesOf(B[i])
      BY <3>1, Zenon DEF DividesUpTo, m
    <3>3. i \in 1..Len(C) /\ C[i] = B[i]
      BY <1>6
    <3> QED BY <3>2, <3>3
  <2>2. CASE j = k
    <3>1. p \in PagesOf(d)
      BY <2>2 DEF d
    <3>2. PICK i \in 1..Len(E) : p \in PagesOf(E[i])
      BY <1>1, <3>1, Zenon DEF Divides
    <3>3. i + m \in 1..Len(C) /\ C[i + m] = E[i]
      <4>1. i + m \in 1..(m + Len(E)) /\ ~(i + m <= m) /\ i + m - m = i
        BY <1>6
      <4> QED BY <1>6, <4>1
    <3> QED BY <3>2, <3>3
  <2> QED BY <2>1, <2>2
<1>12. \A i, j \in 1..Len(C) : \A p : p \in PagesOf(C[i]) /\ p \in PagesOf(C[j]) => i = j
  <2>1. \A i \in 1..m, j \in 1..Len(E) : \A p : ~(p \in PagesOf(B[i]) /\ p \in PagesOf(E[j]))
    <3> SUFFICES ASSUME NEW i \in 1..m, NEW j \in 1..Len(E), NEW p, p \in PagesOf(B[i]), p \in PagesOf(E[j])
                 PROVE  FALSE
      BY Zenon
    <3>1. PICK l \in 1..(k - 1) : p \in PagesOf(map[l])
      BY <1>8, Zenon
    <3>2. p \in PagesOf(map[k])
      BY <1>9 DEF d
    <3> QED BY <1>2, <1>3, <1>4, <3>1, <3>2, Zenon
  <2>2. \A i, j \in 1..m : \A p : p \in PagesOf(B[i]) /\ p \in PagesOf(B[j]) => i = j
    BY Zenon DEF DividesUpTo, m
  <2>3. \A i, j \in 1..Len(E) : \A p : p \in PagesOf(E[i]) /\ p \in PagesOf(E[j]) => i = j
    BY <1>1, Zenon DEF Divides
  <2> SUFFICES ASSUME NEW i \in 1..Len(C), NEW j \in 1..Len(C), NEW p, p \in PagesOf(C[i]), p \in PagesOf(C[j])
               PROVE  i = j
    BY Zenon
  <2>4. i \in Int /\ j \in Int
    BY <1>6
  <2>5. CASE i \in 1..m /\ C[i] = B[i]
    <3>1. j \in 1..m /\ C[j] = B[j]
      BY <1>7, <2>1, <2>5
    <3> QED BY <2>2, <2>5, <3>1
  <2>6. CASE i - m \in 1..Len(E) /\ C[i] = E[i - m]
    <3>1. j - m \in 1..Len(E) /\ C[j] = E[j - m]
      BY <1>7, <2>1, <2>6
    <3>2. i - m = j - m
      BY <2>3, <2>6, <3>1
    <3> QED BY <1>6, <2>4, <3>2
  <2> QED BY <1>7, <2>5, <2>6
<1>13. DividesUpTo(C, map, r, k)
  BY <1>6, <1>10, <1>11, <1>12, Zenon DEF DividesUpTo
<1> QED BY <1>13 DEF C, E

LEMMA BuildDivides ==
  ASSUME NEW map, NEW mem, MapOf(map, mem), NEW r, RegionsOK(r, map)
  PROVE  DividesUpTo(mmap_build_memory_map(r, map), map, r, Len(map))
<1> DEFINE n == Len(map)
<1>1. n \in Nat /\ DOMAIN map = 1..n
  BY DEF MapOf
<1>2. PICK f : BuiltUpTo(f, r, map) /\ mmap_build_memory_map(r, map) = f[n]
  BY <1>1, BuildEquation
<1>3. f[0] = <<>> /\ \A k \in 1..n : f[k] = f[k - 1] \o EntriesOf(r, map[k])
  BY <1>2, Zenon DEF BuiltUpTo
<1> HIDE DEF n
<1> DEFINE N == {k \in Nat : k <= n => DividesUpTo(f[k], map, r, k)}
<1>4. 0 \in N
  <2>1. <<>> \in Seq(MapEntries) /\ 1..Len(<<>>) = {} /\ 1..0 = {}
    OBVIOUS
  <2>2. DividesUpTo(<<>>, map, r, 0)
    BY <2>1, Zenon DEF DividesUpTo
  <2> QED BY <1>3, <2>2
<1>5. ASSUME NEW k \in Nat, k \in N PROVE k + 1 \in N
  <2> SUFFICES ASSUME k + 1 <= n PROVE DividesUpTo(f[k + 1], map, r, k + 1)
    OBVIOUS
  <2>1. k + 1 \in DOMAIN map /\ (k + 1) - 1 = k /\ k <= n
    BY <1>1
  <2>2. DividesUpTo(f[k], map, r, (k + 1) - 1)
    BY <1>5, <2>1
  <2>3. DividesUpTo(f[k] \o EntriesOf(r, map[k + 1]), map, r, k + 1)
    BY <2>1, <2>2, BuildStep
  <2>4. f[k + 1] = f[(k + 1) - 1] \o EntriesOf(r, map[k + 1])
    BY <1>1, <1>3, <2>1, Zenon
  <2>5. f[k + 1] = f[k] \o EntriesOf(r, map[k + 1])
    BY <2>1, <2>4, Zenon
  <2> QED BY <2>3, <2>5, Zenon
<1>6. n \in N
  <2> HIDE DEF N
  <2> QED BY <1>1, <1>4, <1>5, SetInduction
<1>7. DividesUpTo(f[n], map, r, n)
  BY <1>1, <1>6
<1> QED BY <1>2, <1>7, Zenon DEF n

(***************************************************************************)
(* The kernel's memory map km divides the memory mem, with the regions of  *)
(* r.                                                                      *)
(***************************************************************************)
Partitions(mem, km, r) ==
  /\ \A p \in DOMAIN mem : \E i \in DOMAIN km :
       p \in PagesOf(km[i]) /\ \A j \in DOMAIN km : p \in PagesOf(km[j]) => j = i
  /\ UsablePages(km) = {p \in DOMAIN mem : mem[p] \in UsableTypes} \ Kept(r)

LEMMA BuildPartitions ==
  ASSUME NEW map, NEW mem, MapOf(map, mem), NEW r, RegionsOK(r, map)
  PROVE  Partitions(mem, mmap_build_memory_map(r, map), r)
<1> DEFINE km == mmap_build_memory_map(r, map)
           n == Len(map)
<1>1. DividesUpTo(km, map, r, n)
  BY BuildDivides
<1> HIDE DEF km
<1>2. km \in Seq(MapEntries) /\ DOMAIN km = 1..Len(km)
  BY <1>1, LenProperties DEF DividesUpTo
<1>3. n \in Nat /\ DOMAIN map = 1..n
  BY DEF MapOf
<1> HIDE DEF n
<1>4. \A i \in DOMAIN km : \A p \in PagesOf(km[i]) : \E j \in DOMAIN map :
        p \in PagesOf(map[j]) /\ (km[i].usable <=> efi_memory_map_is_usable(map[j]) /\ p \notin Kept(r))
  BY <1>1, <1>2, <1>3, Zenon DEF DividesUpTo
<1>5. \A j \in DOMAIN map : \A p \in PagesOf(map[j]) : \E i \in DOMAIN km : p \in PagesOf(km[i])
  BY <1>1, <1>2, <1>3, Zenon DEF DividesUpTo
<1>6. \A i, j \in DOMAIN km : \A p : p \in PagesOf(km[i]) /\ p \in PagesOf(km[j]) => i = j
  BY <1>1, <1>2, Zenon DEF DividesUpTo
<1>7. \A p \in DOMAIN mem : \E k \in DOMAIN map : p \in PagesOf(map[k])
  BY Zenon DEF MapOf
<1>8. \A k \in DOMAIN map : \A p \in PagesOf(map[k]) : p \in DOMAIN mem /\ mem[p] = map[k].type
  BY Zenon DEF MapOf
<1>9. \A k \in DOMAIN map : efi_memory_map_is_usable(map[k]) <=> map[k].type \in UsableTypes
  BY DEF efi_memory_map_is_usable, UsableTypes
<1>10. \A i \in DOMAIN km : \A p \in PagesOf(km[i]) :
         p \in DOMAIN mem /\ (km[i].usable <=> mem[p] \in UsableTypes /\ p \notin Kept(r))
  BY <1>4, <1>8, <1>9, Zenon
<1>11. \A p \in DOMAIN mem : \E i \in DOMAIN km : p \in PagesOf(km[i])
  BY <1>5, <1>7, Zenon
<1>12. \A p \in DOMAIN mem : \E i \in DOMAIN km :
         p \in PagesOf(km[i]) /\ \A j \in DOMAIN km : p \in PagesOf(km[j]) => j = i
  BY <1>6, <1>11, Zenon
<1>13. \A p : p \in UsablePages(km) <=> \E i \in DOMAIN km : km[i].usable /\ p \in PagesOf(km[i])
  BY Zenon DEF UsablePages, Range
<1>14. \A p : p \in UsablePages(km) <=> p \in DOMAIN mem /\ mem[p] \in UsableTypes /\ p \notin Kept(r)
  BY <1>10, <1>11, <1>13, Zenon
<1>15. UsablePages(km) = {p \in DOMAIN mem : mem[p] \in UsableTypes} \ Kept(r)
  BY <1>14
<1>16. Partitions(mem, km, r)
  BY <1>12, <1>15, Zenon DEF Partitions
<1> QED BY <1>16 DEF km

\* The regions lie in memory that can be used.
LEMMA RegionsUsable ==
  ASSUME NEW map, NEW mem, MapOf(map, mem), NEW r, RegionsOK(r, map)
  PROVE  \A p \in Kept(r) : p \in DOMAIN mem /\ mem[p] \in UsableTypes
<1>1. PICK a \in DOMAIN map : efi_memory_map_is_usable(map[a]) /\ map[a].pages >= KmapPages /\ r.kmap = map[a].start
  BY DEF RegionsOK
<1>2. PICK b \in DOMAIN map : TablesIn(r, map[b])
  BY DEF RegionsOK
<1>3. KmapRegion(r) \subseteq PagesOf(map[a]) /\ TableRegion(r) \subseteq PagesOf(map[b])
  BY <1>1, <1>2, RegionPages
<1>4. efi_memory_map_is_usable(map[b])
  BY <1>2 DEF TablesIn
<1>5. \A k \in DOMAIN map : \A p \in PagesOf(map[k]) : p \in DOMAIN mem /\ mem[p] = map[k].type
  BY Zenon DEF MapOf
<1>6. map[a].type \in UsableTypes /\ map[b].type \in UsableTypes
  BY <1>1, <1>4 DEF efi_memory_map_is_usable, UsableTypes
<1> QED BY <1>3, <1>5, <1>6 DEF Kept

-----------------------------------------------------------------------------
(* The pages that mapping takes for tables.                                *)

\* What Tail takes off a sequence without duplicates.
LEMMA TailOfPool ==
  ASSUME NEW S, NEW q \in Seq(S), q # <<>>, IsInjective(q)
  PROVE  /\ Tail(q) \in Seq(S)
         /\ Head(q) = q[1] /\ q[1] \in Range(q)
         /\ IsInjective(Tail(q))
         /\ Range(Tail(q)) = Range(q) \ {q[1]}
<1>1. Len(q) \in Nat \ {0} /\ DOMAIN q = 1..Len(q) /\ Head(q) = q[1]
  OBVIOUS
<1>2. /\ Tail(q) \in Seq(S)
      /\ DOMAIN Tail(q) = 1..(Len(q) - 1)
      /\ \A i \in 1..(Len(q) - 1) : Tail(q)[i] = q[i + 1]
  BY <1>1
<1>3. \A i, j \in 1..Len(q) : q[i] = q[j] => i = j
  BY <1>1 DEF IsInjective
<1>4. IsInjective(Tail(q))
  BY <1>1, <1>2, <1>3 DEF IsInjective
<1>5. q[1] \in Range(q)
  BY <1>1 DEF Range
<1>6. ASSUME NEW x \in Range(q), x # q[1] PROVE x \in Range(Tail(q))
  <2>1. PICK i \in 1..Len(q) : x = q[i]
    BY <1>1 DEF Range
  <2>2. i # 1 /\ i - 1 \in 1..(Len(q) - 1) /\ (i - 1) + 1 = i
    BY <2>1, <1>6, <1>1
  <2>3. Tail(q)[i - 1] = q[i]
    BY <2>2, <1>2, <1>1
  <2> QED BY <2>1, <2>2, <2>3, <1>2 DEF Range
<1>7. ASSUME NEW x \in Range(Tail(q)) PROVE x \in Range(q) /\ x # q[1]
  <2>1. PICK i \in 1..(Len(q) - 1) : x = q[i + 1]
    BY <1>1, <1>2 DEF Range
  <2>2. i + 1 \in 1..Len(q) /\ i + 1 # 1
    BY <1>1
  <2> QED BY <1>1, <1>3, <2>1, <2>2 DEF Range
<1> QED BY <1>1, <1>2, <1>4, <1>5, <1>6, <1>7

IsPt(pt) == pt = [tables |-> pt.tables, pool |-> pt.pool, status |-> pt.status, at |-> pt.at]

(***************************************************************************)
(* pt came from old by taking pages from its pool: what is a table now was *)
(* one before, or is a page that has left the pool.                        *)
(***************************************************************************)
Drawn(old, pt) ==
  /\ IsPt(pt)
  /\ pt.pool \in Seq(Range(old.pool)) /\ IsInjective(pt.pool)
  /\ DOMAIN pt.tables \subseteq DOMAIN old.tables \cup (Range(old.pool) \ Range(pt.pool))

\* How an operation leaves the pool and the pages that are tables alone.
LEMMA DrawnStays ==
  ASSUME NEW old, NEW pt, Drawn(old, pt), NEW new, IsPt(new),
         new.pool = pt.pool, DOMAIN new.tables = DOMAIN pt.tables
  PROVE  Drawn(old, new)
BY Zenon DEF Drawn

LEMMA DrawnFailed ==
  ASSUME NEW old, NEW pt, Drawn(old, pt), NEW why
  PROVE  Drawn(old, Failed(pt, why)) /\ Failed(pt, why).status = why
<1> DEFINE new == Failed(pt, why)
<1>1. IsPt(pt)
  BY DEF Drawn
<1>2. new = [tables |-> pt.tables, pool |-> pt.pool, status |-> why, at |-> pt.at]
  BY <1>1 DEF Failed, IsPt
<1>3. new.pool = pt.pool /\ new.tables = pt.tables /\ IsPt(new) /\ new.status = why
  BY <1>2 DEF IsPt
<1> HIDE DEF new
<1>4. DOMAIN new.tables = DOMAIN pt.tables
  BY <1>3
<1>5. Drawn(old, new)
  BY <1>3, <1>4, DrawnStays
<1> QED BY <1>3, <1>5 DEF new

LEMMA DrawnAt ==
  ASSUME NEW old, NEW pt, Drawn(old, pt), NEW at
  PROVE  Drawn(old, [pt EXCEPT !.at = at])
<1> DEFINE new == [pt EXCEPT !.at = at]
<1>1. IsPt(pt)
  BY DEF Drawn
<1>2. new = [tables |-> pt.tables, pool |-> pt.pool, status |-> pt.status, at |-> at]
  BY <1>1 DEF IsPt
<1>3. new.pool = pt.pool /\ new.tables = pt.tables /\ IsPt(new)
  BY <1>2 DEF IsPt
<1> HIDE DEF new
<1>4. DOMAIN new.tables = DOMAIN pt.tables
  BY <1>3
<1>5. Drawn(old, new)
  BY <1>3, <1>4, DrawnStays
<1> QED BY <1>5 DEF new

LEMMA DrawnWrite ==
  ASSUME NEW old, NEW pt, Drawn(old, pt), NEW t, NEW i, NEW entry
  PROVE  Drawn(old, Write(pt, t, i, entry))
<1> DEFINE x == Put(pt.tables[t], i, entry)
           new == Write(pt, t, i, entry)
<1>1. IsPt(pt)
  BY DEF Drawn
<1>2. new = [pt EXCEPT !.tables = [pt.tables EXCEPT ![t] = x]]
  BY DEF Write
<1> HIDE DEF x, new
<1>3. new = [tables |-> [pt.tables EXCEPT ![t] = x], pool |-> pt.pool, status |-> pt.status, at |-> pt.at]
  BY <1>1, <1>2 DEF IsPt
<1>4. new.pool = pt.pool /\ DOMAIN new.tables = DOMAIN pt.tables /\ IsPt(new)
  BY <1>3 DEF IsPt
<1>5. Drawn(old, new)
  BY <1>4, DrawnStays
<1> QED BY <1>5 DEF new

LEMMA DrawnAlloc ==
  ASSUME NEW old, NEW pt, Drawn(old, pt)
  PROVE  Drawn(old, alloc_page(pt))
<1> DEFINE new == alloc_page(pt)
<1>1. CASE pt.pool = <<>>
  <2>1. new = Failed(pt, "full")
    BY <1>1 DEF alloc_page
  <2> HIDE DEF new
  <2>2. Drawn(old, new)
    BY <2>1, DrawnFailed
  <2> QED BY <2>2 DEF new
<1>2. CASE pt.pool # <<>>
  <2>1. IsPt(pt) /\ pt.pool \in Seq(Range(old.pool)) /\ IsInjective(pt.pool)
    BY DEF Drawn
  <2>2. DOMAIN pt.tables \subseteq DOMAIN old.tables \cup (Range(old.pool) \ Range(pt.pool))
    BY DEF Drawn
  <2> DEFINE h == Head(pt.pool)
             t == Put(pt.tables, h, EmptyTable)
  <2>3. new = [pt EXCEPT !.tables = t, !.pool = Tail(pt.pool), !.at = h]
    BY <1>2 DEF alloc_page
  <2>4. DOMAIN t = DOMAIN pt.tables \cup {h}
    BY DEF Put
  <2>5. /\ Tail(pt.pool) \in Seq(Range(old.pool)) /\ IsInjective(Tail(pt.pool))
        /\ Range(Tail(pt.pool)) = Range(pt.pool) \ {h} /\ h \in Range(pt.pool)
    BY <1>2, <2>1, TailOfPool
  <2>6. Range(pt.pool) \subseteq Range(old.pool)
    BY <2>1, ElementOfSeq DEF Range
  <2> HIDE DEF new, t, h
  <2>7. new = [tables |-> t, pool |-> Tail(pt.pool), status |-> pt.status, at |-> h]
    BY <2>1, <2>3 DEF IsPt
  <2>8. IsPt(new) /\ new.tables = t /\ new.pool = Tail(pt.pool)
    BY <2>7 DEF IsPt
  <2>9. DOMAIN t \subseteq DOMAIN old.tables \cup (Range(old.pool) \ Range(Tail(pt.pool)))
    BY <2>2, <2>4, <2>5, <2>6
  <2>10. Drawn(old, new)
    BY <2>5, <2>8, <2>9, Zenon DEF Drawn
  <2> QED BY <2>10 DEF new
<1> QED BY <1>1, <1>2

LEMMA DrawnDescend ==
  ASSUME NEW old, NEW pt, Drawn(old, pt), NEW i, NEW checked
  PROVE  Drawn(old, Descend(pt, i, checked))
<1> DEFINE here == pt.tables[pt.at]
           new == alloc_page(pt)
           why == IF checked THEN "mapped" ELSE "wild"
           written == Write(new, pt.at, i, Entry("table", new.at))
           below == [pt EXCEPT !.at = here[i].at]
           failed == Failed(pt, why)
<1>1. Drawn(old, new)
  BY DrawnAlloc
<1>2. Drawn(old, written)
  <2> HIDE DEF new
  <2> QED BY <1>1, DrawnWrite
<1>3. Drawn(old, below)
  BY DrawnAt
<1>4. Drawn(old, failed)
  BY DrawnFailed
<1>5. Descend(pt, i, checked) = pt \/ Descend(pt, i, checked) = new \/ Descend(pt, i, checked) = written
        \/ Descend(pt, i, checked) = below \/ Descend(pt, i, checked) = failed
  BY Zenon DEF Descend
<1> HIDE DEF new, written, below, failed
<1> QED BY <1>1, <1>2, <1>3, <1>4, <1>5, Zenon

\* f[l] is what Walk has at level l.
WalkUpTo(f, pt, root, v, depth, checked) ==
  /\ f[0] = [pt EXCEPT !.at = root]
  /\ \A l \in 1..depth : f[l] = Descend(f[l - 1], Index(v, l - 1), checked)

LEMMA WalkEquation ==
  ASSUME NEW pt, NEW root, NEW v, NEW depth \in Nat, NEW checked
  PROVE  \E f : WalkUpTo(f, pt, root, v, depth, checked) /\ Walk(pt, root, v, depth, checked) = f[depth]
<1> DEFINE c == [pt EXCEPT !.at = root]
           X(u, i) == Descend(u, Index(v, i - 1), checked)
           Good(k, f) == f = [i \in 0..k |-> IF i = 0 THEN c ELSE X(f[i - 1], i)]
           N == {k \in Nat : \E f : Good(k, f)}
           h == CHOOSE f : Good(depth, f)
<1>1. Walk(pt, root, v, depth, checked) = h[depth]
  BY Zenon DEF Walk
<1> HIDE DEF c, X
<1>2. 0 \in N
  <2> DEFINE f == [i \in 0..0 |-> c]
  <2>1. \A i \in 0..0 : i = 0
    OBVIOUS
  <2>2. Good(0, f)
    BY <2>1
  <2> QED
    BY <2>2
<1>3. ASSUME NEW k \in Nat, k \in N PROVE k + 1 \in N
  <2>1. PICK f : Good(k, f)
    BY <1>3
  <2> DEFINE g == [i \in 0..(k + 1) |-> IF i <= k THEN f[i] ELSE X(f[k], i)]
  <2>2. \A i \in 0..k : f[i] = IF i = 0 THEN c ELSE X(f[i - 1], i)
    BY <2>1
  <2>3. \A i \in 0..(k + 1) : i # 0 => i - 1 \in 0..k /\ g[i - 1] = f[i - 1]
    OBVIOUS
  <2>4. \A i \in 0..(k + 1) : g[i] = IF i = 0 THEN c ELSE X(g[i - 1], i)
    <3> TAKE i \in 0..(k + 1)
    <3>1. CASE i = 0
      BY <3>1, <2>2
    <3>2. CASE i # 0 /\ i <= k
      BY <3>2, <2>2, <2>3
    <3>3. CASE i = k + 1
      BY <3>3, <2>3
    <3> QED
      BY <3>1, <3>2, <3>3
  <2>5. Good(k + 1, g)
    BY <2>4
  <2> HIDE DEF g, Good
  <2> QED
    BY <2>5
<1>4. PICK f : Good(depth, f)
  <2>1. depth \in N
    <3> HIDE DEF N
    <3> QED
      BY <1>2, <1>3, SetInduction
  <2> HIDE DEF Good
  <2> QED
    BY <2>1
<1>5. Good(depth, h)
  <2> HIDE DEF Good
  <2> QED
    BY <1>4, Zenon
<1> HIDE DEF h
<1>6. h[0] = c /\ \A i \in 1..depth : h[i] = X(h[i - 1], i)
  BY <1>5
<1>7. WalkUpTo(h, pt, root, v, depth, checked)
  BY <1>6 DEF WalkUpTo, c, X
<1> QED BY <1>1, <1>7

LEMMA DrawnWalk ==
  ASSUME NEW old, NEW pt, Drawn(old, pt), NEW root, NEW v, NEW depth \in Nat, NEW checked
  PROVE  Drawn(old, Walk(pt, root, v, depth, checked))
<1>1. PICK f : WalkUpTo(f, pt, root, v, depth, checked) /\ Walk(pt, root, v, depth, checked) = f[depth]
  BY WalkEquation
<1> DEFINE S == {k \in Nat : k <= depth => Drawn(old, f[k])}
<1>2. 0 \in S
  <2>1. f[0] = [pt EXCEPT !.at = root]
    BY <1>1 DEF WalkUpTo
  <2>2. Drawn(old, f[0])
    BY <2>1, DrawnAt
  <2> QED BY <2>2
<1>3. ASSUME NEW k \in Nat, k \in S PROVE k + 1 \in S
  <2> SUFFICES ASSUME k + 1 <= depth PROVE Drawn(old, f[k + 1])
    OBVIOUS
  <2>1. k + 1 \in 1..depth /\ (k + 1) - 1 = k
    OBVIOUS
  <2>2. f[k + 1] = Descend(f[k], Index(v, k), checked)
    BY <1>1, <2>1 DEF WalkUpTo
  <2>3. Drawn(old, f[k])
    BY <1>3
  <2> QED BY <2>2, <2>3, DrawnDescend
<1>4. depth \in S
  <2> HIDE DEF S
  <2> QED BY <1>2, <1>3, SetInduction
<1>5. Drawn(old, f[depth])
  BY <1>4
<1> QED BY <1>1, <1>5

LEMMA DrawnMapPage ==
  ASSUME NEW old, NEW pt, Drawn(old, pt), NEW root, NEW p, NEW v
  PROVE  Drawn(old, vmap_map_page(pt, root, p, v))
<1> DEFINE w == Walk(pt, root, v, Levels - 1, FALSE)
           written == Write(w, w.at, Index(v, Levels - 1), Entry("page", p))
<1>1. Levels - 1 \in Nat
  BY VmapAssumption
<1>2. Drawn(old, w)
  BY <1>1, DrawnWalk
<1>3. Drawn(old, written)
  <2> HIDE DEF w
  <2> QED BY <1>2, DrawnWrite
<1>4. vmap_map_page(pt, root, p, v) = written \/ vmap_map_page(pt, root, p, v) = w
  BY Zenon DEF vmap_map_page
<1> HIDE DEF w, written
<1> QED BY <1>2, <1>3, <1>4, Zenon

\* f[k] is what vmap_map_range has after k pages.
RangeUpTo(f, pt, root, p, v, n) ==
  /\ f[0] = pt
  /\ \A k \in 1..n :
       f[k] = IF f[k - 1].status = "ok" THEN vmap_map_page(f[k - 1], root, p + k - 1, v + k - 1) ELSE f[k - 1]

LEMMA RangeEquation ==
  ASSUME NEW pt, NEW root, NEW p, NEW v, NEW n \in Nat
  PROVE  \E f : RangeUpTo(f, pt, root, p, v, n) /\ vmap_map_range(pt, root, p, v, n) = f[n]
<1> DEFINE c == pt
           X(u, i) == IF u.status = "ok" THEN vmap_map_page(u, root, p + i - 1, v + i - 1) ELSE u
           Good(k, f) == f = [i \in 0..k |-> IF i = 0 THEN c ELSE X(f[i - 1], i)]
           N == {k \in Nat : \E f : Good(k, f)}
           h == CHOOSE f : Good(n, f)
<1>1. vmap_map_range(pt, root, p, v, n) = h[n]
  BY Zenon DEF vmap_map_range
<1> HIDE DEF c, X
<1>2. 0 \in N
  <2> DEFINE f == [i \in 0..0 |-> c]
  <2>1. \A i \in 0..0 : i = 0
    OBVIOUS
  <2>2. Good(0, f)
    BY <2>1
  <2> QED
    BY <2>2
<1>3. ASSUME NEW k \in Nat, k \in N PROVE k + 1 \in N
  <2>1. PICK f : Good(k, f)
    BY <1>3
  <2> DEFINE g == [i \in 0..(k + 1) |-> IF i <= k THEN f[i] ELSE X(f[k], i)]
  <2>2. \A i \in 0..k : f[i] = IF i = 0 THEN c ELSE X(f[i - 1], i)
    BY <2>1
  <2>3. \A i \in 0..(k + 1) : i # 0 => i - 1 \in 0..k /\ g[i - 1] = f[i - 1]
    OBVIOUS
  <2>4. \A i \in 0..(k + 1) : g[i] = IF i = 0 THEN c ELSE X(g[i - 1], i)
    <3> TAKE i \in 0..(k + 1)
    <3>1. CASE i = 0
      BY <3>1, <2>2
    <3>2. CASE i # 0 /\ i <= k
      BY <3>2, <2>2, <2>3
    <3>3. CASE i = k + 1
      BY <3>3, <2>3
    <3> QED
      BY <3>1, <3>2, <3>3
  <2>5. Good(k + 1, g)
    BY <2>4
  <2> HIDE DEF g, Good
  <2> QED
    BY <2>5
<1>4. PICK f : Good(n, f)
  <2>1. n \in N
    <3> HIDE DEF N
    <3> QED
      BY <1>2, <1>3, SetInduction
  <2> HIDE DEF Good
  <2> QED
    BY <2>1
<1>5. Good(n, h)
  <2> HIDE DEF Good
  <2> QED
    BY <1>4, Zenon
<1> HIDE DEF h
<1>6. h[0] = c /\ \A i \in 1..n : h[i] = X(h[i - 1], i)
  BY <1>5
<1>7. RangeUpTo(h, pt, root, p, v, n)
  BY <1>6 DEF RangeUpTo, c, X
<1> QED BY <1>1, <1>7

LEMMA DrawnRange ==
  ASSUME NEW pt, Drawn(pt, pt), NEW root, NEW p, NEW v, NEW n \in Nat
  PROVE  Drawn(pt, vmap_map_range(pt, root, p, v, n))
<1>1. PICK f : RangeUpTo(f, pt, root, p, v, n) /\ vmap_map_range(pt, root, p, v, n) = f[n]
  BY RangeEquation
<1> DEFINE S == {k \in Nat : k <= n => Drawn(pt, f[k])}
<1>2. 0 \in S
  BY <1>1 DEF RangeUpTo
<1>3. ASSUME NEW k \in Nat, k \in S PROVE k + 1 \in S
  <2> SUFFICES ASSUME k + 1 <= n PROVE Drawn(pt, f[k + 1])
    OBVIOUS
  <2>1. k + 1 \in 1..n /\ (k + 1) - 1 = k
    OBVIOUS
  <2> DEFINE next == vmap_map_page(f[k], root, p + (k + 1) - 1, v + (k + 1) - 1)
  <2>2. f[k + 1] = IF f[k].status = "ok" THEN next ELSE f[k]
    BY <1>1, <2>1 DEF RangeUpTo
  <2>3. Drawn(pt, f[k])
    BY <1>3
  <2>4. Drawn(pt, next)
    BY <2>3, DrawnMapPage
  <2> HIDE DEF next
  <2> QED BY <2>2, <2>3, <2>4
<1>4. n \in S
  <2> HIDE DEF S
  <2> QED BY <1>2, <1>3, SetInduction
<1>5. Drawn(pt, f[n])
  BY <1>4
<1> QED BY <1>1, <1>5

-----------------------------------------------------------------------------
(* What the loader takes from the firmware.                                *)

LoaderPages(mem) == {p \in DOMAIN mem : mem[p] = "loaderData"}

LEMMA TakenPages ==
  ASSUME NEW mem, IsMemory(mem), NEW A, A \subseteq Free(mem)
  PROVE  /\ IsMemory(Give(mem, A, "loaderData"))
         /\ LoaderPages(Give(mem, A, "loaderData")) = LoaderPages(mem) \cup A
         /\ Free(Give(mem, A, "loaderData")) = Free(mem) \ A
         /\ A \cap LoaderPages(mem) = {}
<1> DEFINE new == Give(mem, A, "loaderData")
<1>1. /\ IsMemory(new) /\ DOMAIN new = DOMAIN mem
      /\ \A p \in DOMAIN mem : new[p] = IF p \in A THEN "loaderData" ELSE mem[p]
  BY GiveMemory DEF PageTypes
<1> HIDE DEF new
<1>2. A \subseteq DOMAIN mem
  BY DEF Free
<1>3. LoaderPages(new) = LoaderPages(mem) \cup A
  BY <1>1, <1>2 DEF LoaderPages
<1>4. Free(new) = Free(mem) \ A
  BY <1>1 DEF Free
<1>5. A \cap LoaderPages(mem) = {}
  BY DEF LoaderPages, Free
<1> QED BY <1>1, <1>3, <1>4, <1>5 DEF new

\* Pages of the loader that are given back.
LEMMA ReturnedPages ==
  ASSUME NEW mem, IsMemory(mem), NEW A
  PROVE  /\ IsMemory(Give(mem, A, "conventional"))
         /\ LoaderPages(Give(mem, A, "conventional")) = LoaderPages(mem) \ A
<1> DEFINE new == Give(mem, A, "conventional")
<1>1. /\ IsMemory(new) /\ DOMAIN new = DOMAIN mem
      /\ \A p \in DOMAIN mem : new[p] = IF p \in A THEN "conventional" ELSE mem[p]
  BY GiveMemory DEF PageTypes
<1> HIDE DEF new
<1>2. LoaderPages(new) = LoaderPages(mem) \ A
  BY <1>1 DEF LoaderPages
<1> QED BY <1>1, <1>2 DEF new

\* The firmware's events do not touch them.
LEMMA EventPages ==
  ASSUME NEW mem, IsMemory(mem), NEW A, NEW type \in {"bootServices", "conventional"},
         \A p \in A : p \in DOMAIN mem => mem[p] # "loaderData"
  PROVE  /\ IsMemory(Give(mem, A, type))
         /\ LoaderPages(Give(mem, A, type)) = LoaderPages(mem)
<1> DEFINE new == Give(mem, A, type)
<1>1. type \in PageTypes
  BY DEF PageTypes
<1>2. /\ IsMemory(new) /\ DOMAIN new = DOMAIN mem
      /\ \A p \in DOMAIN mem : new[p] = IF p \in A THEN type ELSE mem[p]
  BY <1>1, GiveMemory
<1> HIDE DEF new
<1>3. LoaderPages(new) = LoaderPages(mem)
  BY <1>2 DEF LoaderPages
<1> QED BY <1>2, <1>3 DEF new

LEMMA FreePages ==
  ASSUME NEW mem, IsMemory(mem)
  PROVE  /\ IsFiniteSet(Free(mem)) /\ Free(mem) \subseteq Nat
         /\ Free(mem) # {} => Max(Free(mem)) \in Free(mem)
<1>1. DOMAIN mem \subseteq Nat \ {0} /\ IsFiniteSet(DOMAIN mem) /\ Free(mem) \in SUBSET DOMAIN mem
  BY MemoryPages DEF Free
<1>2. IsFiniteSet(Free(mem)) /\ Free(mem) \subseteq Nat
  BY <1>1, FS_Subset
<1>3. PICK a \in Nat, b \in Nat : 0 < a /\ a <= b /\ mem \in [a..b -> PageTypes]
  BY DEF IsMemory
<1>4. \A p \in Free(mem) : p <= b
  BY <1>3 DEF Free
<1>5. Free(mem) # {} => \E m \in Free(mem) : \A n \in Free(mem) : n <= m
  BY <1>2, <1>4, GreatestNatural
<1>6. Free(mem) # {} => \E m \in Free(mem) : \A n \in Free(mem) : m >= n
  BY <1>2, <1>5
<1> QED BY <1>2, <1>6, Zenon DEF Max

\* What Map changes: the frames and the new tables become the loader's, and
\* were free.
LEMMA MapTakes ==
  ASSUME IsMemory(efi), NEW n \in Nat, NEW v, Fits(efi, n) # {}
  PROVE  LET m == Map(n, v, "loaderData")
         IN  /\ IsMemory(m.efi)
             /\ LoaderPages(efi) \cup m.frames \subseteq LoaderPages(m.efi)
             /\ m.frames \cap LoaderPages(efi) = {}
             /\ DOMAIN m.pt.tables \subseteq DOMAIN tables \cup (LoaderPages(m.efi) \ LoaderPages(efi))
<1> DEFINE frames == Allocated(efi, n)
           rest == Give(efi, frames, "loaderData")
           list == Sorted(Free(rest), >)
           pt == [tables |-> tables, pool |-> list, status |-> "ok", at |-> ttbr1]
           mapped == vmap_map_range(pt, ttbr1, Min(frames), v, n)
           drawn == Free(rest) \ Range(mapped.pool)
           new == Give(rest, drawn, "loaderData")
           m == Map(n, v, "loaderData")
<1>1. m = [pt |-> mapped, frames |-> frames, efi |-> new]
  BY Zenon DEF Map
<1>2. frames \subseteq Free(efi)
  BY AllocatedWasFree
<1>3. /\ IsMemory(rest) /\ LoaderPages(rest) = LoaderPages(efi) \cup frames
      /\ Free(rest) = Free(efi) \ frames /\ frames \cap LoaderPages(efi) = {}
  <2> HIDE DEF frames
  <2> QED BY <1>2, TakenPages
<1>4. Lists(list, Free(rest))
  <2>1. IsFiniteSet(Free(rest)) /\ Free(rest) \subseteq Int
    <3> HIDE DEF rest
    <3> QED BY <1>3, FreePages
  <2> HIDE DEF rest
  <2> QED BY <2>1, SortedDown
<1> HIDE DEF list, rest, frames
<1>5. list \in Seq(Free(rest)) /\ IsInjective(list) /\ Range(list) = Free(rest)
  <2>1. /\ list \in Seq(Free(rest))
        /\ \A k \in DOMAIN list : list[k] \in Free(rest)
        /\ \A i, j \in DOMAIN list : list[i] = list[j] => i = j
        /\ \A x \in Free(rest) : \E k \in DOMAIN list : list[k] = x
    BY <1>4, Zenon DEF Lists
  <2>2. Range(list) = Free(rest)
    BY <2>1 DEF Range
  <2> QED BY <2>1, <2>2, Zenon DEF IsInjective
<1>6. pt.tables = tables /\ pt.pool = list /\ IsPt(pt)
  BY DEF IsPt
<1> HIDE DEF pt
<1>7. Drawn(pt, pt)
  BY <1>5, <1>6 DEF Drawn
<1>8. Drawn(pt, mapped)
  BY <1>7, DrawnRange
<1> HIDE DEF mapped
<1>9. DOMAIN mapped.tables \subseteq DOMAIN tables \cup drawn
  BY <1>5, <1>6, <1>8 DEF Drawn
<1>10. drawn \subseteq Free(rest)
  OBVIOUS
<1> HIDE DEF drawn
<1>11. IsMemory(new) /\ LoaderPages(new) = LoaderPages(rest) \cup drawn /\ drawn \cap LoaderPages(rest) = {}
  BY <1>3, <1>10, TakenPages
<1> HIDE DEF new, m
<1>12. m.pt = mapped /\ m.frames = frames /\ m.efi = new
  BY <1>1
<1>13. /\ IsMemory(m.efi)
       /\ LoaderPages(efi) \cup m.frames \subseteq LoaderPages(m.efi)
       /\ m.frames \cap LoaderPages(efi) = {}
       /\ DOMAIN m.pt.tables \subseteq DOMAIN tables \cup (LoaderPages(m.efi) \ LoaderPages(efi))
  BY <1>3, <1>9, <1>11, <1>12
<1> QED BY <1>13 DEF m

\* The kernel's loadable segments.
LEMMA SegmentsAre ==
  ASSUME machine \in Machines
  PROVE  /\ Len(Segments) \in Nat /\ DOMAIN Segments = 1..Len(Segments)
         /\ \A k \in DOMAIN Segments : Segments[k].memory \in Nat
<1> DEFINE H == machine.headers
           L == {i \in DOMAIN H : H[i].load}
           s == Sorted(L, <)
           R == [load : BOOLEAN, at : Nat, memory : Nat, file : Nat, align : Nat]
<1>1. H \in Seq(R)
  BY BootAssumption
<1>2. DOMAIN H = 1..Len(H) /\ Len(H) \in Nat /\ \A i \in DOMAIN H : H[i] \in R
  <2> HIDE DEF H, R
  <2> QED BY <1>1
<1>3. IsFiniteSet(DOMAIN H)
  <2> HIDE DEF H
  <2> QED BY <1>2, FS_Interval
<1>4. L \in SUBSET DOMAIN H
  OBVIOUS
<1>5. IsFiniteSet(L)
  <2> HIDE DEF L, H
  <2> QED BY <1>3, <1>4, FS_Subset
<1>6. L \subseteq Int
  <2> HIDE DEF H
  <2> QED BY <1>2
<1>7. Lists(s, L)
  <2> HIDE DEF L
  <2> QED BY <1>5, <1>6, SortedUp
<1>8. DOMAIN s = 1..Cardinality(L) /\ \A k \in DOMAIN s : s[k] \in L
  BY <1>7, Zenon DEF Lists
<1>9. Cardinality(L) \in Nat
  <2> HIDE DEF L
  <2> QED BY <1>5, FS_CardinalityType
<1>10. Segments = [k \in DOMAIN s |-> H[s[k]]]
  BY Zenon DEF Segments
<1> HIDE DEF s
<1>11. Len(Segments) = Cardinality(L) /\ DOMAIN Segments = DOMAIN s
  <2> HIDE DEF L, H
  <2> QED BY <1>8, <1>9, <1>10
<1>12. ASSUME NEW k \in DOMAIN s PROVE Segments[k] \in R
  <2>1. s[k] \in DOMAIN H
    BY <1>8
  <2> HIDE DEF H, R, L
  <2> QED BY <1>2, <1>10, <2>1
<1>13. \A k \in DOMAIN s : Segments[k].memory \in Nat
  BY <1>12
<1> HIDE DEF L
<1> QED BY <1>8, <1>9, <1>11, <1>13

SegmentsOf(headers) ==
  LET loads == Sorted({i \in DOMAIN headers : headers[i].load}, <)
  IN  [k \in DOMAIN loads |-> headers[loads[k]]]

LEMMA SegmentsSame ==
  ASSUME machine' = machine
  PROVE  Segments' = Segments
<1>1. Segments = SegmentsOf(machine.headers)
  BY Zenon DEF Segments, SegmentsOf
<1>2. Segments' = SegmentsOf(machine.headers)'
  BY Zenon DEF Segments, SegmentsOf
<1>3. SegmentsOf(machine.headers)' = SegmentsOf(machine.headers)
  OBVIOUS
<1> QED BY <1>1, <1>2, <1>3, Zenon

-----------------------------------------------------------------------------
(* The inductive invariant.                                                *)

IsLoaded(l) == l = [elf |-> l.elf, segments |-> l.segments, modules |-> l.modules, kept |-> l.kept]
IsInfo(i) == i = [map |-> i.map, size |-> i.size, quiet |-> i.quiet]

ShapeInv == IsMemory(efi) /\ IsLoaded(loaded) /\ IsInfo(info) /\ info.size \in Nat

\* Before the kernel has looked for its regions there are none.
LoaderInv ==
  stage \in LoaderStages \cup {"reserve"} =>
    /\ machine \in Machines
    /\ regions = [kmap |-> 0, tables |-> 0] /\ kmap = <<>>

\* There is a segment left to load while the loader loads them.
SegmentsInv ==
  /\ stage \in {"kernel_file", "root"} => loaded.segments = 0
  /\ stage = "root" => Len(Segments) # 0
  /\ stage = "segments" => loaded.segments \in Nat /\ loaded.segments + 1 <= Len(Segments)

\* What the loader has is memory of its own type, and the buffer of the
\* kernel's file, which it frees, is not a part of what it keeps.
KeptInv ==
  /\ loaded.kept \subseteq LoaderPages(efi)
  /\ stage \in LoaderStages \cup {"reserve", "memory_map", "tables"} => DOMAIN tables \subseteq LoaderPages(efi)
  /\ stage \in LoaderStages =>
       /\ loaded.elf \subseteq LoaderPages(efi)
       /\ loaded.elf \cap (loaded.kept \cup DOMAIN tables) = {}

\* A key that is current belongs to the map that was read with it.
HandedInv ==
  /\ stage = "exit" /\ fresh => info.map = Descriptors(efi)
  /\ InKernel => info.map = Descriptors(efi)

\* Without an event there is room for the map.
QuietInv ==
  /\ stage = "buffer" /\ info.quiet => Len(Descriptors(efi)) + Slack <= info.size
  /\ stage = "get" /\ info.quiet => Len(Descriptors(efi)) <= info.size
  /\ stage = "exit" /\ info.quiet => fresh
  /\ cause = "map" => stage = "aborted" /\ ~info.quiet

RegionsInv ==
  /\ stage \in {"memory_map", "tables", "kernel", "up"} => RegionsOK(regions, info.map)
  /\ stage = "memory_map" => kmap = <<>>
  /\ MapBuilt => Partitions(efi, kmap, regions)

BootInv ==
  ShapeInv /\ LoaderInv /\ SegmentsInv /\ KeptInv /\ HandedInv /\ QuietInv /\ RegionsInv

LEMMA BootInit == Init => BootInv
<1> SUFFICES ASSUME Init PROVE BootInv
  OBVIOUS
<1>1. machine \in Machines /\ efi = Layout(machine.ram, machine.base) /\ stage = "kernel_file" /\ cause = "none"
  BY DEF Init
<1>2. /\ loaded = [elf |-> {}, segments |-> 0, modules |-> <<>>, kept |-> {}]
      /\ info = [map |-> <<>>, size |-> 0, quiet |-> TRUE]
      /\ tables = [p \in {} |-> EmptyTable]
      /\ regions = [kmap |-> 0, tables |-> 0] /\ kmap = <<>>
  BY DEF Init
<1>3. ShapeInv
  BY <1>1, <1>2, LayoutMemory DEF ShapeInv, IsLoaded, IsInfo
<1>4. LoaderInv /\ SegmentsInv
  BY <1>1, <1>2 DEF LoaderInv, SegmentsInv
<1>5. loaded.elf = {} /\ loaded.kept = {} /\ DOMAIN tables = {}
  BY <1>2
<1>6. KeptInv
  BY <1>5 DEF KeptInv
<1>7. HandedInv /\ QuietInv /\ RegionsInv
  BY <1>1 DEF HandedInv, QuietInv, RegionsInv, InKernel, MapBuilt
<1> QED BY <1>3, <1>4, <1>6, <1>7 DEF BootInv

\* The loader gives up.
LEMMA BootAbort ==
  ASSUME BootInv, NEW why, Abort(why), stage \in LoaderStages, why = "map" => ~info.quiet
  PROVE  BootInv'
<1>1. stage' = "aborted" /\ cause' = why /\ UNCHANGED <<efi, loaded, info, regions, kmap, tables, fresh, machine>>
  BY DEF Abort, kernelVars
<1>2. ShapeInv'
  BY <1>1 DEF BootInv, ShapeInv
<1>3. LoaderInv' /\ SegmentsInv'
  BY <1>1 DEF LoaderInv, SegmentsInv, LoaderStages
<1>4. KeptInv'
  BY <1>1 DEF BootInv, KeptInv, LoaderStages
<1>5. HandedInv' /\ QuietInv' /\ RegionsInv'
  BY <1>1 DEF HandedInv, QuietInv, RegionsInv, InKernel, MapBuilt
<1> QED BY <1>2, <1>3, <1>4, <1>5 DEF BootInv

\* An assertion of the kernel fails.
LEMMA BootPanic ==
  ASSUME BootInv, Panic, cause # "map"
  PROVE  BootInv'
<1>1. stage' = "panic" /\ UNCHANGED <<efi, loaded, info, regions, kmap, tables, fresh, machine, cause>>
  BY DEF Panic, kernelVars
<1>2. ShapeInv'
  BY <1>1 DEF BootInv, ShapeInv
<1>3. LoaderInv' /\ SegmentsInv'
  BY <1>1 DEF LoaderInv, SegmentsInv, LoaderStages
<1>4. KeptInv'
  BY <1>1 DEF BootInv, KeptInv, LoaderStages
<1>5. HandedInv' /\ QuietInv' /\ RegionsInv'
  BY <1>1 DEF HandedInv, QuietInv, RegionsInv, InKernel, MapBuilt
<1> QED BY <1>2, <1>3, <1>4, <1>5 DEF BootInv

LEMMA BootFirmwareEvent ==
  ASSUME BootInv, FirmwareEvent
  PROVE  BootInv'
<1>1. /\ stage \in LoaderStages /\ stage' = stage /\ fresh' = FALSE
      /\ info' = [info EXCEPT !.quiet = FALSE]
      /\ UNCHANGED <<machine, loaded, tables, regions, kmap, cause>>
  BY DEF FirmwareEvent, kernelVars
<1>2. IsMemory(efi) /\ IsLoaded(loaded) /\ IsInfo(info) /\ info.size \in Nat
  BY DEF BootInv, ShapeInv
<1>3. info' = [map |-> info.map, size |-> info.size, quiet |-> FALSE]
  BY <1>1, <1>2 DEF IsInfo
<1>4. info'.size = info.size /\ info'.quiet = FALSE /\ IsInfo(info')
  BY <1>3 DEF IsInfo
<1>5. IsMemory(efi') /\ LoaderPages(efi') = LoaderPages(efi)
  <2>1. CASE Free(efi) # {} /\ efi' = Give(efi, Allocated(efi, 1), "bootServices")
    <3>1. PICK p \in Free(efi) : Allocated(efi, 1) = {p}
      BY <1>2, <2>1, AllocatedPage
    <3>2. \A q \in {p} : q \in DOMAIN efi => efi[q] # "loaderData"
      BY DEF Free
    <3> QED BY <1>2, <2>1, <3>1, <3>2, EventPages
  <2>2. CASE \E p \in DOMAIN efi : efi[p] = "bootServices" /\ efi' = Give(efi, {p}, "conventional")
    <3>1. PICK p \in DOMAIN efi : efi[p] = "bootServices" /\ efi' = Give(efi, {p}, "conventional")
      BY <2>2
    <3>2. \A q \in {p} : q \in DOMAIN efi => efi[q] # "loaderData"
      BY <3>1
    <3> QED BY <1>2, <3>1, <3>2, EventPages
  <2> QED BY <2>1, <2>2 DEF FirmwareEvent
<1>6. ShapeInv'
  BY <1>1, <1>2, <1>4, <1>5 DEF ShapeInv
<1>7. Segments' = Segments
  BY <1>1, SegmentsSame
<1>8. LoaderInv' /\ SegmentsInv'
  BY <1>1, <1>7 DEF BootInv, LoaderInv, SegmentsInv
<1>9. KeptInv'
  BY <1>1, <1>5 DEF BootInv, KeptInv
<1>10. HandedInv' /\ RegionsInv'
  BY <1>1 DEF HandedInv, RegionsInv, InKernel, MapBuilt, LoaderStages
<1>11. QuietInv'
  <2>1. cause # "map"
    BY <1>1 DEF BootInv, QuietInv, LoaderStages
  <2> QED BY <1>1, <1>4, <2>1 DEF QuietInv
<1> QED BY <1>6, <1>8, <1>9, <1>10, <1>11 DEF BootInv

\* A step of the loader before it asks for the size of the memory map.
LEMMA BootEarly ==
  ASSUME BootInv, stage \in LoaderStages, stage' \in LoaderStages \ {"buffer", "get", "exit"},
         UNCHANGED <<machine, info, regions, kmap, cause>>,
         IsMemory(efi'), IsLoaded(loaded'), SegmentsInv', KeptInv'
  PROVE  BootInv'
<1>1. ShapeInv'
  BY DEF BootInv, ShapeInv
<1>2. LoaderInv'
  BY DEF BootInv, LoaderInv
<1>3. HandedInv' /\ RegionsInv'
  BY DEF HandedInv, RegionsInv, InKernel, MapBuilt, LoaderStages
<1>4. QuietInv'
  <2>1. cause # "map"
    BY DEF BootInv, QuietInv, LoaderStages
  <2> QED BY <2>1 DEF QuietInv
<1> QED BY <1>1, <1>2, <1>3, <1>4 DEF BootInv

\* A file's buffer is memory that was free.
LEMMA FilePages ==
  ASSUME IsMemory(efi), NEW n, FileFits(n)
  PROVE  FileBuffer(n) \subseteq Free(efi)
<1>1. PICK p \in Free(efi) : FileInfo = {p}
  BY AllocatedPage DEF FileFits, FileInfo
<1> DEFINE mem == Give(efi, FileInfo, "loaderData")
<1>2. IsMemory(mem) /\ Free(mem) = Free(efi) \ {p}
  BY <1>1, TakenPages
<1>3. Fits(mem, n) # {}
  BY DEF FileFits
<1>4. Allocated(mem, n) \subseteq Free(mem)
  <2> HIDE DEF mem
  <2> QED BY <1>2, <1>3, AllocatedWasFree
<1>5. FileBuffer(n) = Allocated(mem, n)
  BY DEF FileBuffer
<1> HIDE DEF mem
<1> QED BY <1>2, <1>4, <1>5

LEMMA BootLoadKernelFile ==
  ASSUME BootInv, LoadKernelFile
  PROVE  BootInv'
<1>1. stage = "kernel_file" /\ stage \in LoaderStages
  BY DEF LoadKernelFile, LoaderStages
<1>2. CASE Abort("file") \/ Abort("memory")
  BY <1>1, <1>2, BootAbort
<1> DEFINE B == FileBuffer(machine.elf)
<1>3. CASE /\ load_file(machine.elf) /\ ~kernel_elf_parse_loadable_segments_fails /\ stage' = "root"
           /\ loaded' = [loaded EXCEPT !.elf = B]
           /\ UNCHANGED <<machine, events, info, tables, ttbr1, kernelVars, asked, cause>>
  <2>1. /\ FileFits(machine.elf) /\ efi' = Give(efi, B, "loaderData")
        /\ stage' = "root" /\ UNCHANGED <<machine, info, tables, regions, kmap, cause>>
    BY <1>3 DEF load_file, kernelVars
  <2>2. IsMemory(efi) /\ IsLoaded(loaded)
    BY DEF BootInv, ShapeInv
  <2>3. B \subseteq Free(efi)
    BY <2>1, <2>2, FilePages
  <2> HIDE DEF B
  <2>4. IsMemory(efi') /\ LoaderPages(efi') = LoaderPages(efi) \cup B /\ B \cap LoaderPages(efi) = {}
    BY <2>1, <2>2, <2>3, TakenPages
  <2>5. loaded' = [elf |-> B, segments |-> loaded.segments, modules |-> loaded.modules, kept |-> loaded.kept]
    BY <1>3, <2>2 DEF IsLoaded
  <2>6. IsLoaded(loaded') /\ loaded'.elf = B /\ loaded'.segments = loaded.segments /\ loaded'.kept = loaded.kept
    BY <2>5 DEF IsLoaded
  <2>7. SegmentsInv'
    <3>1. loaded.segments = 0
      BY <1>1 DEF BootInv, SegmentsInv
    <3>2. Segments' = Segments
      BY <2>1, SegmentsSame
    <3>3. Len(Segments) # 0
      BY <1>3 DEF kernel_elf_parse_loadable_segments_fails
    <3> QED BY <2>1, <2>6, <3>1, <3>2, <3>3 DEF SegmentsInv
  <2>8. KeptInv'
    <3>1. loaded.kept \subseteq LoaderPages(efi) /\ DOMAIN tables \subseteq LoaderPages(efi)
      BY <1>1 DEF BootInv, KeptInv
    <3> QED BY <2>1, <2>4, <2>6, <3>1 DEF KeptInv
  <2>9. stage' \in LoaderStages \ {"buffer", "get", "exit"}
    BY <2>1 DEF LoaderStages
  <2> QED BY <1>1, <2>1, <2>4, <2>6, <2>7, <2>8, <2>9, BootEarly
<1> QED BY <1>2, <1>3 DEF LoadKernelFile, load_file_fails

LEMMA BootAllocateTable ==
  ASSUME BootInv, virtual_addr_allocate_table
  PROVE  BootInv'
<1>1. stage = "root" /\ stage \in LoaderStages
  BY DEF virtual_addr_allocate_table, LoaderStages
<1>2. CASE Free(efi) = {} /\ Abort("memory")
  BY <1>1, <1>2, BootAbort
<1> DEFINE page == Max(Free(efi))
<1>3. CASE /\ Free(efi) # {}
           /\ efi' = Give(efi, {page}, "loaderData") /\ tables' = Put(tables, page, EmptyTable) /\ ttbr1' = page
           /\ fresh' = FALSE /\ stage' = "segments"
           /\ UNCHANGED <<machine, events, loaded, info, kernelVars, asked, cause>>
  <2>1. UNCHANGED <<machine, loaded, info, regions, kmap, cause>>
    BY <1>3 DEF kernelVars
  <2>2. IsMemory(efi) /\ IsLoaded(loaded)
    BY DEF BootInv, ShapeInv
  <2>3. page \in Free(efi)
    BY <1>3, <2>2, FreePages
  <2>4. DOMAIN tables' = DOMAIN tables \cup {page}
    BY <1>3 DEF Put
  <2> HIDE DEF page
  <2>5. IsMemory(efi') /\ LoaderPages(efi') = LoaderPages(efi) \cup {page} /\ {page} \cap LoaderPages(efi) = {}
    BY <1>3, <2>2, <2>3, TakenPages
  <2>6. SegmentsInv'
    <3>1. loaded.segments = 0 /\ Len(Segments) # 0
      BY <1>1 DEF BootInv, SegmentsInv
    <3>2. Segments' = Segments
      BY <2>1, SegmentsSame
    <3>3. Len(Segments) \in Nat
      BY <1>1, SegmentsAre DEF BootInv, LoaderInv
    <3> QED BY <1>3, <2>1, <3>1, <3>2, <3>3 DEF SegmentsInv
  <2>7. KeptInv'
    <3>1. /\ loaded.kept \subseteq LoaderPages(efi) /\ DOMAIN tables \subseteq LoaderPages(efi)
          /\ loaded.elf \subseteq LoaderPages(efi) /\ loaded.elf \cap (loaded.kept \cup DOMAIN tables) = {}
      BY <1>1 DEF BootInv, KeptInv
    <3> QED BY <1>3, <2>1, <2>4, <2>5, <3>1 DEF KeptInv
  <2>8. stage' \in LoaderStages \ {"buffer", "get", "exit"}
    BY <1>3 DEF LoaderStages
  <2>9. IsLoaded(loaded')
    BY <2>1, <2>2
  <2> QED BY <1>1, <2>1, <2>5, <2>6, <2>7, <2>8, <2>9, BootEarly
<1> QED BY <1>2, <1>3 DEF virtual_addr_allocate_table

LEMMA PlaceLoaded ==
  ASSUME BootInv, NEW n, NEW v, Place(n, v, "loaderData")
  PROVE  /\ IsLoaded(loaded') /\ loaded'.elf = loaded.elf /\ loaded'.segments = loaded.segments + 1
         /\ loaded'.kept = loaded.kept \cup Map(n, v, "loaderData").frames
<1> DEFINE F == Map(n, v, "loaderData").frames
<1>1. loaded' = [loaded EXCEPT !.segments = @ + 1, !.kept = @ \cup F]
  BY DEF Place
<1> HIDE DEF F
<1>2. IsLoaded(loaded)
  BY DEF BootInv, ShapeInv
<1>3. loaded' = [elf |-> loaded.elf, segments |-> loaded.segments + 1, modules |-> loaded.modules,
                 kept |-> loaded.kept \cup F]
  BY <1>1, <1>2 DEF IsLoaded
<1>4. IsLoaded(loaded') /\ loaded'.elf = loaded.elf /\ loaded'.segments = loaded.segments + 1
        /\ loaded'.kept = loaded.kept \cup F
  BY <1>3 DEF IsLoaded
<1> QED BY <1>4 DEF F

LEMMA BootPlace ==
  ASSUME BootInv, stage \in LoaderStages, NEW n \in Nat, NEW v, Place(n, v, "loaderData"),
         stage' \in {"segments", "stack", "modules"},
         UNCHANGED <<machine, info, regions, kmap, cause>>, SegmentsInv'
  PROVE  BootInv'
<1> DEFINE m == Map(n, v, "loaderData")
<1>1. Fits(efi, n) # {} /\ efi' = m.efi /\ tables' = m.pt.tables
  BY Zenon DEF Place
<1>2. IsMemory(efi)
  BY DEF BootInv, ShapeInv
<1>3. /\ IsMemory(m.efi)
      /\ LoaderPages(efi) \cup m.frames \subseteq LoaderPages(m.efi)
      /\ m.frames \cap LoaderPages(efi) = {}
      /\ DOMAIN m.pt.tables \subseteq DOMAIN tables \cup (LoaderPages(m.efi) \ LoaderPages(efi))
  BY <1>1, <1>2, MapTakes
<1>4. IsLoaded(loaded') /\ loaded'.elf = loaded.elf /\ loaded'.kept = loaded.kept \cup m.frames
  BY PlaceLoaded
<1> HIDE DEF m
<1>5. /\ loaded.kept \subseteq LoaderPages(efi) /\ DOMAIN tables \subseteq LoaderPages(efi)
      /\ loaded.elf \subseteq LoaderPages(efi) /\ loaded.elf \cap (loaded.kept \cup DOMAIN tables) = {}
  BY DEF BootInv, KeptInv
<1>6. /\ loaded'.kept \subseteq LoaderPages(efi') /\ DOMAIN tables' \subseteq LoaderPages(efi')
      /\ loaded'.elf \subseteq LoaderPages(efi') /\ loaded'.elf \cap (loaded'.kept \cup DOMAIN tables') = {}
  BY <1>1, <1>3, <1>4, <1>5
<1>7. KeptInv'
  BY <1>6 DEF KeptInv
<1>8. stage' \in LoaderStages \ {"buffer", "get", "exit"}
  BY DEF LoaderStages
<1>9. IsMemory(efi')
  BY <1>1, <1>3
<1> QED BY <1>4, <1>7, <1>8, <1>9, BootEarly

LEMMA BootLoaderLoad ==
  ASSUME BootInv, kernel_loader_load
  PROVE  BootInv'
<1> DEFINE n == Segments[loaded.segments + 1].memory
           v == ImageBase + Segments[loaded.segments + 1].at
<1>1. stage = "segments" /\ stage \in LoaderStages
  BY DEF kernel_loader_load, LoaderStages
<1>2. CASE Abort("memory")
  BY <1>1, <1>2, BootAbort
<1>3. CASE /\ Place(n, v, "loaderData")
           /\ stage' = IF loaded.segments + 1 = Len(Segments) THEN "stack" ELSE "segments"
           /\ UNCHANGED <<machine, events, info, ttbr1, kernelVars, cause>>
  <2>1. UNCHANGED <<machine, info, regions, kmap, cause>>
    BY <1>3 DEF kernelVars
  <2>2. loaded.segments \in Nat /\ loaded.segments + 1 <= Len(Segments)
    BY <1>1 DEF BootInv, SegmentsInv
  <2>3. /\ Len(Segments) \in Nat /\ DOMAIN Segments = 1..Len(Segments)
        /\ \A k \in DOMAIN Segments : Segments[k].memory \in Nat
    BY <1>1, SegmentsAre DEF BootInv, LoaderInv
  <2>4. loaded.segments + 1 \in DOMAIN Segments
    BY <2>2, <2>3
  <2>5. n \in Nat
    BY <2>3, <2>4
  <2>6. loaded'.segments = loaded.segments + 1
    BY <1>3, PlaceLoaded
  <2>7. Segments' = Segments
    BY <2>1, SegmentsSame
  <2>8. SegmentsInv'
    BY <1>3, <2>2, <2>3, <2>6, <2>7 DEF SegmentsInv
  <2>9. stage' \in {"segments", "stack", "modules"}
    BY <1>3
  <2> HIDE DEF n, v
  <2> QED BY <1>1, <1>3, <2>1, <2>5, <2>8, <2>9, BootPlace
<1> QED BY <1>2, <1>3 DEF kernel_loader_load

LEMMA BootMapStack ==
  ASSUME BootInv, MapStack
  PROVE  BootInv'
<1>1. stage = "stack" /\ stage \in LoaderStages
  BY DEF MapStack, LoaderStages
<1>2. CASE Abort("memory")
  BY <1>1, <1>2, BootAbort
<1>3. CASE /\ Place(StackPages, StackBase, "loaderData") /\ stage' = "modules"
           /\ UNCHANGED <<machine, events, info, ttbr1, kernelVars, cause>>
  <2>1. UNCHANGED <<machine, info, regions, kmap, cause>>
    BY <1>3 DEF kernelVars
  <2>2. SegmentsInv' /\ stage' \in {"segments", "stack", "modules"}
    BY <1>3 DEF SegmentsInv
  <2>3. StackPages \in Nat
    BY BootAssumption
  <2> QED BY <1>1, <1>3, <2>1, <2>2, <2>3, BootPlace
<1> QED BY <1>2, <1>3 DEF MapStack

LEMMA BootLoadModule ==
  ASSUME BootInv, load_boot_module
  PROVE  BootInv'
<1> DEFINE n == machine.modules[Len(loaded.modules) + 1]
           B == FileBuffer(n)
<1>1. stage = "modules" /\ stage \in LoaderStages
  BY DEF load_boot_module, LoaderStages
<1>2. CASE Abort("file") \/ Abort("memory")
  BY <1>1, <1>2, BootAbort
<1>3. CASE /\ load_file(n)
           /\ loaded' = [loaded EXCEPT !.modules = Append(@, B), !.kept = @ \cup B]
           /\ stage' = IF Len(loaded'.modules) = Len(machine.modules) THEN "boot_info" ELSE "modules"
           /\ UNCHANGED <<machine, events, info, tables, ttbr1, kernelVars, asked, cause>>
  <2>1. /\ FileFits(n) /\ efi' = Give(efi, B, "loaderData")
        /\ UNCHANGED <<machine, info, tables, regions, kmap, cause>>
    BY <1>3 DEF load_file, kernelVars
  <2>2. IsMemory(efi) /\ IsLoaded(loaded)
    BY DEF BootInv, ShapeInv
  <2> HIDE DEF n
  <2>3. B \subseteq Free(efi)
    BY <2>1, <2>2, FilePages
  <2> HIDE DEF B
  <2>4. IsMemory(efi') /\ LoaderPages(efi') = LoaderPages(efi) \cup B /\ B \cap LoaderPages(efi) = {}
    BY <2>1, <2>2, <2>3, TakenPages
  <2>5. loaded' = [elf |-> loaded.elf, segments |-> loaded.segments, modules |-> Append(loaded.modules, B),
                   kept |-> loaded.kept \cup B]
    BY <1>3, <2>2 DEF IsLoaded
  <2>6. IsLoaded(loaded') /\ loaded'.elf = loaded.elf /\ loaded'.kept = loaded.kept \cup B
    BY <2>5 DEF IsLoaded
  <2>7. stage' \in {"modules", "boot_info"}
    BY <1>3
  <2>8. SegmentsInv' /\ stage' \in LoaderStages \ {"buffer", "get", "exit"}
    BY <2>7 DEF SegmentsInv, LoaderStages
  <2>9. KeptInv'
    <3>1. /\ loaded.kept \subseteq LoaderPages(efi) /\ DOMAIN tables \subseteq LoaderPages(efi)
          /\ loaded.elf \subseteq LoaderPages(efi) /\ loaded.elf \cap (loaded.kept \cup DOMAIN tables) = {}
      BY <1>1 DEF BootInv, KeptInv
    <3> QED BY <2>1, <2>4, <2>6, <3>1 DEF KeptInv
  <2> QED BY <1>1, <2>1, <2>4, <2>6, <2>8, <2>9, BootEarly
<1> QED BY <1>2, <1>3 DEF load_boot_module, load_file_fails

LEMMA BootCopyInfo ==
  ASSUME BootInv, CopyBootInfo
  PROVE  BootInv'
<1> DEFINE A == Allocated(efi, 1)
           got == Give(efi, A, "loaderData")
<1>1. stage = "boot_info" /\ stage \in LoaderStages
  BY DEF CopyBootInfo, LoaderStages
<1>2. CASE Abort("memory")
  BY <1>1, <1>2, BootAbort
<1>3. CASE /\ Free(efi) # {}
           /\ efi' = Give(got, loaded.elf, "conventional")
           /\ loaded' = [loaded EXCEPT !.elf = {}, !.kept = @ \cup A]
           /\ fresh' = FALSE /\ stage' = "size"
           /\ UNCHANGED <<machine, events, info, tables, ttbr1, kernelVars, asked, cause>>
  <2>1. UNCHANGED <<machine, info, tables, regions, kmap, cause>>
    BY <1>3 DEF kernelVars
  <2>2. IsMemory(efi) /\ IsLoaded(loaded)
    BY DEF BootInv, ShapeInv
  <2>3. A \subseteq Free(efi)
    BY <1>3, <2>2, AllocatedPage
  <2> HIDE DEF A
  <2>4. IsMemory(got) /\ LoaderPages(got) = LoaderPages(efi) \cup A /\ A \cap LoaderPages(efi) = {}
    BY <2>2, <2>3, TakenPages
  <2> HIDE DEF got
  <2>5. IsMemory(efi') /\ LoaderPages(efi') = LoaderPages(got) \ loaded.elf
    BY <1>3, <2>4, ReturnedPages
  <2>6. loaded' = [elf |-> {}, segments |-> loaded.segments, modules |-> loaded.modules, kept |-> loaded.kept \cup A]
    BY <1>3, <2>2 DEF IsLoaded
  <2>7. IsLoaded(loaded') /\ loaded'.elf = {} /\ loaded'.kept = loaded.kept \cup A
    BY <2>6 DEF IsLoaded
  <2>8. SegmentsInv' /\ stage' \in LoaderStages \ {"buffer", "get", "exit"}
    BY <1>3 DEF SegmentsInv, LoaderStages
  <2>9. KeptInv'
    <3>1. /\ loaded.kept \subseteq LoaderPages(efi) /\ DOMAIN tables \subseteq LoaderPages(efi)
          /\ loaded.elf \subseteq LoaderPages(efi) /\ loaded.elf \cap (loaded.kept \cup DOMAIN tables) = {}
      BY <1>1 DEF BootInv, KeptInv
    <3>2. loaded'.kept \subseteq LoaderPages(efi') /\ DOMAIN tables' \subseteq LoaderPages(efi')
      BY <2>1, <2>4, <2>5, <2>7, <3>1
    <3> QED BY <2>7, <3>2 DEF KeptInv
  <2> QED BY <1>1, <2>1, <2>5, <2>7, <2>8, <2>9, BootEarly
<1> QED BY <1>2, <1>3 DEF CopyBootInfo

-----------------------------------------------------------------------------
(* Leaving the firmware.                                                   *)

\* The descriptors of memory are counted by a natural number.
LEMMA DescriptorCount ==
  ASSUME NEW mem, IsMemory(mem)
  PROVE  Len(Descriptors(mem)) \in Nat
BY DescriptorsAre DEF MapOf

\* What a step that only reads the memory map leaves as it was.
LEMMA BootReads ==
  ASSUME BootInv, stage \in LoaderStages, stage' \in {"buffer", "exit", "get", "reserve"},
         UNCHANGED <<machine, efi, loaded, tables, regions, kmap, cause>>,
         IsInfo(info'), info'.size \in Nat, HandedInv', QuietInv'
  PROVE  BootInv'
<1>1. ShapeInv'
  BY DEF BootInv, ShapeInv
<1>2. LoaderInv' /\ SegmentsInv'
  BY DEF BootInv, LoaderInv, SegmentsInv
<1>3. KeptInv'
  <2>1. /\ loaded.kept \subseteq LoaderPages(efi) /\ DOMAIN tables \subseteq LoaderPages(efi)
        /\ loaded.elf \subseteq LoaderPages(efi) /\ loaded.elf \cap (loaded.kept \cup DOMAIN tables) = {}
    BY DEF BootInv, KeptInv
  <2> QED BY <2>1 DEF KeptInv
<1>4. RegionsInv'
  BY DEF RegionsInv, MapBuilt
<1> QED BY <1>1, <1>2, <1>3, <1>4 DEF BootInv

LEMMA BootQuerySize ==
  ASSUME BootInv, QuerySize
  PROVE  BootInv'
<1> DEFINE n == Len(Descriptors(efi))
<1>1. /\ stage = "size" /\ stage' = "buffer" /\ stage \in LoaderStages
      /\ info' = [info EXCEPT !.size = n + Slack, !.quiet = TRUE]
      /\ UNCHANGED <<machine, efi, loaded, tables, regions, kmap, cause>>
  BY DEF QuerySize, kernelVars, LoaderStages
<1>2. IsMemory(efi) /\ IsInfo(info)
  BY DEF BootInv, ShapeInv
<1>3. n \in Nat
  BY <1>2, DescriptorCount
<1>4. info' = [map |-> info.map, size |-> n + Slack, quiet |-> TRUE]
  <2> HIDE DEF n
  <2> QED BY <1>1, <1>2 DEF IsInfo
<1>5. IsInfo(info') /\ info'.size = n + Slack
  <2> HIDE DEF n
  <2> QED BY <1>4 DEF IsInfo
<1>6. info'.size \in Nat /\ info'.size = Len(Descriptors(efi')) + Slack /\ Len(Descriptors(efi')) + Slack <= info'.size
  <2>1. n = Len(Descriptors(efi'))
    BY <1>1
  <2> HIDE DEF n
  <2> QED BY <1>3, <1>5, <2>1, BootAssumption
<1>7. HandedInv'
  BY <1>1 DEF HandedInv, InKernel
<1>8. QuietInv'
  <2>1. cause # "map"
    BY <1>1 DEF BootInv, QuietInv
  <2> QED BY <1>1, <1>6, <2>1 DEF QuietInv
<1> QED BY <1>1, <1>5, <1>6, <1>7, <1>8, BootReads

LEMMA BootAllocateBuffer ==
  ASSUME BootInv, AllocateBuffer
  PROVE  BootInv'
<1> DEFINE A == Allocated(efi, 1)
<1>1. stage = "buffer" /\ stage \in LoaderStages
  BY DEF AllocateBuffer, LoaderStages
<1>2. CASE Abort("memory")
  BY <1>1, <1>2, BootAbort
<1>3. CASE /\ Free(efi) # {}
           /\ efi' = Give(efi, A, "loaderData")
           /\ loaded' = [loaded EXCEPT !.kept = @ \cup A]
           /\ fresh' = FALSE /\ stage' = "get"
           /\ UNCHANGED <<machine, events, info, tables, ttbr1, kernelVars, asked, cause>>
  <2>1. UNCHANGED <<machine, info, tables, regions, kmap, cause>>
    BY <1>3 DEF kernelVars
  <2>2. IsMemory(efi) /\ IsLoaded(loaded) /\ IsInfo(info) /\ info.size \in Nat
    BY DEF BootInv, ShapeInv
  <2>3. PICK p \in Free(efi) : A = {p}
    BY <1>3, <2>2, AllocatedPage
  <2> HIDE DEF A
  <2>4. IsMemory(efi') /\ LoaderPages(efi') = LoaderPages(efi) \cup A /\ A \cap LoaderPages(efi) = {}
    BY <1>3, <2>2, <2>3, TakenPages
  <2>5. loaded' = [elf |-> loaded.elf, segments |-> loaded.segments, modules |-> loaded.modules,
                   kept |-> loaded.kept \cup A]
    BY <1>3, <2>2 DEF IsLoaded
  <2>6. IsLoaded(loaded') /\ loaded'.elf = loaded.elf /\ loaded'.kept = loaded.kept \cup A
    BY <2>5 DEF IsLoaded
  <2>7. ShapeInv'
    BY <2>1, <2>2, <2>4, <2>6 DEF ShapeInv
  <2>8. LoaderInv'
    BY <1>1, <2>1 DEF BootInv, LoaderInv
  <2>9. SegmentsInv'
    BY <1>3 DEF SegmentsInv
  <2>10. KeptInv'
    <3>1. /\ loaded.kept \subseteq LoaderPages(efi) /\ DOMAIN tables \subseteq LoaderPages(efi)
          /\ loaded.elf \subseteq LoaderPages(efi) /\ loaded.elf \cap (loaded.kept \cup DOMAIN tables) = {}
      BY <1>1 DEF BootInv, KeptInv
    <3> QED BY <2>1, <2>4, <2>6, <3>1 DEF KeptInv
  <2>11. HandedInv' /\ RegionsInv'
    BY <1>3 DEF HandedInv, RegionsInv, InKernel, MapBuilt
  <2>12. QuietInv'
    <3>1. cause # "map"
      BY <1>1 DEF BootInv, QuietInv
    <3>2. info.quiet => Len(Descriptors(efi)) + Slack <= info.size
      BY <1>1 DEF BootInv, QuietInv
    <3>3. p \in DOMAIN efi
      BY DEF Free
    <3>4. Len(Descriptors(efi')) <= Len(Descriptors(efi)) + 2
      BY <1>3, <2>2, <2>3, <3>3, TwoMoreDescriptors DEF PageTypes
    <3>5. Len(Descriptors(efi)) \in Nat /\ Len(Descriptors(efi')) \in Nat
      BY <2>2, <2>4, DescriptorCount
    <3>6. info.quiet => Len(Descriptors(efi')) <= info.size
      BY <2>2, <3>2, <3>4, <3>5, BootAssumption
    <3> QED BY <1>3, <2>1, <3>1, <3>6 DEF QuietInv
  <2> QED BY <2>7, <2>8, <2>9, <2>10, <2>11, <2>12 DEF BootInv
<1> QED BY <1>2, <1>3 DEF AllocateBuffer

LEMMA BootGetMemoryMap ==
  ASSUME BootInv, GetMemoryMap
  PROVE  BootInv'
<1> DEFINE map == Descriptors(efi)
<1>1. stage = "get" /\ stage \in LoaderStages
  BY DEF GetMemoryMap, LoaderStages
<1>2. IsMemory(efi) /\ IsInfo(info) /\ info.size \in Nat
  BY DEF BootInv, ShapeInv
<1>3. Len(map) \in Nat
  BY <1>2, DescriptorCount
<1>4. CASE Len(map) > info.size /\ Abort("map")
  <2>1. info.quiet => Len(map) <= info.size
    BY <1>1 DEF BootInv, QuietInv
  <2>2. ~info.quiet
    <3> HIDE DEF map
    <3> QED BY <1>2, <1>3, <1>4, <2>1
  <2> QED BY <1>1, <1>4, <2>2, BootAbort
<1>5. CASE /\ Len(map) <= info.size
           /\ info' = [info EXCEPT !.map = map, !.size = Len(map)]
           /\ fresh' = TRUE /\ stage' = "exit"
           /\ UNCHANGED <<machine, efi, events, loaded, tables, ttbr1, kernelVars, asked, cause>>
  <2>1. UNCHANGED <<machine, efi, loaded, tables, regions, kmap, cause>>
    BY <1>5 DEF kernelVars
  <2>2. info' = [map |-> map, size |-> Len(map), quiet |-> info.quiet]
    <3> HIDE DEF map
    <3> QED BY <1>2, <1>5 DEF IsInfo
  <2>3. IsInfo(info') /\ info'.map = map /\ info'.size \in Nat
    <3> HIDE DEF map
    <3> QED BY <1>3, <2>2 DEF IsInfo
  <2>4. info'.map = Descriptors(efi')
    BY <2>1, <2>3
  <2>5. HandedInv'
    BY <2>4 DEF HandedInv
  <2>6. QuietInv'
    <3>1. cause # "map"
      BY <1>1 DEF BootInv, QuietInv
    <3> QED BY <1>5, <2>1, <3>1 DEF QuietInv
  <2>7. stage' \in {"buffer", "exit", "get", "reserve"}
    BY <1>5
  <2> QED BY <1>1, <2>1, <2>3, <2>5, <2>6, <2>7, BootReads
<1> QED BY <1>4, <1>5 DEF GetMemoryMap

LEMMA BootExit ==
  ASSUME BootInv, ExitBootServices
  PROVE  BootInv'
<1>1. /\ stage = "exit" /\ stage \in LoaderStages /\ stage' = IF fresh THEN "reserve" ELSE "get"
      /\ UNCHANGED <<machine, efi, fresh, loaded, info, tables, regions, kmap, cause>>
  BY DEF ExitBootServices, kernelVars, LoaderStages
<1>2. IsInfo(info') /\ info'.size \in Nat
  BY <1>1 DEF BootInv, ShapeInv
<1>3. HandedInv'
  BY <1>1 DEF BootInv, HandedInv, InKernel
<1>4. QuietInv'
  BY <1>1 DEF BootInv, QuietInv
<1>5. stage' \in {"buffer", "exit", "get", "reserve"}
  BY <1>1
<1> QED BY <1>1, <1>2, <1>3, <1>4, <1>5, BootReads

-----------------------------------------------------------------------------
(* The kernel.                                                             *)

\* What a step of the kernel leaves as it was.
LEMMA BootKernel ==
  ASSUME BootInv, InKernel, stage' \in {"memory_map", "tables", "kernel", "up"},
         UNCHANGED <<efi, loaded, info, cause>>,
         stage' \in {"memory_map", "tables"} => UNCHANGED tables /\ stage \in {"reserve", "memory_map"},
         RegionsInv'
  PROVE  BootInv'
<1>1. ShapeInv'
  BY DEF BootInv, ShapeInv
<1>2. LoaderInv' /\ SegmentsInv'
  BY DEF LoaderInv, SegmentsInv, LoaderStages
<1>3. KeptInv'
  <2>1. loaded.kept \subseteq LoaderPages(efi)
    BY DEF BootInv, KeptInv
  <2>2. stage' \in {"memory_map", "tables"} => DOMAIN tables \subseteq LoaderPages(efi)
    BY DEF BootInv, KeptInv
  <2> QED BY <2>1, <2>2 DEF KeptInv, LoaderStages
<1>4. HandedInv'
  BY DEF BootInv, HandedInv, InKernel
<1>5. QuietInv'
  <2>1. cause # "map"
    BY DEF BootInv, QuietInv, InKernel
  <2> QED BY <2>1 DEF QuietInv
<1> QED BY <1>1, <1>2, <1>3, <1>4, <1>5 DEF BootInv

LEMMA KernelPanic ==
  ASSUME BootInv, InKernel, Panic
  PROVE  BootInv'
<1>1. cause # "map"
  BY DEF BootInv, QuietInv, InKernel
<1> QED BY <1>1, BootPanic

LEMMA BootReserve ==
  ASSUME BootInv, ReserveMemory
  PROVE  BootInv'
<1> DEFINE r == mmap_reserve_memory(info.map)
<1>1. stage = "reserve" /\ InKernel
  BY DEF ReserveMemory, InKernel
<1>2. CASE Panic
  BY <1>1, <1>2, KernelPanic
<1>3. CASE /\ r.kmap # 0 /\ r.tables # 0 /\ regions' = r /\ stage' = "memory_map"
           /\ UNCHANGED <<machine, efi, events, fresh, loaded, info, tables, ttbr1, kmap, taken, asked, wild, cause>>
  <2>1. info.map = Descriptors(efi) /\ IsMemory(efi) /\ kmap = <<>>
    BY <1>1 DEF BootInv, HandedInv, ShapeInv, LoaderInv
  <2>2. MapOf(info.map, efi)
    BY <2>1, DescriptorsAre
  <2>3. RegionsOK(r, info.map)
    BY <1>3, <2>2, ReserveFinds
  <2> HIDE DEF r
  <2>4. RegionsInv'
    BY <1>3, <2>1, <2>3 DEF RegionsInv, MapBuilt
  <2>5. /\ stage' \in {"memory_map", "tables", "kernel", "up"} /\ UNCHANGED <<efi, loaded, info, cause>>
        /\ UNCHANGED tables
    BY <1>3
  <2> QED BY <1>1, <2>4, <2>5, BootKernel
<1> QED BY <1>2, <1>3 DEF ReserveMemory

LEMMA BootBuildMap ==
  ASSUME BootInv, BuildMemoryMap
  PROVE  BootInv'
<1> DEFINE map == mmap_build_memory_map(regions, info.map)
<1>1. stage = "memory_map" /\ InKernel
  BY DEF BuildMemoryMap, InKernel
<1>2. CASE Panic
  BY <1>1, <1>2, KernelPanic
<1>3. CASE /\ Len(map) <= KmapCapacity /\ kmap' = map /\ stage' = "tables"
           /\ UNCHANGED <<machine, efi, events, fresh, loaded, info, tables, ttbr1, pool, regions, taken, asked,
                          wild, cause>>
  <2>1. info.map = Descriptors(efi) /\ IsMemory(efi) /\ RegionsOK(regions, info.map)
    BY <1>1 DEF BootInv, HandedInv, ShapeInv, RegionsInv, InKernel
  <2>2. MapOf(info.map, efi)
    BY <2>1, DescriptorsAre
  <2>3. Partitions(efi, map, regions)
    BY <2>1, <2>2, BuildPartitions
  <2> HIDE DEF map
  <2>4. RegionsInv'
    BY <1>3, <2>1, <2>3 DEF RegionsInv, MapBuilt
  <2>5. /\ stage' \in {"memory_map", "tables", "kernel", "up"} /\ UNCHANGED <<efi, loaded, info, cause>>
        /\ UNCHANGED tables
    BY <1>3
  <2> QED BY <1>1, <2>4, <2>5, BootKernel
<1> QED BY <1>2, <1>3 DEF BuildMemoryMap

\* A step after the map is built changes only the tables and what is taken.
LEMMA BootLater ==
  ASSUME BootInv, stage \in {"tables", "kernel"}, stage' \in {"kernel", "up"},
         UNCHANGED <<efi, loaded, info, regions, kmap, cause>>
  PROVE  BootInv'
<1>1. InKernel /\ RegionsOK(regions, info.map) /\ Partitions(efi, kmap, regions)
  BY DEF BootInv, RegionsInv, InKernel, MapBuilt
<1>2. RegionsInv'
  BY <1>1 DEF RegionsInv, MapBuilt
<1> QED BY <1>1, <1>2, BootKernel

LEMMA BootBuildTables ==
  ASSUME BootInv, BuildTables
  PROVE  BootInv'
<1>1. stage = "tables" /\ InKernel
  BY DEF BuildTables, InKernel
<1>2. CASE Panic
  BY <1>1, <1>2, KernelPanic
<1>3. CASE stage' = "kernel" /\ UNCHANGED <<machine, efi, events, fresh, loaded, info, regions, kmap, taken, wild, cause>>
  BY <1>1, <1>3, BootLater
<1> QED BY <1>2, <1>3, Zenon DEF BuildTables

\* kernel_main's calls and the growing heap.
LEMMA KernelMainSteps ==
  ASSUME kernel_main
  PROVE  \/ stage = "kernel" /\ Panic
         \/ stage = "kernel" /\ UNCHANGED <<stage, efi, loaded, info, regions, kmap, cause>>
<1>1. stage = "kernel"
  BY DEF kernel_main
<1>2. ASSUME NEW mapped, NEW p, NEW v, NEW n, NEW used, Mapped(mapped, p, v, n, used), Return
      PROVE  UNCHANGED <<stage, efi, loaded, info, regions, kmap, cause>>
  BY <1>2 DEF Mapped, Return
<1>3. ASSUME NEW d, NEW base, map_device(d, base)
      PROVE  Panic \/ UNCHANGED <<stage, efi, loaded, info, regions, kmap, cause>>
  BY <1>2, <1>3, Zenon DEF map_device
<1>4. ASSUME page_alloc_init
      PROVE  Panic \/ UNCHANGED <<stage, efi, loaded, info, regions, kmap, cause>>
  BY <1>4 DEF page_alloc_init, Return, kernelVars
<1>5. ASSUME kernel_heap_init
      PROVE  Panic \/ UNCHANGED <<stage, efi, loaded, info, regions, kmap, cause>>
  BY <1>2, <1>5, Zenon DEF kernel_heap_init
<1>6. ASSUME xhci_allocate_heap
      PROVE  Panic \/ UNCHANGED <<stage, efi, loaded, info, regions, kmap, cause>>
  BY <1>2, <1>6, Zenon DEF xhci_allocate_heap
<1> QED BY <1>1, <1>3, <1>4, <1>5, <1>6, Zenon DEF kernel_main

LEMMA BootKernelMain ==
  ASSUME BootInv, kernel_main
  PROVE  BootInv'
<1>1. CASE stage = "kernel" /\ Panic
  BY <1>1, KernelPanic DEF InKernel
<1>2. CASE stage = "kernel" /\ UNCHANGED <<stage, efi, loaded, info, regions, kmap, cause>>
  BY <1>2, BootLater
<1> QED BY <1>1, <1>2, KernelMainSteps

LEMMA BootGrowHeap ==
  ASSUME BootInv, GrowHeap
  PROVE  BootInv'
<1>1. ASSUME NEW mapped, NEW p, NEW v, NEW n, NEW used, Mapped(mapped, p, v, n, used)
      PROVE  UNCHANGED <<efi, info, regions, kmap, cause>>
  BY <1>1 DEF Mapped
<1>2. UNCHANGED <<efi, info, regions, kmap, cause>>
  BY <1>1, Zenon DEF GrowHeap
<1>3. stage = "kernel" /\ UNCHANGED <<stage, loaded>>
  BY DEF GrowHeap
<1> QED BY <1>2, <1>3, BootLater

LEMMA BootLoadModules ==
  ASSUME BootInv, LoadModules
  PROVE  BootInv'
<1>1. stage = "kernel" /\ InKernel
  BY DEF LoadModules, InKernel
<1>2. CASE Panic
  BY <1>1, <1>2, KernelPanic
<1>3. CASE /\ stage' = "up"
           /\ UNCHANGED <<machine, efi, events, fresh, loaded, info, tables, ttbr1, kernelVars, asked, cause>>
  <2>1. stage' = "up" /\ UNCHANGED <<efi, loaded, info, regions, kmap, cause>>
    BY <1>3 DEF kernelVars
  <2> QED BY <1>1, <2>1, BootLater
<1> QED BY <1>2, <1>3 DEF LoadModules

LEMMA BootStutter ==
  ASSUME BootInv, UNCHANGED vars
  PROVE  BootInv'
<1>1. UNCHANGED <<machine, efi, fresh, stage, loaded, info, tables, regions, kmap, cause>>
  BY DEF vars
<1>2. Segments' = Segments
  BY <1>1, SegmentsSame
<1> QED BY <1>1, <1>2 DEF BootInv, ShapeInv, LoaderInv, SegmentsInv, KeptInv, HandedInv, QuietInv, RegionsInv,
                          InKernel, MapBuilt

LEMMA BootNext ==
  ASSUME BootInv, [Next]_vars
  PROVE  BootInv'
<1>1. CASE FirmwareEvent
  BY <1>1, BootFirmwareEvent
<1>2. CASE Loader
  BY <1>2, BootLoadKernelFile, BootAllocateTable, BootLoaderLoad, BootMapStack, BootLoadModule, BootCopyInfo,
     BootQuerySize, BootAllocateBuffer, BootGetMemoryMap, BootExit DEF Loader
<1>3. CASE Kernel
  BY <1>3, BootReserve, BootBuildMap, BootBuildTables, BootKernelMain, BootLoadModules DEF Kernel
<1>4. CASE GrowHeap
  BY <1>4, BootGrowHeap
<1>5. CASE UNCHANGED vars
  BY <1>5, BootStutter
<1> QED BY <1>1, <1>2, <1>3, <1>4, <1>5 DEF Next

LEMMA BootInvariant == Spec => []BootInv
<1>1. Init => BootInv
  BY BootInit
<1>2. BootInv /\ [Next]_vars => BootInv'
  BY BootNext
<1> QED BY <1>1, <1>2, PTL DEF Spec

-----------------------------------------------------------------------------
(* The theorems.                                                           *)

(***************************************************************************)
(* The memory map the kernel gets from exit_boot_services describes the    *)
(* memory as the firmware left it, whatever its events did meanwhile.      *)
(***************************************************************************)
THEOREM HandedMapIsCurrent == Spec => []HandedMapCurrent
<1>1. BootInv => HandedMapCurrent
  BY DEF BootInv, HandedInv, HandedMapCurrent
<1> QED BY <1>1, BootInvariant, PTL

(***************************************************************************)
(* mmap_build_memory_map divides the memory: every page is in one entry,   *)
(* and usable is what the firmware left without mmap's two regions,        *)
(* wherever mmap_reserve_memory found room for them.                       *)
(***************************************************************************)
THEOREM MapPartitionsMemory == Spec => []MemoryMapPartitions
<1>1. BootInv => MemoryMapPartitions
  BY Zenon DEF BootInv, RegionsInv, Partitions, MemoryMapPartitions, UsableTypes, Kept
<1> QED BY <1>1, BootInvariant, PTL

(***************************************************************************)
(* What the loader leaves for the kernel is neither in mmap's regions nor  *)
(* in the memory page_alloc_init hands out.                                *)
(***************************************************************************)
THEOREM LoaderDataIsKept == Spec => []LoaderDataKept
<1> DEFINE needed == loaded.kept \cup (IF stage \in {"reserve", "memory_map", "tables"} THEN DOMAIN tables ELSE {})
           used == KmapRegion(regions) \cup TableRegion(regions) \cup UsablePages(kmap)
<1>1. ASSUME BootInv, InKernel PROVE needed \cap used = {}
  <2>1. needed \subseteq LoaderPages(efi)
    BY <1>1 DEF BootInv, KeptInv
  <2>2. \A p \in used : p \in DOMAIN efi /\ efi[p] \in UsableTypes
    <3>1. CASE stage = "reserve"
      <4>1. regions = [kmap |-> 0, tables |-> 0] /\ kmap = <<>>
        BY <1>1, <3>1 DEF BootInv, LoaderInv
      <4>2. KmapRegion(regions) = {} /\ TableRegion(regions) = {}
        BY <4>1 DEF KmapRegion, TableRegion, Region
      <4>3. UsablePages(kmap) = {}
        BY <4>1 DEF UsablePages, Range
      <4> QED BY <4>2, <4>3
    <3>2. CASE stage # "reserve"
      <4>1. RegionsOK(regions, info.map) /\ info.map = Descriptors(efi) /\ IsMemory(efi)
        BY <1>1, <3>2 DEF BootInv, HandedInv, ShapeInv, RegionsInv, InKernel
      <4>2. MapOf(info.map, efi)
        BY <4>1, DescriptorsAre
      <4>3. \A p \in Kept(regions) : p \in DOMAIN efi /\ efi[p] \in UsableTypes
        BY <4>1, <4>2, RegionsUsable
      <4>4. \A p \in UsablePages(kmap) : p \in DOMAIN efi /\ efi[p] \in UsableTypes
        <5>1. CASE stage = "memory_map"
          <6>1. kmap = <<>>
            BY <1>1, <5>1 DEF BootInv, RegionsInv
          <6> QED BY <6>1 DEF UsablePages, Range
        <5>2. CASE MapBuilt
          <6>1. Partitions(efi, kmap, regions)
            BY <1>1, <5>2 DEF BootInv, RegionsInv
          <6> QED BY <6>1 DEF Partitions
        <5> QED BY <1>1, <3>2, <5>1, <5>2 DEF InKernel, MapBuilt
      <4> QED BY <4>3, <4>4 DEF Kept
    <3> QED BY <3>1, <3>2
  <2> HIDE DEF needed, used
  <2> QED BY <2>1, <2>2 DEF LoaderPages, UsableTypes
<1>2. BootInv => LoaderDataKept
  BY <1>1, Zenon DEF LoaderDataKept
<1> QED BY <1>2, BootInvariant, PTL

(***************************************************************************)
(* GetMemoryMap finds its buffer too small only when an event of the       *)
(* firmware changed the memory after the loader asked for the size: the    *)
(* room for two more descriptors covers the allocation of the buffer.      *)
(***************************************************************************)
THEOREM OnlyEventsOutgrowTheMap == Spec => []OnlyEventsOutgrowMap
<1>1. BootInv => OnlyEventsOutgrowMap
  BY DEF BootInv, QuietInv, OnlyEventsOutgrowMap
<1> QED BY <1>1, BootInvariant, PTL
=============================================================================
