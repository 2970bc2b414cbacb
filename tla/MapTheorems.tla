------------------------------- MODULE MapTheorems -------------------------------
(*********************************************************************************)
(* What the operators of Maps return, and those on sequences that the models     *)
(* take from SequencesExt, stated once for the proofs that use them.             *)
(*********************************************************************************)
EXTENDS Maps, SequencesExt, FiniteSetTheorems, SequenceTheorems, WellFoundedInduction, TLAPS

\* The map without entries is a map of any type (new Map()).
LEMMA EmptyMapIsMap ==
  ASSUME NEW K, NEW V
  PROVE  IsMap(EmptyMap, K, V)
BY DEF IsMap, EmptyMap

\* A map is a map of every larger type: of more ids drawn, for instance.
LEMMA IsMapMonotonic ==
  ASSUME NEW m, NEW K, NEW V, NEW L, NEW W, IsMap(m, K, V), K \subseteq L, V \subseteq W
  PROVE  IsMap(m, L, W)
BY DEF IsMap

\* map.set keeps the type, holds the new entry and leaves the others alone.
LEMMA WithProperties ==
  ASSUME NEW m, NEW K, NEW V, IsMap(m, K, V), NEW k \in K, NEW v \in V
  PROVE  /\ IsMap(With(m, k, v), K, V)
         /\ DOMAIN With(m, k, v) = DOMAIN m \cup {k}
         /\ With(m, k, v)[k] = v
         /\ \A j \in DOMAIN m : j # k => With(m, k, v)[j] = m[j]
BY DEF IsMap, With

\* map.delete keeps the type and the remaining entries.
LEMMA WithoutProperties ==
  ASSUME NEW m, NEW K, NEW V, IsMap(m, K, V), NEW S
  PROVE  /\ IsMap(Without(m, S), K, V)
         /\ DOMAIN Without(m, S) = DOMAIN m \ S
         /\ \A j \in DOMAIN m \ S : Without(m, S)[j] = m[j]
BY DEF IsMap, Without, Restrict

\* So does keeping some of the entries.
LEMMA RestrictProperties ==
  ASSUME NEW m, NEW K, NEW V, IsMap(m, K, V), NEW S \in SUBSET DOMAIN m
  PROVE  /\ IsMap(Restrict(m, S), K, V)
         /\ DOMAIN Restrict(m, S) = S
         /\ \A j \in S : Restrict(m, S)[j] = m[j]
BY DEF IsMap, Restrict

---------------------------------------------------------------------------------
(* Numbers, lists and filters.                                                   *)

\* The numbers up to n are n numbers.
LEMMA UpToN ==
  ASSUME NEW n \in Nat
  PROVE  /\ IsFiniteSet(1..n) /\ Cardinality(1..n) = n
         /\ IsFiniteSet(0..n) /\ Cardinality(0..n) = n + 1
<1>1. IsFiniteSet(1..n) /\ Cardinality(1..n) = IF 1 > n THEN 0 ELSE n - 1 + 1
  BY FS_Interval
<1>2. IsFiniteSet(0..n) /\ Cardinality(0..n) = IF 0 > n THEN 0 ELSE n - 0 + 1
  BY FS_Interval
<1> QED BY <1>1, <1>2

\* Numbers up to some limit have a least one: of the sets of those up to k, for each k
\* of them, one is minimal.
LEMMA Least ==
  ASSUME NEW n \in Nat, NEW S \in SUBSET (0..n), S # {}
  PROVE  \E k \in S : \A j \in S : k <= j
<1> DEFINE upTo(k) == {j \in S : j <= k}
           T == {upTo(k) : k \in S}
           R == StrictSubsetOrdering(S)
<1>1. IsFiniteSet(S)
  BY UpToN, FS_Subset
<1>2. IsWellFoundedOn(R, FiniteSubsetsOf(S))
  BY FS_StrictSubsetOrderingWellFounded
<1>3. T \subseteq FiniteSubsetsOf(S) /\ T # {}
  <2>1. ASSUME NEW k \in S PROVE upTo(k) \in FiniteSubsetsOf(S)
    <3>1. upTo(k) \in SUBSET S
      OBVIOUS
    <3> QED BY <1>1, <3>1, FS_Subset DEF FiniteSubsetsOf
  <2> QED BY <2>1
<1>4. \E x \in T : \A y \in T : ~ (<<y, x>> \in R)
  <2> HIDE DEF T, R
  <2> QED BY <1>2, <1>3, WFMin
<1>5. PICK k \in S : \A j \in S : ~ (<<upTo(j), upTo(k)>> \in R)
  BY <1>4
<1>6. ASSUME NEW j \in S, j < k PROVE FALSE
  <2>1. upTo(j) \subseteq upTo(k) /\ k \in upTo(k) /\ k \notin upTo(j)
    <3>1. \A i \in S : (i <= j => i <= k) /\ k <= k /\ ~ (k <= j)
      BY <1>6
    <3> QED BY <3>1
  <2>2. <<upTo(j), upTo(k)>> \in R
    <3>1. upTo(j) \in SUBSET S /\ upTo(k) \in SUBSET S /\ upTo(j) # upTo(k)
      BY <2>1
    <3> HIDE DEF upTo
    <3> QED BY <2>1, <3>1 DEF StrictSubsetOrdering
  <2> QED BY <1>5, <2>2
<1> QED BY <1>6

\* What pushing an entry on a list makes of it.
LEMMA PushProperties ==
  ASSUME NEW S, NEW list \in Seq(S), NEW e \in S
  PROVE  /\ Append(list, e) \in Seq(S) /\ Len(Append(list, e)) = Len(list) + 1
         /\ ToSet(Append(list, e)) = ToSet(list) \cup {e}
         /\ IsInjective(list) /\ e \notin ToSet(list) => IsInjective(Append(list, e))
<1> DEFINE all == Append(list, e)
           n == Len(list)
<1>1. /\ all \in Seq(S) /\ Len(all) = n + 1 /\ n \in Nat
      /\ \A i \in 1..n : all[i] = list[i]
      /\ all[n + 1] = e
  BY AppendProperties, LenProperties
<1> HIDE DEF all
<1>2. DOMAIN all = 1..(n + 1) /\ DOMAIN list = 1..n
  BY <1>1, LenProperties
<1> HIDE DEF n
<1>3. 1..(n + 1) = (1..n) \cup {n + 1} /\ n + 1 \notin 1..n
  BY <1>1
<1>4. ToSet(all) = ToSet(list) \cup {e}
  BY <1>1, <1>2, <1>3 DEF ToSet
<1>5. ASSUME IsInjective(list), e \notin ToSet(list) PROVE IsInjective(all)
  BY <1>1, <1>2, <1>3, <1>5 DEF IsInjective, ToSet
<1> QED BY <1>1, <1>4, <1>5 DEF all, n

\* What lies between two indices of a list.
LEMMA PartProperties ==
  ASSUME NEW S, NEW list \in Seq(S), NEW a \in Nat \ {0}, NEW n \in Nat, a <= n + 1, n <= Len(list)
  PROVE  /\ SubSeq(list, a, n) \in Seq(S) /\ Len(SubSeq(list, a, n)) = n - a + 1
         /\ ToSet(SubSeq(list, a, n)) = {list[i] : i \in a..n}
         /\ IsInjective(list) => IsInjective(SubSeq(list, a, n))
<1> DEFINE part == SubSeq(list, a, n)
<1>1. Len(list) \in Nat /\ DOMAIN list = 1..Len(list) /\ \A i \in 1..Len(list) : list[i] \in S
  BY LenProperties, ElementOfSeq
<1>2. /\ part \in Seq(S)
      /\ Len(part) = IF a <= n THEN n - a + 1 ELSE 0
      /\ \A i \in 1..(n - a + 1) : part[i] = list[a + i - 1]
  <2>1. a \in Int /\ n \in Int /\ \A i \in a..n : list[i] \in S
    BY <1>1
  <2> QED BY <2>1, SubSeqProperties
<1> HIDE DEF part
<1>3. Len(part) = n - a + 1 /\ DOMAIN part = 1..(n - a + 1)
  <2>1. Len(part) = n - a + 1
    BY <1>2
  <2> QED BY <1>2, <2>1, LenProperties
<1>4. ToSet(part) = {list[i] : i \in a..n}
  <2>1. ToSet(part) = {part[i] : i \in 1..(n - a + 1)}
    BY <1>3 DEF ToSet
  <2>2. ASSUME NEW i \in 1..(n - a + 1)
        PROVE  a + i - 1 \in a..n /\ part[i] = list[a + i - 1]
    BY <1>2
  <2>3. ASSUME NEW i \in a..n
        PROVE  i - a + 1 \in 1..(n - a + 1) /\ part[i - a + 1] = list[i]
    <3>1. i - a + 1 \in 1..(n - a + 1) /\ a + (i - a + 1) - 1 = i
      OBVIOUS
    <3> QED BY <1>2, <3>1
  <2>4. {part[i] : i \in 1..(n - a + 1)} \subseteq {list[i] : i \in a..n}
    BY <2>2
  <2>5. {list[i] : i \in a..n} \subseteq {part[i] : i \in 1..(n - a + 1)}
    BY <2>3
  <2> QED BY <2>1, <2>4, <2>5
<1>5. ASSUME IsInjective(list) PROVE IsInjective(part)
  <2> SUFFICES ASSUME NEW k \in 1..(n - a + 1), NEW l \in 1..(n - a + 1), part[k] = part[l] PROVE k = l
    BY <1>3 DEF IsInjective
  <2>1. a + k - 1 \in DOMAIN list /\ a + l - 1 \in DOMAIN list /\ list[a + k - 1] = list[a + l - 1]
    BY <1>1, <1>2
  <2>2. a + k - 1 = a + l - 1
    BY <1>5, <2>1 DEF IsInjective
  <2> QED BY <2>2
<1> QED BY <1>2, <1>3, <1>4, <1>5 DEF part

\* Cutting a list in two.
LEMMA CutProperties ==
  ASSUME NEW S, NEW list \in Seq(S), NEW m \in 0..Len(list)
  PROVE  /\ SubSeq(list, 1, m) \in Seq(S) /\ Len(SubSeq(list, 1, m)) = m
         /\ SubSeq(list, m + 1, Len(list)) \in Seq(S)
         /\ Len(SubSeq(list, m + 1, Len(list))) = Len(list) - m
         /\ ToSet(list) = ToSet(SubSeq(list, 1, m)) \cup ToSet(SubSeq(list, m + 1, Len(list)))
         /\ IsInjective(list) =>
               /\ IsInjective(SubSeq(list, m + 1, Len(list)))
               /\ ToSet(SubSeq(list, 1, m)) \cap ToSet(SubSeq(list, m + 1, Len(list))) = {}
<1>1. PICK n \in Nat : n = Len(list)
  BY LenProperties
<1>2. DOMAIN list = 1..n /\ m \in Nat /\ m <= n /\ m + 1 \in Nat \ {0} /\ n <= Len(list)
  BY <1>1, LenProperties
<1>3. /\ SubSeq(list, 1, m) \in Seq(S) /\ Len(SubSeq(list, 1, m)) = m
      /\ ToSet(SubSeq(list, 1, m)) = {list[i] : i \in 1..m}
  <2>1. PICK a \in Nat \ {0} : a = 1
    OBVIOUS
  <2>2. m \in Nat /\ a <= m + 1 /\ m <= Len(list) /\ m - a + 1 = m
    BY <1>1, <1>2, <2>1
  <2>3. /\ SubSeq(list, a, m) \in Seq(S) /\ Len(SubSeq(list, a, m)) = m - a + 1
        /\ ToSet(SubSeq(list, a, m)) = {list[i] : i \in a..m}
    BY ONLY list \in Seq(S), a \in Nat \ {0}, <2>2, PartProperties
  <2> QED BY <2>1, <2>2, <2>3
<1>4. /\ SubSeq(list, m + 1, n) \in Seq(S) /\ Len(SubSeq(list, m + 1, n)) = n - m
      /\ ToSet(SubSeq(list, m + 1, n)) = {list[i] : i \in (m + 1)..n}
      /\ IsInjective(list) => IsInjective(SubSeq(list, m + 1, n))
  <2>1. PICK a \in Nat \ {0} : a = m + 1
    BY <1>2
  <2>2. a <= n + 1 /\ n - a + 1 = n - m
    BY <1>2, <2>1
  <2>3. /\ SubSeq(list, a, n) \in Seq(S) /\ Len(SubSeq(list, a, n)) = n - a + 1
        /\ ToSet(SubSeq(list, a, n)) = {list[i] : i \in a..n}
        /\ IsInjective(list) => IsInjective(SubSeq(list, a, n))
    BY <1>2, <2>2, PartProperties
  <2> QED BY <2>1, <2>2, <2>3
<1>5. ToSet(list) = {list[i] : i \in 1..n}
  BY <1>2 DEF ToSet
<1>6. 1..n = (1..m) \cup ((m + 1)..n) /\ (1..m) \cap ((m + 1)..n) = {}
  BY <1>2
<1>7. ToSet(list) = ToSet(SubSeq(list, 1, m)) \cup ToSet(SubSeq(list, m + 1, n))
  BY <1>3, <1>4, <1>5, <1>6
<1>8. ASSUME IsInjective(list)
      PROVE  ToSet(SubSeq(list, 1, m)) \cap ToSet(SubSeq(list, m + 1, n)) = {}
  <2> SUFFICES ASSUME NEW i \in 1..m, NEW j \in (m + 1)..n, list[i] = list[j] PROVE FALSE
    BY <1>3, <1>4
  <2>1. i \in DOMAIN list /\ j \in DOMAIN list /\ i # j
    BY <1>2
  <2> QED BY <1>8, <2>1 DEF IsInjective
<1> QED BY <1>1, <1>3, <1>4, <1>7, <1>8

\* A list has finitely many entries.
LEMMA ListFinite ==
  ASSUME NEW S, NEW list \in Seq(S)
  PROVE  IsFiniteSet(ToSet(list))
<1>1. PICK n \in Nat : n = Len(list)
  BY LenProperties
<1>2. list \in [1..n -> S] /\ DOMAIN list = 1..n
  BY <1>1, LenProperties
<1>3. list \in Surjection(1..n, ToSet(list))
  BY <1>2 DEF Surjection, ToSet
<1>4. IsFiniteSet(1..n)
  BY <1>1, UpToN
<1> QED BY <1>3, <1>4, FS_Surjection

\* What an array is without one of its entries (RemoveAt).
LEMMA RemoveAtProperties ==
  ASSUME NEW S, NEW s \in Seq(S), NEW i \in DOMAIN s
  PROVE  /\ RemoveAt(s, i) \in Seq(S) /\ DOMAIN RemoveAt(s, i) = 1..(Len(s) - 1)
         /\ \A j \in 1..(Len(s) - 1) : RemoveAt(s, i)[j] = IF j < i THEN s[j] ELSE s[j + 1]
<1> DEFINE a == SubSeq(s, 1, i - 1)
           b == SubSeq(s, i + 1, Len(s))
<1>1. PICK n \in Nat : n = Len(s)
  BY LenProperties
<1>2. DOMAIN s = 1..n /\ i \in 1..n /\ s \in [1..n -> S]
  BY <1>1, LenProperties
<1>3. a \in Seq(S) /\ Len(a) = i - 1 /\ \A j \in 1..(i - 1) : a[j] = s[j]
  <2>1. \A j \in 1..(i - 1) : s[j] \in S
    BY <1>2
  <2>2. i - 1 \in Int
    BY <1>2
  <2>3. /\ a \in Seq(S) /\ Len(a) = IF 1 <= i - 1 THEN i - 1 - 1 + 1 ELSE 0
        /\ \A j \in 1..(i - 1 - 1 + 1) : a[j] = s[1 + j - 1]
    BY <2>1, <2>2, SubSeqProperties
  <2> HIDE DEF a
  <2> QED BY <1>2, <2>3
<1>4. b \in Seq(S) /\ Len(b) = n - i /\ \A j \in 1..(n - i) : b[j] = s[i + j]
  <2>1. \A j \in (i + 1)..Len(s) : s[j] \in S
    BY <1>1, <1>2
  <2>2. i + 1 \in Int /\ Len(s) \in Int
    BY <1>1, <1>2
  <2>3. /\ b \in Seq(S) /\ Len(b) = IF i + 1 <= Len(s) THEN Len(s) - (i + 1) + 1 ELSE 0
        /\ \A j \in 1..(Len(s) - (i + 1) + 1) : b[j] = s[(i + 1) + j - 1]
    BY <2>1, <2>2, SubSeqProperties
  <2> HIDE DEF b
  <2> QED BY <1>1, <1>2, <2>3
<1> HIDE DEF a, b
<1>5. /\ a \o b \in Seq(S) /\ Len(a \o b) = Len(a) + Len(b)
      /\ \A j \in 1..(Len(a) + Len(b)) : (a \o b)[j] = IF j <= Len(a) THEN a[j] ELSE b[j - Len(a)]
  BY <1>3, <1>4, ConcatProperties
<1>6. DOMAIN (a \o b) = 1..Len(a \o b)
  BY <1>5, LenProperties
<1>7. \A j \in 1..(n - 1) : (a \o b)[j] = IF j < i THEN s[j] ELSE s[j + 1]
  <2> TAKE j \in 1..(n - 1)
  <2>1. (a \o b)[j] = IF j <= i - 1 THEN a[j] ELSE b[j - (i - 1)]
    BY <1>2, <1>3, <1>4, <1>5
  <2>2. CASE j < i
    BY <1>2, <1>3, <2>1, <2>2
  <2>3. CASE ~(j < i)
    <3>1. j - (i - 1) \in 1..(n - i) /\ i + (j - (i - 1)) = j + 1
      BY <1>2, <2>3
    <3>2. b[j - (i - 1)] = s[i + (j - (i - 1))]
      BY <1>4, <3>1
    <3> QED BY <1>2, <2>1, <2>3, <3>1, <3>2
  <2> QED BY <2>2, <2>3
<1>8. Len(a \o b) = n - 1
  BY <1>2, <1>3, <1>4, <1>5
<1> QED BY <1>1, <1>5, <1>6, <1>7, <1>8 DEF RemoveAt, a, b

\* A function on the first numbers is a list.
LEMMA FunctionIsList ==
  ASSUME NEW n \in Nat, NEW S, NEW f \in [1..n -> S]
  PROVE  f \in Seq(S) /\ Len(f) = n
OBVIOUS

\* at tells where the entries that are kept are in list.
InPlace(list, kept, n, at) ==
    /\ Len(Only(list, kept)) = n
    /\ \A k \in 1..n : Only(list, kept)[k] = list[at[k]] /\ list[at[k]] \in kept
    /\ \A k, l \in 1..n : k < l => at[k] < at[l]
    /\ \A i \in DOMAIN list : list[i] \in kept => \E k \in 1..n : at[k] = i

\* What list.filter returns: the entries at the indices whose entries are to be kept, in
\* their order.  The rank of an index among these is a bijection.
LEMMA OnlyInOrder ==
  ASSUME NEW S, NEW list \in Seq(S), NEW kept
  PROVE  \E n \in 0..Len(list) : /\ Only(list, kept) \in Seq(S)
                                 /\ \E at \in [1..n -> DOMAIN list] : InPlace(list, kept, n, at)
<1> DEFINE I == {i \in DOMAIN list : list[i] \in kept}
           n == Cardinality(I)
           upTo(i) == {j \in I : j <= i}
           rank == [i \in I |-> Cardinality(upTo(i))]
           nth(k) == CHOOSE i \in I : Cardinality(upTo(i)) = k
           at == [k \in 1..n |-> nth(k)]
<1>1. Len(list) \in Nat /\ DOMAIN list = 1..Len(list) /\ \A i \in 1..Len(list) : list[i] \in S
  BY LenProperties, ElementOfSeq
<1>2. I \in SUBSET (1..Len(list)) /\ IsFiniteSet(I) /\ n \in 0..Len(list)
  <2>1. I \in SUBSET (1..Len(list)) /\ IsFiniteSet(1..Len(list)) /\ Cardinality(1..Len(list)) = Len(list)
    BY <1>1, UpToN
  <2> HIDE DEF I
  <2>2. IsFiniteSet(I) /\ Cardinality(I) <= Len(list)
    BY <2>1, FS_Subset
  <2>3. Cardinality(I) \in Nat
    BY <2>2, FS_CardinalityType
  <2> QED BY <1>1, <2>1, <2>2, <2>3
<1>3. \A i \in DOMAIN list : i \in I <=> list[i] \in kept
  OBVIOUS
<1>4. Only(list, kept) = [k \in 1..n |-> list[nth(k)]]
  BY DEF Only
<1> HIDE DEF I
<1>5. ASSUME NEW i \in I
      PROVE  upTo(i) \in SUBSET I /\ i \in upTo(i) /\ IsFiniteSet(upTo(i)) /\ Cardinality(upTo(i)) \in 1..n
  <2>1. upTo(i) \in SUBSET I /\ i \in upTo(i)
    BY <1>1, <1>2
  <2> HIDE DEF upTo
  <2>2. IsFiniteSet(upTo(i)) /\ Cardinality(upTo(i)) <= n /\ Cardinality(upTo(i)) # 0
    BY <1>2, <2>1, FS_Subset, FS_EmptySet
  <2>3. Cardinality(upTo(i)) \in Nat
    BY <2>2, FS_CardinalityType
  <2> QED BY <1>2, <2>1, <2>2, <2>3
<1>6. ASSUME NEW i \in I, NEW j \in I, i < j
      PROVE  Cardinality(upTo(i)) < Cardinality(upTo(j))
  <2>1. upTo(i) \in SUBSET upTo(j) /\ j \in upTo(j) /\ j \notin upTo(i)
    <3>1. \A k \in I : (k <= i => k <= j) /\ j <= j /\ ~ (j <= i)
      BY <1>1, <1>2, <1>6
    <3> QED BY <3>1
  <2>2. IsFiniteSet(upTo(j)) /\ Cardinality(upTo(i)) \in 1..n /\ Cardinality(upTo(j)) \in 1..n
    BY <1>5
  <2> HIDE DEF upTo, n
  <2>3. Cardinality(upTo(i)) <= Cardinality(upTo(j)) /\ Cardinality(upTo(i)) # Cardinality(upTo(j))
    BY <2>1, <2>2, FS_Subset
  <2> QED BY <1>2, <2>2, <2>3
<1>7. \A i, j \in I : Cardinality(upTo(i)) = Cardinality(upTo(j)) => i = j
  <2>1. \A i, j \in I : i < j \/ j < i \/ i = j
    BY <1>1, <1>2
  <2> HIDE DEF upTo, n
  <2>2. \A i \in I : Cardinality(upTo(i)) \in Int
    BY <1>2, <1>5
  <2> QED BY <1>6, <2>1, <2>2
<1>8. \A k \in 1..n : \E i \in I : Cardinality(upTo(i)) = k
  <2>1. rank \in [I -> 1..n]
    BY <1>5
  <2>2. rank \in Injection(I, 1..n)
    BY <1>7, <2>1 DEF Injection, IsInjective
  <2>3. IsFiniteSet(1..n) /\ Cardinality(1..n) = Cardinality(I)
    BY <1>2, UpToN
  <2>4. rank \in Surjection(I, 1..n)
    <3> HIDE DEF rank, n
    <3> QED BY <2>2, <2>3, FS_Injection
  <2> QED BY <2>4 DEF Surjection
<1>9. \A k \in 1..n : nth(k) \in I /\ Cardinality(upTo(nth(k))) = k
  BY <1>8
<1>10. \A i \in I : Cardinality(upTo(i)) \in 1..n /\ nth(Cardinality(upTo(i))) = i
  BY <1>5, <1>7, <1>9
<1> HIDE DEF nth, n, upTo
<1>11. at \in [1..n -> DOMAIN list]
  BY <1>1, <1>2, <1>9
<1>12. Only(list, kept) \in [1..n -> S]
  BY <1>1, <1>2, <1>4, <1>9
<1>13. Only(list, kept) \in Seq(S) /\ Len(Only(list, kept)) = n
  BY <1>2, <1>12, FunctionIsList
<1>14. \A k \in 1..n : Only(list, kept)[k] = list[at[k]] /\ list[at[k]] \in kept
  BY <1>1, <1>2, <1>3, <1>4, <1>9
<1>15. ASSUME NEW k \in 1..n, NEW l \in 1..n, k < l PROVE at[k] < at[l]
  <2>1. \A i \in I : i \in Nat
    BY <1>1, <1>2
  <2>2. PICK i \in I, j \in I : i = nth(k) /\ j = nth(l) /\ i \in Nat /\ j \in Nat
    BY <1>9, <2>1
  <2>3. Cardinality(upTo(i)) = k /\ Cardinality(upTo(j)) = l
    BY <1>9, <2>2
  <2>4. ~(j < i) /\ j # i
    BY <1>2, <1>6, <1>15, <2>3
  <2> QED BY <2>2, <2>4
<1>16. ASSUME NEW i \in DOMAIN list, list[i] \in kept PROVE \E k \in 1..n : at[k] = i
  BY <1>3, <1>10, <1>16
<1> HIDE DEF at
<1>17. InPlace(list, kept, n, at)
  BY <1>13, <1>14, <1>15, <1>16 DEF InPlace
<1> QED BY <1>2, <1>11, <1>13, <1>17

\* So it has just the entries that are to be kept, none of them twice unless it was, and
\* the first of them first.
LEMMA OnlyProperties ==
  ASSUME NEW S, NEW list \in Seq(S), NEW kept
  PROVE  /\ Only(list, kept) \in Seq(S)
         /\ Len(Only(list, kept)) \in 0..Len(list)
         /\ ToSet(Only(list, kept)) = ToSet(list) \cap kept
         /\ IsInjective(list) => IsInjective(Only(list, kept))
         /\ list # <<>> /\ list[1] \in kept => Only(list, kept) # <<>> /\ Only(list, kept)[1] = list[1]
<1>1. PICK n \in 0..Len(list) : Only(list, kept) \in Seq(S)
                             /\ \E at \in [1..n -> DOMAIN list] : InPlace(list, kept, n, at)
  BY OnlyInOrder
<1>2. PICK at \in [1..n -> DOMAIN list] : InPlace(list, kept, n, at)
  BY <1>1
<1>3. /\ Only(list, kept) \in Seq(S) /\ Len(Only(list, kept)) = n
      /\ \A k \in 1..n : Only(list, kept)[k] = list[at[k]] /\ list[at[k]] \in kept
      /\ \A k, l \in 1..n : k < l => at[k] < at[l]
      /\ \A i \in DOMAIN list : list[i] \in kept => \E k \in 1..n : at[k] = i
  BY <1>1, <1>2 DEF InPlace
<1>4. Len(list) \in Nat /\ DOMAIN list = 1..Len(list)
  BY LenProperties
<1>5. Len(list) \in Nat /\ DOMAIN list = 1..Len(list) /\ DOMAIN Only(list, kept) = 1..n /\ n \in Nat
  BY <1>3, <1>4, LenProperties
<1>6. ToSet(Only(list, kept)) = ToSet(list) \cap kept
  <2>1. ToSet(Only(list, kept)) = {Only(list, kept)[k] : k \in 1..n}
    BY <1>5 DEF ToSet
  <2>2. ToSet(list) = {list[i] : i \in DOMAIN list}
    BY DEF ToSet
  <2>3. \A k \in 1..n : at[k] \in DOMAIN list
    OBVIOUS
  <2>4. ToSet(Only(list, kept)) \subseteq ToSet(list) \cap kept
    BY <1>3, <2>1, <2>2, <2>3
  <2>5. ToSet(list) \cap kept \subseteq ToSet(Only(list, kept))
    <3> SUFFICES ASSUME NEW i \in DOMAIN list, list[i] \in kept PROVE list[i] \in ToSet(Only(list, kept))
      BY <2>2
    <3>1. PICK k \in 1..n : at[k] = i
      BY <1>3
    <3> QED BY <1>3, <2>1, <3>1
  <2> QED BY <2>4, <2>5
<1>7. ASSUME IsInjective(list) PROVE IsInjective(Only(list, kept))
  <2> SUFFICES ASSUME NEW k \in 1..n, NEW l \in 1..n, Only(list, kept)[k] = Only(list, kept)[l]
               PROVE  k = l
    BY <1>5 DEF IsInjective
  <2>1. at[k] = at[l] /\ at[k] \in Nat
    BY <1>3, <1>5, <1>7 DEF IsInjective
  <2>2. ~(k < l) /\ ~(l < k)
    BY <1>3, <2>1
  <2> QED BY <2>2
<1>8. ASSUME list # <<>>, list[1] \in kept
      PROVE  Only(list, kept) # <<>> /\ Only(list, kept)[1] = list[1]
  <2>1. 1 \in DOMAIN list
    <3>1. Len(list) # 0
      BY <1>8, EmptySeq
    <3> QED BY <1>5, <3>1
  <2>2. PICK k \in 1..n : at[k] = 1
    BY <1>3, <1>8, <2>1
  <2>3. 1 \in 1..n /\ at[1] \in 1..Len(list)
    BY <1>3, <1>5, <2>2
  <2>4. ~(1 < k)
    BY <1>3, <1>5, <2>2, <2>3
  <2>5. at[1] = 1
    BY <2>2, <2>4
  <2>6. Only(list, kept) # <<>>
    BY <1>3, <2>3, EmptySeq
  <2> QED BY <1>3, <2>3, <2>5, <2>6
<1> QED BY <1>3, <1>6, <1>7, <1>8

---------------------------------------------------------------------------------
(* The newest of some times, and the entries of lists.                           *)

\* The newest of some times (FiniteSetsExt's Max): of the sets of later ones, for each of
\* them, one is minimal.
LEMMA MaxProperties ==
  ASSUME NEW S \in SUBSET Nat, S # {}, IsFiniteSet(S)
  PROVE  Max(S) \in S /\ \A x \in S : x <= Max(S)
<1> DEFINE after(k) == {j \in S : j > k}
           T == {after(k) : k \in S}
           R == StrictSubsetOrdering(S)
<1>1. IsWellFoundedOn(R, FiniteSubsetsOf(S))
  BY FS_StrictSubsetOrderingWellFounded
<1>2. T \subseteq FiniteSubsetsOf(S) /\ T # {}
  <2>1. ASSUME NEW k \in S PROVE after(k) \in FiniteSubsetsOf(S)
    <3>1. after(k) \in SUBSET S
      OBVIOUS
    <3> QED BY <3>1, FS_Subset DEF FiniteSubsetsOf
  <2> QED BY <2>1
<1>3. \E x \in T : \A y \in T : ~ (<<y, x>> \in R)
  <2> HIDE DEF T, R
  <2> QED BY <1>1, <1>2, WFMin
<1>4. PICK k \in S : \A j \in S : ~ (<<after(j), after(k)>> \in R)
  BY <1>3
<1>5. ASSUME NEW j \in S, j > k PROVE FALSE
  <2>1. after(j) \subseteq after(k) /\ j \in after(k) /\ j \notin after(j)
    <3>1. \A i \in S : (i > j => i > k) /\ ~ (j > j)
      BY <1>5
    <3> QED BY <1>5, <3>1
  <2>2. <<after(j), after(k)>> \in R
    <3>1. after(j) \in SUBSET S /\ after(k) \in SUBSET S /\ after(j) # after(k)
      BY <2>1
    <3> HIDE DEF after
    <3> QED BY <2>1, <3>1 DEF StrictSubsetOrdering
  <2> QED BY <1>4, <2>2
<1>6. \A x \in S : k >= x
  BY <1>5
<1>7. Max(S) \in S /\ \A x \in S : Max(S) >= x
  BY <1>6 DEF Max
<1> QED BY <1>7

\* A list that repeats nothing is as long as it has entries.
LEMMA InjectiveLength ==
  ASSUME NEW S, NEW list \in Seq(S), IsInjective(list)
  PROVE  IsFiniteSet(ToSet(list)) /\ Cardinality(ToSet(list)) = Len(list)
<1>1. PICK n \in Nat : n = Len(list)
  BY LenProperties
<1>2. list \in [1..n -> S] /\ DOMAIN list = 1..n
  BY <1>1, LenProperties
<1>3. list \in Bijection(1..n, ToSet(list))
  BY <1>2 DEF Bijection, Injection, Surjection, IsInjective, ToSet
<1>4. IsFiniteSet(1..n) /\ Cardinality(1..n) = n
  BY <1>1, UpToN
<1> QED BY <1>1, <1>3, <1>4, FS_Bijection DEF ExistsBijection

\* The entries of two arrays put together (concat).
LEMMA ConcatEntries ==
  ASSUME NEW S, NEW s \in Seq(S), NEW t \in Seq(S)
  PROVE  s \o t \in Seq(S) /\ ToSet(s \o t) = ToSet(s) \cup ToSet(t)
<1>1. PICK n \in Nat, m \in Nat : n = Len(s) /\ m = Len(t)
  BY LenProperties
<1>2. DOMAIN s = 1..n /\ DOMAIN t = 1..m
  BY <1>1, LenProperties
<1>3. /\ s \o t \in Seq(S) /\ Len(s \o t) = n + m
      /\ \A i \in 1..(n + m) : (s \o t)[i] = IF i <= n THEN s[i] ELSE t[i - n]
  BY <1>1, ConcatProperties
<1> DEFINE both == s \o t
<1>4. DOMAIN both = 1..(n + m)
  BY <1>3, LenProperties
<1> HIDE DEF both
<1>5. \A i \in 1..(n + m) : (i <= n => i \in 1..n) /\ (~(i <= n) => i - n \in 1..m)
  OBVIOUS
<1>6. ToSet(both) \subseteq ToSet(s) \cup ToSet(t)
  BY <1>2, <1>3, <1>4, <1>5 DEF ToSet, both
<1>7. ASSUME NEW i \in 1..n PROVE i \in 1..(n + m) /\ both[i] = s[i]
  BY <1>3, <1>7 DEF both
<1>8. ASSUME NEW i \in 1..m PROVE n + i \in 1..(n + m) /\ both[n + i] = t[i]
  <2>1. n + i \in 1..(n + m) /\ ~(n + i <= n) /\ n + i - n = i
    BY <1>8
  <2> QED BY <1>3, <2>1 DEF both
<1>9. ToSet(s) \cup ToSet(t) \subseteq ToSet(both)
  BY <1>2, <1>4, <1>7, <1>8 DEF ToSet
<1> QED BY <1>3, <1>6, <1>9 DEF both

\* at tells where the entries of rest are in list, of which it lacks the i-th.
Lacks(rest, list, i, at) ==
    /\ at \in [DOMAIN rest -> DOMAIN list \ {i}]
    /\ \A k \in DOMAIN rest : rest[k] = list[at[k]]
    /\ \A j, k \in DOMAIN rest : at[j] = at[k] => j = k
    /\ \A j \in DOMAIN list \ {i} : \E k \in DOMAIN rest : at[k] = j
    /\ i # Len(list) => rest # <<>> /\ at[Len(rest)] = Len(list)

\* A list without one of its entries keeps the others, and the last one last.
LEMMA RemovedEntry ==
  ASSUME NEW S, NEW list \in Seq(S), NEW i \in DOMAIN list, NEW rest, rest = RemoveAt(list, i)
  PROVE  /\ rest \in Seq(S)
         /\ \E at : Lacks(rest, list, i, at)
<1>1. PICK n \in Nat : n = Len(list) /\ DOMAIN list = 1..n
  BY LenProperties
<1> DEFINE at == [k \in 1..(n - 1) |-> IF k < i THEN k ELSE k + 1]
<1>2. /\ rest \in Seq(S) /\ DOMAIN rest = 1..(n - 1) /\ i \in 1..n
      /\ \A j \in 1..(n - 1) : rest[j] = IF j < i THEN list[j] ELSE list[j + 1]
  BY <1>1, RemoveAtProperties
<1>3. Len(rest) = n - 1
  BY <1>1, <1>2, LenProperties
<1>4. at \in [1..(n - 1) -> (1..n) \ {i}]
  BY <1>2
<1>5. \A k \in 1..(n - 1) : rest[k] = list[at[k]]
  BY <1>2
<1>6. \A j, k \in 1..(n - 1) : at[j] = at[k] => j = k
  BY <1>2
<1>7. ASSUME NEW j \in (1..n) \ {i} PROVE \E k \in 1..(n - 1) : at[k] = j
  <2>1. CASE j < i
    <3>1. j \in 1..(n - 1) /\ at[j] = j
      BY <1>2, <2>1
    <3> QED BY <3>1
  <2>2. CASE j > i
    <3>1. j - 1 \in 1..(n - 1) /\ at[j - 1] = j
      BY <1>2, <2>2
    <3> QED BY <3>1
  <2> QED BY <1>2, <2>1, <2>2
<1>8. i # n => n - 1 \in 1..(n - 1) /\ at[n - 1] = n
  BY <1>2
<1>9. i # n => rest # <<>>
  BY <1>2, <1>3, <1>8, EmptySeq
<1> HIDE DEF at
<1>10. /\ at \in [DOMAIN rest -> DOMAIN list \ {i}]
       /\ \A k \in DOMAIN rest : rest[k] = list[at[k]]
       /\ \A j, k \in DOMAIN rest : at[j] = at[k] => j = k
       /\ \A j \in DOMAIN list \ {i} : \E k \in DOMAIN rest : at[k] = j
       /\ i # Len(list) => rest # <<>> /\ at[Len(rest)] = Len(list)
  BY <1>1, <1>2, <1>3, <1>4, <1>5, <1>6, <1>7, <1>8, <1>9
<1>11. Lacks(rest, list, i, at)
  BY <1>10 DEF Lacks
<1> QED BY <1>2, <1>11

\* An entry is replaced by another.
LEMMA ReplacedEntry ==
  ASSUME NEW S, NEW list \in Seq(S), NEW i \in DOMAIN list, NEW e \in S
  PROVE  /\ [list EXCEPT ![i] = e] \in Seq(S) /\ Len([list EXCEPT ![i] = e]) = Len(list)
         /\ DOMAIN [list EXCEPT ![i] = e] = DOMAIN list
         /\ \A j \in DOMAIN list : [list EXCEPT ![i] = e][j] = IF j = i THEN e ELSE list[j]
<1>1. PICK n \in Nat : n = Len(list) /\ list \in [1..n -> S] /\ DOMAIN list = 1..n
  BY LenProperties
<1>2. [list EXCEPT ![i] = e] \in [1..n -> S]
  BY <1>1
<1>3. [list EXCEPT ![i] = e] \in Seq(S) /\ Len([list EXCEPT ![i] = e]) = n
  BY <1>2, FunctionIsList
<1> QED BY <1>1, <1>3

\* Every entry is replaced by another.
LEMMA ChangedEntries ==
  ASSUME NEW S, NEW T, NEW list \in Seq(S), NEW f, \A j \in DOMAIN list : f[j] \in T, DOMAIN f = DOMAIN list,
         f = [j \in DOMAIN list |-> f[j]]
  PROVE  f \in Seq(T) /\ Len(f) = Len(list)
<1>1. PICK n \in Nat : n = Len(list) /\ DOMAIN list = 1..n
  BY LenProperties
<1>2. f \in [1..n -> T]
  BY <1>1
<1> QED BY <1>1, <1>2, FunctionIsList

\* The entries of a list.
LEMMA ListEntries ==
  ASSUME NEW S, NEW list \in Seq(S)
  PROVE  /\ Len(list) \in Nat /\ DOMAIN list = 1..Len(list)
         /\ \A i \in DOMAIN list : list[i] \in S /\ list[i] \in ToSet(list)
         /\ \A x \in ToSet(list) : x \in S /\ \E i \in DOMAIN list : x = list[i]
BY LenProperties, ElementOfSeq DEF ToSet

\* A list with one more entry.
LEMMA AddedEntry ==
  ASSUME NEW S, NEW list \in Seq(S), NEW e \in S
  PROVE  /\ Append(list, e) \in Seq(S) /\ Len(Append(list, e)) = Len(list) + 1
         /\ DOMAIN Append(list, e) = 1..(Len(list) + 1)
         /\ Len(list) + 1 \notin DOMAIN list /\ Append(list, e) # <<>>
         /\ \A i \in DOMAIN list : i \in DOMAIN Append(list, e) /\ Append(list, e)[i] = list[i]
         /\ Append(list, e)[Len(list) + 1] = e
<1>1. PICK n \in Nat : n = Len(list) /\ DOMAIN list = 1..n
  BY LenProperties
<1>2. /\ Append(list, e) \in Seq(S) /\ Len(Append(list, e)) = n + 1
      /\ \A i \in 1..n : Append(list, e)[i] = list[i]
      /\ Append(list, e)[n + 1] = e
  BY <1>1, AppendProperties
<1>3. DOMAIN Append(list, e) = 1..(n + 1)
  BY <1>2, LenProperties
<1>4. Append(list, e) # <<>>
  BY <1>1, <1>2, EmptySeq
<1> QED BY <1>1, <1>2, <1>3, <1>4

\* Numbers in ascending order.
Increasing(numbers) == \A i, j \in DOMAIN numbers : i < j => numbers[i] < numbers[j]

\* An ascending list repeats nothing.
LEMMA IncreasingIsInjective ==
  ASSUME NEW a \in Seq(Nat), Increasing(a)
  PROVE  IsInjective(a)
<1>1. PICK n \in Nat : n = Len(a) /\ DOMAIN a = 1..n /\ \A i \in 1..n : a[i] \in Nat
  BY LenProperties, ElementOfSeq
<1> SUFFICES ASSUME NEW i \in 1..n, NEW j \in 1..n, a[i] = a[j] PROVE i = j
  BY <1>1 DEF IsInjective
<1>2. ~(i < j) /\ ~(j < i)
  BY <1>1 DEF Increasing
<1> QED BY <1>2

\* Two ascending lists of the same numbers are the same: at the first index where they
\* differed, the lesser number would be at an earlier one in the other list.
LEMMA SameOrder ==
  ASSUME NEW a \in Seq(Nat), NEW b \in Seq(Nat), Increasing(a), Increasing(b), ToSet(a) = ToSet(b)
  PROVE  a = b
<1>1. Len(a) = Len(b)
  BY IncreasingIsInjective, InjectiveLength
<1>2. PICK n \in Nat : n = Len(a) /\ DOMAIN a = 1..n /\ DOMAIN b = 1..n
  BY <1>1, LenProperties
<1>3. \A i \in 1..n : a[i] \in Nat /\ b[i] \in Nat
  BY <1>1, <1>2, ElementOfSeq
<1> DEFINE D == {i \in 1..n : a[i] # b[i]}
<1>4. ASSUME D # {} PROVE FALSE
  <2>1. D \in SUBSET (0..n)
    BY <1>2
  <2>2. PICK k \in D : \A j \in D : k <= j
    <3> HIDE DEF D
    <3> QED BY <1>4, <2>1, Least
  <2>3. k \in 1..n /\ a[k] # b[k] /\ \A j \in 1..n : j < k => a[j] = b[j]
    BY <1>2, <2>2
  <2>4. PICK i \in 1..n : a[k] = b[i]
    BY <1>2, <2>3 DEF ToSet
  <2>5. PICK j \in 1..n : b[k] = a[j]
    BY <1>2, <2>3 DEF ToSet
  <2>6. ASSUME i < k PROVE FALSE
    <3>1. a[i] = b[i] /\ a[i] < a[k]
      BY <1>2, <2>3, <2>6 DEF Increasing
    <3> QED BY <1>3, <2>3, <2>4, <3>1
  <2>7. ASSUME j < k PROVE FALSE
    <3>1. a[j] = b[j] /\ b[j] < b[k]
      BY <1>2, <2>3, <2>7 DEF Increasing
    <3> QED BY <1>3, <2>3, <2>5, <3>1
  <2>8. k < i /\ k < j
    BY <2>3, <2>4, <2>5, <2>6, <2>7
  <2>9. b[k] < b[i] /\ a[k] < a[j]
    BY <1>2, <2>3, <2>8 DEF Increasing
  <2> QED BY <1>3, <2>3, <2>4, <2>5, <2>9
<1>5. \A i \in 1..n : a[i] = b[i]
  BY <1>4
<1>6. a \in [1..n -> Nat] /\ b \in [1..n -> Nat]
  BY <1>2, <1>1, LenProperties
<1> QED BY <1>5, <1>6

=================================================================================
