-------------------------- MODULE ClaimsAnswerProofs --------------------------
(***************************************************************************)
(* What requests answer is the aggregate of the licenses they read, for    *)
(* any licenses, requests and publications.                                *)
(***************************************************************************)
EXTENDS ClaimsProofs

---------------------------------------------------------------------------
(* Positions in order.                                                     *)
Rank(S, j) == Cardinality({i \in S : i <= j})

(* The rank counts a set of positions up, each of them once.               *)
LEMMA Ranks ==
    ASSUME NEW S, S \subseteq Nat, IsFiniteSet(S)
    PROVE  /\ Cardinality(S) \in Nat
           /\ \A i, j \in S : Rank(S, i) = Rank(S, j) => i = j
           /\ \A j \in S : Rank(S, j) \in 1 .. Cardinality(S)
           /\ \A m \in 1 .. Cardinality(S) : Nth(S, m) \in S /\ Rank(S, Nth(S, m)) = m
<1>1. Cardinality(S) \in Nat
  BY FS_CardinalityType
<1>2. ASSUME NEW j \in S PROVE Rank(S, j) \in 1 .. Cardinality(S)
  <2> DEFINE T == {i \in S : i <= j}
  <2>1. T \in SUBSET S /\ j \in T
    OBVIOUS
  <2>2. IsFiniteSet(T) /\ Cardinality(T) <= Cardinality(S)
    BY <2>1, FS_Subset
  <2>3. Cardinality(T) \in Nat /\ Cardinality(T) # 0
    BY <2>1, <2>2, FS_CardinalityType, FS_EmptySet
  <2> QED BY <1>1, <2>2, <2>3 DEF Rank
<1>3. ASSUME NEW i \in S, NEW j \in S, i < j PROVE Rank(S, i) # Rank(S, j)
  <2> DEFINE T == {x \in S : x <= i}
             U == {x \in S : x <= j}
  <2>0. /\ \A x \in S : x <= i => x <= j
        /\ j <= j /\ ~(j <= i)
    BY <1>3
  <2>1. T \in SUBSET U /\ U \in SUBSET S /\ T # U
    BY <2>0, Zenon
  <2>2. IsFiniteSet(U)
    BY <2>1, FS_Subset
  <2>3. Cardinality(T) # Cardinality(U)
    BY <2>1, <2>2, FS_Subset
  <2> QED BY <2>3 DEF Rank
<1>4. \A i, j \in S : Rank(S, i) = Rank(S, j) => i = j
  BY <1>3
<1>5. ASSUME NEW m \in 1 .. Cardinality(S) PROVE \E j \in S : Rank(S, j) = m
  <2> DEFINE N == 1 .. Cardinality(S)
             f == [j \in S |-> Rank(S, j)]
  <2>1. IsFiniteSet(N) /\ Cardinality(N) = Cardinality(S)
    BY <1>1, FS_Interval
  <2>2. f \in Injection(S, N)
    BY <1>2, <1>4 DEF Injection, IsInjective
  <2>3. f \in Surjection(S, N)
    BY <2>1, <2>2, FS_Injection
  <2> QED BY <2>3 DEF Surjection
<1>6. ASSUME NEW m \in 1 .. Cardinality(S) PROVE Nth(S, m) \in S /\ Rank(S, Nth(S, m)) = m
  BY <1>5 DEF Nth, Rank
<1> QED BY <1>1, <1>2, <1>4, <1>6

(* A later position comes last and leaves the others where they are.       *)
LEMMA NthOfMore ==
    ASSUME NEW S, S \subseteq Nat, IsFiniteSet(S), NEW n \in Nat, \A i \in S : i < n
    PROVE  /\ IsFiniteSet(S \cup {n}) /\ Cardinality(S \cup {n}) = Cardinality(S) + 1
           /\ \A m \in 1 .. Cardinality(S) : Nth(S \cup {n}, m) = Nth(S, m)
           /\ Nth(S \cup {n}, Cardinality(S) + 1) = n
<1> DEFINE T == S \cup {n}
<1>1. IsFiniteSet(T) /\ Cardinality(T) = Cardinality(S) + 1 /\ T \subseteq Nat
  BY FS_AddElement
<1>2. Cardinality(S) \in Nat
  BY FS_CardinalityType
<1>3. ASSUME NEW j \in S PROVE Rank(T, j) = Rank(S, j)
  <2>1. {i \in T : i <= j} = {i \in S : i <= j}
    OBVIOUS
  <2> QED BY <2>1 DEF Rank
<1>4. Rank(T, n) = Cardinality(S) + 1
  <2>1. \A i \in T : i <= n
    OBVIOUS
  <2>2. {i \in T : i <= n} = T
    BY <2>1
  <2> QED BY <1>1, <2>2 DEF Rank
<1> HIDE DEF T
<1>0. /\ \A i, j \in T : Rank(T, i) = Rank(T, j) => i = j
      /\ \A m \in 1 .. Cardinality(T) : Nth(T, m) \in T /\ Rank(T, Nth(T, m)) = m
  BY <1>1, Ranks, Zenon
<1>5. ASSUME NEW m \in 1 .. Cardinality(S) PROVE Nth(T, m) = Nth(S, m)
  <2>1. Nth(S, m) \in S /\ Rank(S, Nth(S, m)) = m
    BY Ranks
  <2>2. Nth(S, m) \in T /\ Rank(T, Nth(S, m)) = m
    BY <1>3, <2>1 DEF T
  <2>3. Nth(T, m) \in T /\ Rank(T, Nth(T, m)) = m
    BY <1>0, <1>1, <1>2
  <2> QED BY <1>0, <2>2, <2>3, Zenon
<1>6. Nth(T, Cardinality(S) + 1) = n
  <2>1. n \in T
    BY DEF T
  <2>2. Nth(T, Cardinality(S) + 1) \in T /\ Rank(T, Nth(T, Cardinality(S) + 1)) = Cardinality(S) + 1
    BY <1>0, <1>1, <1>2
  <2> QED BY <1>0, <1>4, <2>1, <2>2, Zenon
<1> QED BY <1>1, <1>5, <1>6 DEF T

(* The positions of a whole list.                                          *)
LEMMA NthOfAll ==
    ASSUME NEW n \in Nat
    PROVE  /\ IsFiniteSet(1 .. n) /\ Cardinality(1 .. n) = n
           /\ \A m \in 1 .. n : Nth(1 .. n, m) = m
<1>1. IsFiniteSet(1 .. n) /\ Cardinality(1 .. n) = n
  BY FS_Interval
<1>2. ASSUME NEW m \in 1 .. n PROVE Nth(1 .. n, m) = m
  <2>1. {i \in 1 .. n : i <= m} = 1 .. m
    OBVIOUS
  <2>2. Rank(1 .. n, m) = m
    <3>1. IsFiniteSet(1 .. m) /\ Cardinality(1 .. m) = m
      BY FS_Interval
    <3> QED BY <2>1, <3>1 DEF Rank
  <2>3. 1 .. n \subseteq Nat
    OBVIOUS
  <2> QED BY <1>1, <2>2, <2>3, Ranks
<1> QED BY <1>1, <1>2

---------------------------------------------------------------------------
(* Values by license, and the licenses whose lists are united.             *)
HasLists(v, C) ==
    /\ C \subseteq DOMAIN v /\ C \subseteq Nat /\ IsFiniteSet(C)
    /\ \A i \in C : IsSeq(v[i].items)

LEMMA FreshFacts ==
    ASSUME NEW v, NEW C, HasLists(v, C), NEW i \in C
    PROVE  /\ Fresh(v, C, i) \subseteq 1 .. Len(v[i].items) /\ Fresh(v, C, i) \subseteq Nat
           /\ IsFiniteSet(Fresh(v, C, i)) /\ Cardinality(Fresh(v, C, i)) \in Nat
<1>1. Len(v[i].items) \in Nat /\ DOMAIN v[i].items = 1 .. Len(v[i].items)
  BY SeqFacts DEF HasLists
<1>2. Fresh(v, C, i) \subseteq 1 .. Len(v[i].items)
  BY <1>1 DEF Fresh
<1>3. IsFiniteSet(1 .. Len(v[i].items))
  BY <1>1, FS_Interval
<1>4. IsFiniteSet(Fresh(v, C, i))
  BY <1>2, <1>3, FS_Subset
<1>5. Fresh(v, C, i) \subseteq Nat
  BY <1>1, <1>2
<1> QED BY <1>2, <1>4, <1>5, FS_CardinalityType

(* What is fresh depends on the earlier licenses only.                     *)
LEMMA FreshSame ==
    ASSUME NEW v, NEW C, NEW D, NEW i, Before(C, i) = Before(D, i)
    PROVE  Fresh(v, C, i) = Fresh(v, D, i)
BY DEF Fresh

LEMMA AllFreshFinite ==
    ASSUME NEW v, NEW C, HasLists(v, C)
    PROVE  IsFiniteSet(AllFresh(v, C)) /\ Cardinality(AllFresh(v, C)) \in Nat
<1>1. IsFiniteSet({{i} \X Fresh(v, C, i) : i \in C})
  <2> DEFINE T == {{i} \X Fresh(v, C, i) : i \in C}
             f == [i \in C |-> {i} \X Fresh(v, C, i)]
  <2>1. f \in Surjection(C, T)
    BY DEF Surjection
  <2>2. IsFiniteSet(C)
    BY DEF HasLists
  <2> QED BY <2>1, <2>2, FS_Surjection
<1>2. \A i \in C : IsFiniteSet({i} \X Fresh(v, C, i))
  BY FreshFacts, FS_Singleton, FS_Product
<1>3. IsFiniteSet(AllFresh(v, C))
  BY <1>1, <1>2, FS_UNION DEF AllFresh
<1> QED BY <1>3, FS_CardinalityType

(* One more license adds its fresh items to those of the others.           *)
LEMMA FreshOfMore ==
    ASSUME NEW v, NEW C, HasLists(v, C), NEW n \in DOMAIN v, n \in Nat, IsSeq(v[n].items),
           \A i \in C : i < n
    PROVE  LET D == C \cup {n}
           IN  /\ HasLists(v, D)
               /\ Before(D, n) = C
               /\ \A i \in C : Before(D, i) = Before(C, i) /\ Fresh(v, D, i) = Fresh(v, C, i)
               /\ Cardinality(AllFresh(v, D)) =
                      Cardinality(AllFresh(v, C)) + Cardinality(Fresh(v, D, n))
<1> DEFINE D == C \cup {n}
<1>1. HasLists(v, D)
  BY FS_AddElement DEF HasLists
<1>2. Before(D, n) = C
  BY DEF Before, HasLists
<1>3. ASSUME NEW i \in C PROVE Before(D, i) = Before(C, i)
  BY DEF Before, HasLists
<1>4. \A i \in C : Fresh(v, D, i) = Fresh(v, C, i)
  BY <1>3, FreshSame
<1> DEFINE new == {n} \X Fresh(v, D, n)
<1>5. AllFresh(v, D) = AllFresh(v, C) \cup new
  BY <1>4 DEF AllFresh
<1>6. AllFresh(v, C) \cap new = {}
  <2>1. n \notin C
    BY DEF HasLists
  <2> QED BY <2>1 DEF AllFresh
<1>7. IsFiniteSet(Fresh(v, D, n)) /\ Cardinality(Fresh(v, D, n)) \in Nat
  BY <1>1, FreshFacts
<1>8. IsFiniteSet(new) /\ Cardinality(new) = Cardinality(Fresh(v, D, n))
  <2>1. IsFiniteSet({n}) /\ Cardinality({n}) = 1
    BY FS_Singleton
  <2>2. /\ IsFiniteSet(new)
        /\ Cardinality(new) = Cardinality({n}) * Cardinality(Fresh(v, D, n))
    BY <1>7, <2>1, FS_Product
  <2> QED BY <1>7, <2>1, <2>2
<1>9. IsFiniteSet(AllFresh(v, C)) /\ Cardinality(AllFresh(v, C)) \in Nat
  BY AllFreshFinite
<1> HIDE DEF D, new
<1>10. Cardinality(AllFresh(v, D)) = Cardinality(AllFresh(v, C)) + Cardinality(Fresh(v, D, n))
  <2>1. Cardinality(AllFresh(v, C) \cup new)
            = Cardinality(AllFresh(v, C)) + Cardinality(new) - Cardinality(AllFresh(v, C) \cap new)
    BY <1>8, <1>9, FS_Union
  <2>2. Cardinality(AllFresh(v, C) \cap new) = 0
    BY <1>6, FS_EmptySet
  <2> QED BY <1>5, <1>7, <1>8, <1>9, <2>1, <2>2
<1> QED BY <1>1, <1>2, <1>3, <1>4, <1>10 DEF D

---------------------------------------------------------------------------
(* Lists united, one after the other.                                      *)
FreshItems(v, C, i) ==
    [m \in 1 .. Cardinality(Fresh(v, C, i)) |-> v[i].items[Nth(Fresh(v, C, i), m)]]

LEMMA FreshItemsFacts ==
    ASSUME NEW v, NEW C, HasLists(v, C), NEW i \in C
    PROVE  /\ IsSeq(FreshItems(v, C, i))
           /\ Len(FreshItems(v, C, i)) = Cardinality(Fresh(v, C, i))
           /\ ToSet(FreshItems(v, C, i)) = {v[i].items[m] : m \in Fresh(v, C, i)}
<1> DEFINE S == Fresh(v, C, i)
           M == FreshItems(v, C, i)
<1>1. S \subseteq Nat /\ IsFiniteSet(S) /\ Cardinality(S) \in Nat
  BY FreshFacts
<1>2. M = [m \in 1 .. Cardinality(S) |-> v[i].items[Nth(S, m)]]
  BY DEF FreshItems
<1> HIDE DEF S, M
<1>3. /\ \A a, b \in S : Rank(S, a) = Rank(S, b) => a = b
      /\ \A j \in S : Rank(S, j) \in 1 .. Cardinality(S)
      /\ \A m \in 1 .. Cardinality(S) : Nth(S, m) \in S /\ Rank(S, Nth(S, m)) = m
  BY <1>1, Ranks, Zenon
<1>4. \A m \in 1 .. Cardinality(S) : M[m] \in {v[i].items[j] : j \in S}
  BY <1>2, <1>3
<1>5. M \in Seq({v[i].items[j] : j \in S})
  BY <1>1, <1>2, <1>4
<1>6. Len(M) = Cardinality(S) /\ DOMAIN M = 1 .. Cardinality(S)
  BY <1>1, <1>2
<1>7. ASSUME NEW j \in S PROVE v[i].items[j] \in ToSet(M)
  <2>1. PICK m \in 1 .. Cardinality(S) : Nth(S, m) = j
    BY <1>3
  <2>2. M[m] = v[i].items[j]
    BY <1>2, <2>1
  <2> QED BY <1>6, <2>2 DEF ToSet
<1>8. ToSet(M) = {v[i].items[j] : j \in S}
  BY <1>4, <1>6, <1>7 DEF ToSet
<1> QED BY <1>5, <1>6, <1>8 DEF S, M, IsSeq

LEMMA ConcatFacts ==
    ASSUME NEW s, IsSeq(s), NEW t, IsSeq(t)
    PROVE  /\ IsSeq(s \o t) /\ Len(s \o t) = Len(s) + Len(t)
           /\ \A j \in 1 .. Len(s) : (s \o t)[j] = s[j]
           /\ \A j \in 1 .. Len(t) : (s \o t)[Len(s) + j] = t[j]
           /\ ToSet(s \o t) = ToSet(s) \cup ToSet(t)
<1>1. PICK S : s \in Seq(S)
  BY DEF IsSeq
<1>2. PICK T : t \in Seq(T)
  BY DEF IsSeq
<1>3. s \in Seq(S \cup T) /\ t \in Seq(S \cup T)
  BY <1>1, <1>2
<1>4. /\ s \o t \in Seq(S \cup T) /\ Len(s \o t) = Len(s) + Len(t)
      /\ Len(s) \in Nat /\ Len(t) \in Nat
      /\ DOMAIN s = 1 .. Len(s) /\ DOMAIN t = 1 .. Len(t)
      /\ DOMAIN (s \o t) = 1 .. Len(s) + Len(t)
  BY <1>3
<1>5. \A j \in 1 .. Len(s) : (s \o t)[j] = s[j]
  BY <1>3
<1>6. \A j \in 1 .. Len(t) : (s \o t)[Len(s) + j] = t[j]
  BY <1>3
<1>7. ToSet(s \o t) \subseteq ToSet(s) \cup ToSet(t)
  <2> SUFFICES ASSUME NEW j \in 1 .. Len(s) + Len(t)
               PROVE  (s \o t)[j] \in ToSet(s) \cup ToSet(t)
    BY <1>4 DEF ToSet
  <2>1. CASE j <= Len(s)
    BY <1>4, <1>5, <2>1 DEF ToSet
  <2>2. CASE j > Len(s)
    <3>1. j - Len(s) \in 1 .. Len(t) /\ j = Len(s) + (j - Len(s))
      BY <1>4, <2>2
    <3>2. (s \o t)[j] = t[j - Len(s)]
      BY <1>6, <3>1
    <3> QED BY <1>4, <3>1, <3>2 DEF ToSet
  <2> QED BY <1>4, <2>1, <2>2
<1>8. ToSet(s) \subseteq ToSet(s \o t) /\ ToSet(t) \subseteq ToSet(s \o t)
  <2>1. ASSUME NEW j \in 1 .. Len(s) PROVE s[j] \in ToSet(s \o t)
    BY <1>4, <1>5, <2>1 DEF ToSet
  <2>2. ASSUME NEW j \in 1 .. Len(t) PROVE t[j] \in ToSet(s \o t)
    <3>1. Len(s) + j \in DOMAIN (s \o t)
      BY <1>4
    <3> QED BY <1>6, <3>1 DEF ToSet
  <2> QED BY <1>4, <2>1, <2>2 DEF ToSet
<1> QED BY <1>4, <1>5, <1>6, <1>7, <1>8 DEF IsSeq

(* What an initial part of the licenses takes of their union.              *)
LEMMA PartOfUnion ==
    ASSUME NEW v, NEW C, HasLists(v, C), NEW P, P \subseteq C,
           \A i \in P : Before(P, i) = Before(C, i)
    PROVE  /\ HasLists(v, P) /\ Cardinality(AllFresh(v, P)) \in Nat
           /\ Cardinality(AllFresh(v, P)) <= Cardinality(AllFresh(v, C))
<1>1. HasLists(v, P)
  BY FS_Subset DEF HasLists
<1>2. \A i \in P : Fresh(v, P, i) = Fresh(v, C, i)
  BY FreshSame
<1>3. AllFresh(v, P) \in SUBSET AllFresh(v, C)
  BY <1>2 DEF AllFresh
<1> QED BY <1>1, <1>3, AllFreshFinite, FS_Subset

(* The slots of a license are among those of the union.                    *)
LEMMA SlotInRange ==
    ASSUME NEW v, NEW C, HasLists(v, C), NEW i \in C, NEW m \in 1 .. Cardinality(Fresh(v, C, i))
    PROVE  LET start == Cardinality(AllFresh(v, Before(C, i)))
           IN  start \in Nat /\ start + m \in 1 .. Cardinality(AllFresh(v, C))
<1> DEFINE P == Before(C, i)
           D == P \cup {i}
<1>0. C \subseteq Nat
  BY DEF HasLists
<1>1. P \subseteq C /\ \A j \in P : Before(P, j) = Before(C, j)
  <2>1. ASSUME NEW j \in P PROVE \A x \in C : x < j => x \in P
    BY <1>0 DEF Before
  <2> QED BY <2>1, Zenon DEF Before
<1>2. D \subseteq C /\ \A j \in D : Before(D, j) = Before(C, j)
  <2>1. ASSUME NEW j \in D PROVE \A x \in C : x < j => x \in D
    BY <1>0 DEF Before
  <2> QED BY <2>1, Zenon DEF Before
<1>8. D = P \cup {i}
  OBVIOUS
<1>9. i \in DOMAIN v /\ i \in Nat /\ IsSeq(v[i].items) /\ \A j \in P : j < i
  BY DEF HasLists, Before
<1> HIDE DEF D, P
<1>3. HasLists(v, P) /\ Cardinality(AllFresh(v, P)) \in Nat
  BY <1>1, PartOfUnion
<1>4. Cardinality(AllFresh(v, D)) = Cardinality(AllFresh(v, P)) + Cardinality(Fresh(v, D, i))
  BY <1>3, <1>8, <1>9, FreshOfMore
<1>5. Fresh(v, D, i) = Fresh(v, C, i)
  BY <1>2, <1>8, FreshSame
<1>6. Cardinality(AllFresh(v, D)) <= Cardinality(AllFresh(v, C)) /\ Cardinality(AllFresh(v, C)) \in Nat
  BY <1>2, PartOfUnion, AllFreshFinite
<1>7. Cardinality(Fresh(v, C, i)) \in Nat
  BY FreshFacts
<1> QED BY <1>3, <1>4, <1>5, <1>6, <1>7 DEF P

(* A list alone is its own union.                                          *)
LEMMA UnionStarts ==
    ASSUME NEW v, NEW n \in DOMAIN v, n \in Nat, IsSeq(v[n].items)
    PROVE  IsUnion(v[n].items, v, {n})
<1> DEFINE items == v[n].items
<1>1. Len(items) \in Nat /\ DOMAIN items = 1 .. Len(items)
  BY SeqFacts
<1>2. Before({n}, n) = {}
  BY DEF Before
<1>3. Fresh(v, {n}, n) = 1 .. Len(items)
  BY <1>1, <1>2 DEF Fresh
<1>4. AllFresh(v, {}) = {}
  BY DEF AllFresh
<1>5. HasLists(v, {})
  BY FS_EmptySet DEF HasLists
<1>6. Cardinality(AllFresh(v, {n})) = Len(items)
  <2>1. /\ {} \cup {n} = {n}
        /\ Cardinality(AllFresh(v, {} \cup {n})) =
             Cardinality(AllFresh(v, {})) + Cardinality(Fresh(v, {} \cup {n}, n))
    BY <1>5, FreshOfMore
  <2>2. Cardinality(AllFresh(v, {})) = 0 /\ Cardinality(Fresh(v, {n}, n)) = Len(items)
    BY <1>1, <1>3, <1>4, NthOfAll, FS_EmptySet
  <2> QED BY <1>1, <2>1, <2>2
<1>7. ASSUME NEW m \in 1 .. Cardinality(Fresh(v, {n}, n))
      PROVE  items[Cardinality(AllFresh(v, Before({n}, n))) + m] = items[Nth(Fresh(v, {n}, n), m)]
  <2>1. Cardinality(AllFresh(v, Before({n}, n))) = 0
    BY <1>2, <1>4, FS_EmptySet
  <2>2. m \in 1 .. Len(items) /\ Nth(1 .. Len(items), m) = m
    BY <1>1, <1>3, NthOfAll
  <2> QED BY <1>3, <2>1, <2>2
<1>8. UNION {ToSet(v[i].items) : i \in {n}} = ToSet(items)
  OBVIOUS
<1> HIDE DEF items
<1> QED BY <1>6, <1>7, <1>8 DEF IsUnion, items

(* Appending what is missing of the next list.                             *)
LEMMA UnionGrows ==
    ASSUME NEW v, NEW C, HasLists(v, C), NEW n \in DOMAIN v, n \in Nat, IsSeq(v[n].items),
           \A i \in C : i < n, NEW s, IsSeq(s), IsUnion(s, v, C)
    PROVE  LET D == C \cup {n}
           IN  /\ {m \in DOMAIN v[n].items : v[n].items[m] \notin ToSet(s)} = Fresh(v, D, n)
               /\ IsUnion(s \o FreshItems(v, D, n), v, D)
<1> DEFINE D == C \cup {n}
           M == FreshItems(v, D, n)
<1>1. /\ HasLists(v, D) /\ Before(D, n) = C
      /\ \A i \in C : Before(D, i) = Before(C, i) /\ Fresh(v, D, i) = Fresh(v, C, i)
      /\ Cardinality(AllFresh(v, D)) = Cardinality(AllFresh(v, C)) + Cardinality(Fresh(v, D, n))
  BY FreshOfMore
<1>2. Len(s) = Cardinality(AllFresh(v, C)) /\ Len(s) \in Nat
  BY SeqFacts DEF IsUnion
<1>3. n \in D
  OBVIOUS
<1>4. D = C \cup {n}
  OBVIOUS
<1> HIDE DEF D
<1>5. {m \in DOMAIN v[n].items : v[n].items[m] \notin ToSet(s)} = Fresh(v, D, n)
  <2>1. ToSet(s) = UNION {ToSet(v[i].items) : i \in C}
    BY DEF IsUnion
  <2>2. \A x : x \notin ToSet(s) <=> \A j \in C : x \notin ToSet(v[j].items)
    BY <2>1
  <2> QED BY <1>1, <2>2 DEF Fresh
<1>6. /\ IsSeq(M) /\ Len(M) = Cardinality(Fresh(v, D, n))
      /\ ToSet(M) = {v[n].items[m] : m \in Fresh(v, D, n)}
      /\ Cardinality(Fresh(v, D, n)) \in Nat
  BY <1>1, <1>3, FreshItemsFacts, FreshFacts
<1>0. IsSeq(M)
  BY <1>6
<1>00. \A j : M[j] = FreshItems(v, D, n)[j]
  OBVIOUS
<1> HIDE DEF M
<1>7. /\ Len(s \o M) = Len(s) + Len(M) /\ ToSet(s \o M) = ToSet(s) \cup ToSet(M)
      /\ \A j \in 1 .. Len(s) : (s \o M)[j] = s[j]
      /\ \A j \in 1 .. Len(M) : (s \o M)[Len(s) + j] = M[j]
  BY <1>0, ConcatFacts
<1>8. ToSet(s \o M) = UNION {ToSet(v[i].items) : i \in D}
  <2>1. ToSet(s) = UNION {ToSet(v[i].items) : i \in C}
    BY DEF IsUnion
  <2>2. UNION {ToSet(v[i].items) : i \in D} = ToSet(s) \cup ToSet(v[n].items)
    BY <1>4, <2>1
  <2>3. ToSet(s) \cup ToSet(v[n].items) = ToSet(s) \cup ToSet(M)
    BY <1>5, <1>6 DEF ToSet
  <2> QED BY <1>7, <2>2, <2>3
<1>9. ASSUME NEW i \in D, NEW m \in 1 .. Cardinality(Fresh(v, D, i))
      PROVE  (s \o M)[Cardinality(AllFresh(v, Before(D, i))) + m] = v[i].items[Nth(Fresh(v, D, i), m)]
  <2>1. CASE i = n
    BY <1>1, <1>2, <1>00, <1>6, <1>7, <1>9, <2>1 DEF FreshItems
  <2>2. CASE i \in C
    <3> DEFINE q == Cardinality(AllFresh(v, Before(C, i))) + m
    <3>1. s[q] = v[i].items[Nth(Fresh(v, C, i), m)]
      BY <1>1, <1>9, <2>2 DEF IsUnion
    <3>2. q \in 1 .. Len(s)
      BY <1>2, <1>1, <1>9, <2>2, SlotInRange
    <3> QED BY <1>1, <1>7, <2>2, <3>1, <3>2
  <2> QED BY <1>4, <2>1, <2>2
<1>10. IsUnion(s \o M, v, D)
  BY <1>1, <1>2, <1>6, <1>7, <1>8, <1>9 DEF IsUnion
<1> QED BY <1>5, <1>10 DEF D, M

---------------------------------------------------------------------------
(* The values that count after one more license.                           *)
LEMMA CountedSkips ==
    ASSUME NEW v, DOMAIN v \subseteq Nat, NEW n \in Nat, n > 0, n \notin DOMAIN v
    PROVE  Counted(v, n) = Counted(v, n - 1)
<1>1. \A i \in DOMAIN v : i <= n <=> i <= n - 1
  OBVIOUS
<1> QED BY <1>1, Zenon DEF Counted

LEMMA CountedGrows ==
    ASSUME NEW v, DOMAIN v \subseteq Nat, NEW n \in DOMAIN v, NEW last \in Counted(v, n - 1),
           v[last].kind = v[n].kind
    PROVE  Counted(v, n) = Counted(v, n - 1) \cup {n}
<1>1. ASSUME NEW i \in Counted(v, n - 1) PROVE i \in Counted(v, n)
  <2>1. v[i].kind = v[last].kind
    BY <1>1 DEF Counted
  <2>2. \A j \in DOMAIN v : j <= n <=> j <= n - 1 \/ j = n
    OBVIOUS
  <2> QED BY <1>1, <2>1, <2>2 DEF Counted
<1>2. n \in Counted(v, n)
  BY DEF Counted
<1>3. ASSUME NEW i \in Counted(v, n), i # n PROVE i \in Counted(v, n - 1)
  BY <1>3 DEF Counted
<1> QED BY <1>1, <1>2, <1>3

LEMMA CountedRestarts ==
    ASSUME NEW v, DOMAIN v \subseteq Nat, NEW n \in DOMAIN v,
           \/ \A i \in DOMAIN v : i >= n
           \/ \E last \in Counted(v, n - 1) : v[last].kind # v[n].kind
    PROVE  Counted(v, n) = {n}
<1>1. n \in Counted(v, n)
  BY DEF Counted
<1>2. ASSUME NEW i \in Counted(v, n), i # n PROVE FALSE
  <2>1. i \in Counted(v, n - 1) /\ v[i].kind = v[n].kind /\ i < n /\ i \in DOMAIN v
    BY <1>2 DEF Counted
  <2>2. PICK last \in Counted(v, n - 1) : v[last].kind # v[n].kind
    BY <2>1
  <2>3. v[last].kind = v[i].kind
    BY <2>1, <2>2 DEF Counted
  <2> QED BY <2>1, <2>2, <2>3
<1> QED BY <1>1, <1>2

(* Those that count are all from the first of them on.                     *)
IsFirst(C, i) == i \in C /\ \A j \in C : i <= j

LEMMA CountedIs ==
    ASSUME NEW v, DOMAIN v \subseteq Nat, NEW n \in Nat, NEW first, IsFirst(Counted(v, n), first)
    PROVE  Counted(v, n) = {j \in DOMAIN v : first <= j /\ j <= n}
<1>1. ASSUME NEW j \in Counted(v, n) PROVE j \in DOMAIN v /\ first <= j /\ j <= n
  BY <1>1 DEF Counted, IsFirst
<1>2. ASSUME NEW j \in DOMAIN v, first <= j, j <= n PROVE j \in Counted(v, n)
  <2>1. /\ first \in DOMAIN v
        /\ \A i \in DOMAIN v : first <= i /\ i <= n => v[i].kind = v[first].kind
    BY DEF Counted, IsFirst
  <2>2. \A i \in DOMAIN v : j <= i => first <= i
    BY <1>2, <2>1
  <2> QED BY <1>2, <2>1, <2>2 DEF Counted
<1> QED BY <1>1, <1>2

(* Of two requests whose lists started in one array, the one that is       *)
(* behind n has all that counts for the other, or is not there yet.        *)
LEMMA SameStart ==
    ASSUME NEW v, DOMAIN v \subseteq Nat, NEW n \in DOMAIN v, NEW m \in Nat, NEW first,
           n > 0, IsFirst(Counted(v, n - 1), first), IsFirst(Counted(v, m), first)
    PROVE  LET C == Counted(v, n - 1)
               D == Counted(v, m)
           IN  \/ n \in D /\ Before(D, n) = C
               \/ D \subseteq C /\ \A i \in D : Before(D, i) = Before(C, i)
<1> DEFINE C == Counted(v, n - 1)
           D == Counted(v, m)
<1>1. n - 1 \in Nat
  OBVIOUS
<1>2. C = {j \in DOMAIN v : first <= j /\ j <= n - 1}
  BY <1>1, CountedIs
<1>3. D = {j \in DOMAIN v : first <= j /\ j <= m}
  BY CountedIs
<1>4. first \in Nat /\ first <= n
  BY DEF IsFirst, Counted
<1> HIDE DEF C, D
<1>5. CASE n <= m
  <2>1. n \in D
    BY <1>3, <1>4, <1>5
  <2>2. \A j \in DOMAIN v : j <= m /\ j < n <=> j <= n - 1
    BY <1>5
  <2>3. Before(D, n) = C
    BY <1>2, <1>3, <2>2, Zenon DEF Before
  <2> QED BY <2>1, <2>3 DEF C, D
<1>6. CASE m < n
  <2>1. \A j \in DOMAIN v : j <= m => j <= n - 1
    BY <1>6
  <2>2. D \subseteq C
    BY <1>2, <1>3, <2>1, Zenon
  <2>3. ASSUME NEW i \in D PROVE Before(D, i) = Before(C, i)
    <3>1. \A j \in DOMAIN v : j < i => j <= m
      BY <1>3, <1>6
    <3>2. \A j \in C : j < i => j \in D
      BY <1>2, <1>3, <3>1, Zenon
    <3> QED BY <2>2, <3>2, Zenon DEF Before
  <2> QED BY <2>2, <2>3 DEF C, D
<1> QED BY <1>5, <1>6

(* So whatever is appended to the list of one is in the list of the other  *)
(* already, as far as that one reaches.                                    *)
LEMMA SameSlot ==
    ASSUME NEW v, NEW C, NEW D, NEW n \in DOMAIN v, n \in Nat, IsSeq(v[n].items),
           HasLists(v, C), HasLists(v, D), \A i \in C : i < n,
           \/ n \in D /\ Before(D, n) = C
           \/ D \subseteq C /\ \A i \in D : Before(D, i) = Before(C, i),
           NEW s, IsUnion(s, v, C), NEW t, IsUnion(t, v, D),
           NEW j \in 1 .. Len(FreshItems(v, C \cup {n}, n)), Len(s) + j <= Len(t)
    PROVE  t[Len(s) + j] = FreshItems(v, C \cup {n}, n)[j]
<1> DEFINE E == C \cup {n}
<1>1. Len(s) = Cardinality(AllFresh(v, C)) /\ Len(s) \in Nat
  BY AllFreshFinite DEF IsUnion
<1>2. Len(t) = Cardinality(AllFresh(v, D)) /\ Len(t) \in Nat
  BY AllFreshFinite DEF IsUnion
<1>3. HasLists(v, E) /\ Before(E, n) = C
  BY FreshOfMore
<1>4. n \in E
  OBVIOUS
<1>5. Len(FreshItems(v, E, n)) = Cardinality(Fresh(v, E, n)) /\ Cardinality(Fresh(v, E, n)) \in Nat
  BY <1>3, <1>4, FreshItemsFacts, FreshFacts
<1>6. CASE n \in D /\ Before(D, n) = C
  <2>1. Fresh(v, D, n) = Fresh(v, E, n)
    BY <1>3, <1>6, FreshSame
  <2>2. j \in 1 .. Cardinality(Fresh(v, D, n))
    BY <1>5, <2>1
  <2>3. t[Len(s) + j] = v[n].items[Nth(Fresh(v, D, n), j)]
    BY <1>1, <1>6, <2>2 DEF IsUnion
  <2> QED BY <2>1, <2>2, <2>3 DEF FreshItems
<1>7. CASE D \subseteq C /\ \A i \in D : Before(D, i) = Before(C, i)
  <2>1. Len(t) <= Len(s)
    BY <1>1, <1>2, <1>7, PartOfUnion
  <2> QED BY <1>1, <1>2, <1>5, <2>1
<1> QED BY <1>6, <1>7

---------------------------------------------------------------------------
(* Numbers.                                                                *)
HasNumbers(v, C) ==
    C \subseteq DOMAIN v /\ IsFiniteSet(C) /\ \A i \in C : v[i].n \in Float

LEMMA MaxFacts ==
    ASSUME NEW S, S \subseteq Nat, IsFiniteSet(S), S # {}
    PROVE  Max(S) \in S /\ \A i \in S : i <= Max(S)
<1> DEFINE m == Nth(S, Cardinality(S))
           T == {i \in S : i <= m}
<1>1. Cardinality(S) \in 1 .. Cardinality(S)
  BY FS_CardinalityType, FS_EmptySet
<1>2. m \in S /\ Cardinality(T) = Cardinality(S)
  BY <1>1, Ranks DEF Rank
<1>3. T = S
  <2>1. T \in SUBSET S
    OBVIOUS
  <2> HIDE DEF T
  <2> QED BY <1>2, <2>1, FS_Subset
<1>4. m \in S /\ \A i \in S : i <= m
  BY <1>2, <1>3
<1> HIDE DEF m
<1>5. \A i \in S : m >= i
  BY <1>4
<1>6. Max(S) \in S /\ \A i \in S : Max(S) >= i
  BY <1>4, <1>5 DEF Max
<1> QED BY <1>6

LEMMA MaxIs ==
    ASSUME NEW S, S \subseteq Nat, NEW m \in S, \A i \in S : i <= m
    PROVE  Max(S) = m
<1>1. \A i \in S : m >= i
  OBVIOUS
<1>2. Max(S) \in S /\ \A i \in S : Max(S) >= i
  BY <1>1 DEF Max
<1>3. PICK x : x = Max(S)
  OBVIOUS
<1>4. x \in Nat /\ m \in Nat /\ x >= m /\ x <= m
  BY <1>2, <1>3
<1>5. x = m
  BY <1>4
<1> QED BY <1>3, <1>5

LEMMA BeforeGrows ==
    ASSUME NEW C, C \subseteq Nat, NEW n \in Nat, \A i \in C : i < n
    PROVE  /\ Before(C \cup {n}, n) = C
           /\ \A i \in C : Before(C \cup {n}, i) = Before(C, i)
<1>1. Before(C \cup {n}, n) = C
  <2>1. \A j : j \in Before(C \cup {n}, n) <=> j \in C \cup {n} /\ j < n
    BY DEF Before
  <2>2. ~(n < n)
    OBVIOUS
  <2> QED BY <2>1, <2>2
<1>2. ASSUME NEW i \in C PROVE Before(C \cup {n}, i) = Before(C, i)
  <2>1. \A j : j \in Before(C \cup {n}, i) <=> j \in C \cup {n} /\ j < i
    BY DEF Before
  <2>2. \A j : j \in Before(C, i) <=> j \in C /\ j < i
    BY DEF Before
  <2>3. ~(n < i)
    OBVIOUS
  <2> QED BY <2>1, <2>2, <2>3
<1> QED BY <1>1, <1>2

LEMMA SumStarts ==
    ASSUME NEW v, NEW n \in Nat, v[n].n \in Float
    PROVE  IsSum(v[n].n, v, {n})
<1> DEFINE part == [i \in {n} |-> v[n].n]
<1>1. part \in [{n} -> Float] /\ part[n] = v[n].n
  OBVIOUS
<1>2. Before({n}, n) = {}
  BY DEF Before
<1>3. Max({n}) = n
  BY MaxIs
<1> HIDE DEF part
<1> QED BY <1>1, <1>2, <1>3 DEF IsSum

LEMMA SumGrows ==
    ASSUME NEW v, NEW C, C \subseteq Nat, HasNumbers(v, C), C # {}, NEW x, IsSum(x, v, C),
           NEW n \in Nat, \A i \in C : i < n, v[n].n \in Float
    PROVE  IsSum(Plus[<<x, v[n].n>>], v, C \cup {n})
<1> DEFINE D == C \cup {n}
<1>1. PICK part \in [C -> Float] :
         /\ \A i \in C : part[i] = IF Before(C, i) = {} THEN v[i].n
                                  ELSE Plus[<<part[Max(Before(C, i))], v[i].n>>]
         /\ x = part[Max(C)]
  BY DEF IsSum
<1>2. Max(C) \in C
  BY MaxFacts DEF HasNumbers
<1>3. PICK y : y = Plus[<<x, v[n].n>>]
  OBVIOUS
<1>4. y \in Float
  BY <1>1, <1>2, <1>3, ProductsAssumption
<1> DEFINE more == [i \in D |-> IF i = n THEN y ELSE part[i]]
<1>5. more \in [D -> Float] /\ more[n] = y /\ \A i \in C : more[i] = part[i]
  BY <1>1, <1>4
<1>6. /\ Before(D, n) = C
      /\ \A i \in C : Before(D, i) = Before(C, i)
  BY BeforeGrows
<1>7. Max(D) = n
  <2>1. D \subseteq Nat /\ n \in D /\ \A i \in D : i <= n
    OBVIOUS
  <2> HIDE DEF D
  <2> QED BY <2>1, MaxIs
<1>8. ASSUME NEW i \in C, Before(C, i) # {} PROVE Max(Before(C, i)) \in C
  <2>1. Before(C, i) \in SUBSET C
    BY DEF Before
  <2>2. IsFiniteSet(Before(C, i))
    BY <2>1, FS_Subset DEF HasNumbers
  <2> QED BY <1>8, <2>1, <2>2, MaxFacts
<1> HIDE DEF more
<1>9. ASSUME NEW i \in D
      PROVE  more[i] = IF Before(D, i) = {} THEN v[i].n
                       ELSE Plus[<<more[Max(Before(D, i))], v[i].n>>]
  <2>1. CASE i = n
    BY <1>1, <1>2, <1>3, <1>5, <1>6, <2>1
  <2>2. CASE i \in C
    BY <1>1, <1>5, <1>6, <1>8, <2>2
  <2> QED BY <2>1, <2>2
<1>10. IsSum(y, v, D)
  <2>1. more[Max(D)] = y
    BY <1>5, <1>7
  <2> HIDE DEF D
  <2> QED BY <1>5, <1>9, <2>1 DEF IsSum
<1> QED BY <1>3, <1>10

---------------------------------------------------------------------------
(* What a request has at any time is the aggregate of the licenses it has  *)
(* passed so far; a list that is still where it was decoded is where the   *)
(* first of those that count was.                                          *)

Passed(r, p) == IF p \in left[r] THEN at[r] - 1 ELSE at[r]

HeldType(h) ==
    \/ h \in [kind : {"number"}, n : Float]
    \/ h \in [kind : {"other"}, v : Item]
    \/ /\ DOMAIN h = {"kind", "array", "len", "items"} /\ h.kind = "list"
       /\ h.len \in Nat /\ h.items \in Seq(Item)

HeldFits(h, g, p, k, n) ==
    LET v == ValuesOf(lists[g], p, k)
    IN  /\ HeldType(h)
        /\ IsAggregate(h, v, n)
        /\ h.kind = "list" /\ h.array # Own =>
              \E first \in Counted(v, n) : /\ IsFirst(Counted(v, n), first)
                                           /\ h.array = <<g, first, p, k>>
                                           /\ h.len <= Capacity(h.array)

EntryFits(e, g, p, n) ==
    /\ DOMAIN e = {"claims", "expiry", "dn"} /\ e.dn \in Seq(Item)
    /\ IsEntry(e, lists[g], p, n)
    /\ \A k \in DOMAIN e.claims : HeldFits(e.claims[k], g, p, k, n)

Answers(r) ==
    /\ pc[r] = "off" => entries[r] = <<>>
    /\ pc[r] # "off" =>
          /\ DOMAIN entries[r] =
                {p \in wanted[r] : \E i \in 1 .. Passed(r, p) :
                                       p \in DOMAIN lists[list[r]][i].products}
          /\ \A p \in DOMAIN entries[r] : EntryFits(entries[r][p], list[r], p, Passed(r, p))
    /\ pc[r] = "done" => left[r] = {} /\ at[r] = Len(lists[list[r]])

AnswerInv == \A r \in Request : Answers(r)

LEMMA ValuesFacts ==
    ASSUME LicensesInv, NEW g \in DOMAIN lists, NEW p, NEW k
    PROVE  LET v == ValuesOf(lists[g], p, k)
           IN  /\ DOMAIN v \subseteq 1 .. Len(lists[g]) /\ DOMAIN v \subseteq Nat
               /\ \A i : i \in DOMAIN v <=>
                     /\ i \in 1 .. Len(lists[g]) /\ Counts(lists[g][i], p)
                     /\ k \in DOMAIN lists[g][i].products[p].claims
               /\ \A i \in DOMAIN v :
                     /\ v[i] = lists[g][i].products[p].claims[k] /\ IsClaim(v[i])
                     /\ v[i].kind = "list" => IsListAt(g, i, p, k)
<1> DEFINE l == lists[g]
           v == ValuesOf(l, p, k)
<1>1. DOMAIN l = 1 .. Len(l) /\ Len(l) \in Nat
  BY SeqFacts DEF LicensesInv
<1>2. /\ DOMAIN v = {i \in DOMAIN l : Counts(l[i], p) /\ k \in DOMAIN l[i].products[p].claims}
      /\ \A i \in DOMAIN v : v[i] = l[i].products[p].claims[k]
  BY DEF ValuesOf
<1>3. \A i \in DOMAIN l : IsLicense(l[i])
  BY DEF LicensesInv
<1> HIDE DEF v
<1>4. ASSUME NEW i \in DOMAIN v
      PROVE  IsClaim(v[i]) /\ (v[i].kind = "list" => IsListAt(g, i, p, k))
  <2>1. i \in DOMAIN l /\ p \in DOMAIN l[i].products /\ k \in DOMAIN l[i].products[p].claims
    BY <1>2 DEF Counts
  <2>2. IsClaim(v[i])
    BY <1>2, <1>3, <2>1 DEF IsLicense
  <2> QED BY <1>2, <2>1, <2>2 DEF IsListAt
<1> QED BY <1>1, <1>2, <1>4 DEF v

(* A claim of some values: positions and kinds.                            *)
Values(v) == DOMAIN v \subseteq Nat /\ \A i \in DOMAIN v : IsClaim(v[i])

LEMMA ClaimFacts ==
    ASSUME NEW x, IsClaim(x)
    PROVE  /\ x.kind \in {"number", "list", "other"}
           /\ x.kind = "list" => x.items \in Seq(Item) /\ IsSeq(x.items) /\ x.spare \in Nat
           /\ x.kind = "number" => x.n \in Float /\ x \in [kind : {"number"}, n : Float]
           /\ x.kind = "other" => x \in [kind : {"other"}, v : Item]
<1>1. CASE x \in [kind : {"number"}, n : Finite]
  BY <1>1, ProductsAssumption
<1>2. CASE x \in [kind : {"other"}, v : Item]
  BY <1>2
<1>3. CASE x \in [kind : {"list"}, items : Seq(Item), spare : Nat]
  BY <1>3 DEF IsSeq
<1> QED BY <1>1, <1>2, <1>3 DEF IsClaim

LEMMA RunFacts ==
    ASSUME NEW v, Values(v), NEW n \in Nat, NEW last \in Counted(v, n)
    PROVE  LET C == Counted(v, n)
           IN  /\ C \subseteq DOMAIN v /\ IsFiniteSet(C) /\ \A i \in C : i <= n
               /\ \A i \in C : v[i].kind = v[last].kind
               /\ v[last].kind = "list" => HasLists(v, C)
               /\ v[last].kind = "number" => HasNumbers(v, C)
<1> DEFINE C == Counted(v, n)
<1>1. C \subseteq DOMAIN v /\ \A i \in C : i <= n
  BY DEF Counted
<1>2. C \in SUBSET (0 .. n)
  BY <1>1 DEF Values
<1>3. IsFiniteSet(C)
  <2>1. IsFiniteSet(0 .. n)
    BY FS_Interval
  <2> QED BY <1>2, <2>1, FS_Subset
<1>4. \A i \in C : v[i].kind = v[last].kind
  <2> SUFFICES ASSUME NEW i \in C PROVE v[i].kind = v[last].kind
    OBVIOUS
  <2>1. i <= last \/ last <= i
    BY <1>1 DEF Values
  <2> QED BY <2>1 DEF Counted
<1>5. \A i \in C : IsClaim(v[i])
  BY <1>1 DEF Values
<1> HIDE DEF C
<1>6. v[last].kind = "list" => HasLists(v, C)
  BY <1>1, <1>3, <1>4, <1>5, ClaimFacts DEF HasLists, Values
<1>7. v[last].kind = "number" => HasNumbers(v, C)
  BY <1>1, <1>3, <1>4, <1>5, ClaimFacts DEF HasNumbers
<1> QED BY <1>1, <1>3, <1>4, <1>6, <1>7 DEF C

---------------------------------------------------------------------------
(* The slice of a list, and what one more license appends to it.           *)
LEMMA ItemsFacts ==
    ASSUME NEW h, HeldType(h), h.kind = "list"
    PROVE  /\ IsSeq(Items(h))
           /\ h.array = Own => Items(h) = h.items /\ h.items \in Seq(Item)
           /\ h.array # Own => /\ Items(h) = [j \in 1 .. h.len |-> mem[h.array][j]]
                               /\ Len(Items(h)) = h.len
           /\ h.len \in Nat /\ {"kind", "array", "len", "items"} = DOMAIN h
<1>1. h.len \in Nat /\ h.items \in Seq(Item) /\ DOMAIN h = {"kind", "array", "len", "items"}
  BY DEF HeldType
<1>2. CASE h.array = Own
  BY <1>1, <1>2 DEF Items, IsSeq
<1>3. CASE h.array # Own
  <2>1. Items(h) = [j \in 1 .. h.len |-> mem[h.array][j]]
    BY <1>3 DEF Items
  <2>2. Items(h) \in Seq({mem[h.array][j] : j \in 1 .. h.len}) /\ Len(Items(h)) = h.len
    BY <1>1, <2>1
  <2> QED BY <1>1, <1>3, <2>1, <2>2 DEF IsSeq
<1> QED BY <1>1, <1>2, <1>3

LEMMA MissingIs ==
    ASSUME NEW v, NEW D, NEW n, NEW h,
           {m \in DOMAIN v[n].items : v[n].items[m] \notin ToSet(Items(h))} = Fresh(v, D, n)
    PROVE  Missing(h, v[n].items) = FreshItems(v, D, n)
BY Zenon DEF Missing, FreshItems

(* The union of lists has their items.                                     *)
LEMMA UnionItems ==
    ASSUME NEW v, NEW C, \A i \in C : v[i].items \in Seq(Item), NEW s, IsSeq(s), IsUnion(s, v, C)
    PROVE  s \in Seq(Item)
<1>1. PICK S : s \in Seq(S)
  BY DEF IsSeq
<1>2. \A i \in C : ToSet(v[i].items) \subseteq Item
  BY DEF ToSet
<1>3. ToSet(s) \subseteq Item
  BY <1>2 DEF IsUnion
<1>4. /\ Len(s) \in Nat /\ DOMAIN s = 1 .. Len(s) /\ s = [j \in 1 .. Len(s) |-> s[j]]
      /\ \A j \in 1 .. Len(s) : s[j] \in Item
  BY <1>1, <1>3 DEF ToSet
<1>5. [j \in 1 .. Len(s) |-> s[j]] \in Seq(Item)
  BY <1>4
<1> QED BY <1>4, <1>5

LEMMA AddIsFresh ==
    ASSUME NEW v, Values(v), NEW n \in DOMAIN v, n > 0, v[n].kind = "list",
           NEW h, HeldType(h), IsAggregate(h, v, n - 1), h.kind = "list"
    PROVE  LET C == Counted(v, n - 1)
               M == FreshItems(v, C \cup {n}, n)
           IN  /\ HasLists(v, C) /\ \A i \in C : i < n
               /\ Counted(v, n) = C \cup {n}
               /\ IsSeq(v[n].items) /\ n \in Nat
               /\ IsUnion(Items(h), v, C) /\ IsSeq(Items(h))
               /\ Missing(h, v[n].items) = M /\ IsSeq(M)
               /\ IsUnion(Items(h) \o M, v, C \cup {n})
               /\ Items(h) \o M \in Seq(Item)
<1> DEFINE C == Counted(v, n - 1)
           D == C \cup {n}
           M == FreshItems(v, D, n)
<1>1. n \in Nat /\ n - 1 \in Nat /\ DOMAIN v \subseteq Nat
  BY DEF Values
<1>2. PICK last \in C : v[last].kind = "list" /\ IsUnion(Items(h), v, C)
  BY Zenon DEF IsAggregate
<1>3. /\ HasLists(v, C) /\ \A i \in C : i <= n - 1 /\ v[i].kind = "list"
      /\ C \subseteq DOMAIN v
  BY <1>1, <1>2, RunFacts
<1>4. \A i \in C : i < n
  BY <1>1, <1>3
<1>5. Counted(v, n) = D
  BY <1>1, <1>2, CountedGrows
<1>6. IsSeq(v[n].items) /\ IsSeq(Items(h))
  BY ClaimFacts, ItemsFacts DEF Values
<1>7. /\ {m \in DOMAIN v[n].items : v[n].items[m] \notin ToSet(Items(h))} = Fresh(v, D, n)
      /\ IsUnion(Items(h) \o M, v, D)
  BY <1>1, <1>2, <1>3, <1>4, <1>6, UnionGrows
<1>8. Missing(h, v[n].items) = M
  BY <1>7, MissingIs
<1>9. HasLists(v, D)
  BY <1>1, <1>3, <1>4, <1>6, FreshOfMore
<1>10. IsSeq(M)
  BY <1>9, FreshItemsFacts
<1>11. \A i \in D : v[i].items \in Seq(Item)
  BY <1>3, ClaimFacts DEF Values
<1> HIDE DEF C, M
<1>12. IsSeq(Items(h) \o M)
  BY <1>6, <1>10, ConcatFacts
<1>13. Items(h) \o M \in Seq(Item)
  BY <1>7, <1>11, <1>12, UnionItems
<1> QED BY <1>1, <1>2, <1>3, <1>4, <1>5, <1>6, <1>7, <1>8, <1>10, <1>13 DEF C, M

---------------------------------------------------------------------------
(* Where a request is when it visits a product, and what it has of that.   *)
LEMMA VisitFacts ==
    ASSUME ArrayInv, AnswerInv, NEW r \in Request, NEW p, Visit(r, p)
    PROVE  LET g == list[r]
               n == at[r]
               l == lists[g]
           IN  /\ g \in DOMAIN lists /\ n \in 1 .. Len(l) /\ n \in Nat /\ n > 0
               /\ DOMAIN l = 1 .. Len(l) /\ Len(l) \in Nat
               /\ pc[r] = "run" /\ p \in left[r] /\ Passed(r, p) = n - 1
               /\ License(r) = l[n] /\ p \in DOMAIN l[n].products /\ IsLicense(l[n])
               /\ p \in wanted[r] => EntryFits(EntryOf(r, p), g, p, n - 1)
<1> DEFINE g == list[r]
           n == at[r]
           l == lists[g]
<1>1. pc[r] = "run" /\ p \in left[r]
  BY Zenon DEF Visit
<1>2. /\ g \in DOMAIN lists /\ n \in 0 .. Len(l) /\ n > 0 /\ p \in DOMAIN License(r).products
  BY <1>1, Zenon DEF ArrayInv, RequestInv
<1>3. License(r) = l[n]
  BY DEF License
<1>4. DOMAIN l = 1 .. Len(l) /\ Len(l) \in Nat
  BY <1>2, SeqFacts DEF ArrayInv, LicensesInv
<1>5. n \in 1 .. Len(l) /\ n \in Nat
  BY <1>2, <1>4
<1>7. IsLicense(l[n])
  BY <1>2, <1>4, <1>5 DEF ArrayInv, LicensesInv
<1>8. Passed(r, p) = n - 1
  BY <1>1 DEF Passed
<1> HIDE DEF g, n, l
<1>10. ASSUME p \in wanted[r] PROVE EntryFits(EntryOf(r, p), g, p, n - 1)
  <2>1. /\ DOMAIN entries[r] = {q \in wanted[r] : \E i \in 1 .. Passed(r, q) :
                                                     q \in DOMAIN lists[list[r]][i].products}
        /\ \A q \in DOMAIN entries[r] : EntryFits(entries[r][q], list[r], q, Passed(r, q))
    BY <1>1 DEF AnswerInv, Answers
  <2>2. CASE p \in DOMAIN entries[r]
    BY <1>8, <2>1, <2>2 DEF EntryOf, g
  <2>3. CASE p \notin DOMAIN entries[r]
    <3>1. \A i \in 1 .. n - 1 : ~Counts(l[i], p)
      BY <1>1, <1>8, <1>10, <2>1, <2>3 DEF Counts, g, l
    <3>2. Counting(l, p, n - 1) = {}
      BY <3>1 DEF Counting
    <3>3. EntryOf(r, p) = [claims |-> <<>>, expiry |-> <<>>, dn |-> <<>>]
      BY <2>3 DEF EntryOf, NewEntry
    <3>4. IsEntry(EntryOf(r, p), l, p, n - 1)
      <4> DEFINE empty == <<>>
      <4>1. DOMAIN empty = {} /\ ToSet(empty) = {} /\ IsInjective(empty)
        BY DEF ToSet, IsInjective
      <4>2. Cardinality({}) = 0
        BY FS_EmptySet
      <4>3. \A f : [m \in 1 .. 0 |-> f[m]] = empty
        OBVIOUS
      <4>4. [m \in 1 .. Cardinality({}) |-> l[Nth({}, m)].exp] = empty
        BY <4>2
      <4> HIDE DEF empty
      <4>5. /\ EntryOf(r, p).claims = empty /\ EntryOf(r, p).expiry = empty
            /\ EntryOf(r, p).dn = empty
        BY <3>3 DEF empty
      <4>6. /\ {l[i].dn : i \in {}} \ {NoName} = {}
            /\ UNION {DOMAIN l[i].products[p].claims : i \in {}} = {}
        OBVIOUS
      <4>7. \A k \in DOMAIN EntryOf(r, p).claims : FALSE
        BY <4>1, <4>5
      <4> QED BY <3>2, <4>1, <4>4, <4>5, <4>6, <4>7, Zenon DEF IsEntry
    <3> QED BY <3>3, <3>4 DEF EntryFits, l
  <2> QED BY <2>2, <2>3
<1> QED BY <1>1, <1>2, <1>3, <1>4, <1>5, <1>7, <1>8, <1>10 DEF g, n, l

LEMMA AggregateFacts ==
    ASSUME ArrayInv, AnswerInv, NEW r \in Request, NEW p \in Product, Aggregate(r, p)
    PROVE  LET g == list[r]
               n == at[r]
               values == lists[g][n].products[p].claims
           IN  /\ g \in DOMAIN lists /\ n \in 1 .. Len(lists[g]) /\ n \in Nat /\ n > 0
               /\ pc[r] = "run" /\ p \in left[r] /\ p \in wanted[r] /\ Passed(r, p) = n - 1
               /\ Counts(lists[g][n], p) /\ IsLicense(lists[g][n])
               /\ \A k : LET v == ValuesOf(lists[g], p, k)
                         IN  /\ Values(v)
                             /\ n \in DOMAIN v <=> k \in DOMAIN values
                             /\ k \in DOMAIN values => v[n] = values[k]
               /\ EntryFits(EntryOf(r, p), g, p, n - 1)
<1> DEFINE g == list[r]
           n == at[r]
           l == lists[g]
           values == l[n].products[p].claims
<1>1. Visit(r, p) /\ p \in wanted[r] /\ ~License(r).products[p].exclusive
  BY Zenon DEF Aggregate
<1>2. /\ g \in DOMAIN lists /\ n \in 1 .. Len(l) /\ n \in Nat /\ n > 0
      /\ pc[r] = "run" /\ p \in left[r] /\ Passed(r, p) = n - 1
      /\ License(r) = l[n] /\ p \in DOMAIN l[n].products /\ IsLicense(l[n])
      /\ EntryFits(EntryOf(r, p), g, p, n - 1)
  BY <1>1, VisitFacts
<1>6. Counts(l[n], p)
  BY <1>1, <1>2 DEF Counts
<1>9. ASSUME NEW k
      PROVE  LET v == ValuesOf(l, p, k)
             IN  /\ Values(v)
                 /\ n \in DOMAIN v <=> k \in DOMAIN values
                 /\ k \in DOMAIN values => v[n] = values[k]
  <2> DEFINE v == ValuesOf(l, p, k)
  <2>1. /\ DOMAIN v \subseteq Nat /\ \A i \in DOMAIN v : IsClaim(v[i])
        /\ n \in DOMAIN v <=> /\ n \in 1 .. Len(l) /\ Counts(l[n], p)
                              /\ k \in DOMAIN values
        /\ n \in DOMAIN v => v[n] = values[k]
    <3>1. LicensesInv /\ g \in DOMAIN lists
      BY <1>2 DEF ArrayInv
    <3> HIDE DEF g, n, v
    <3>2. /\ DOMAIN v \subseteq Nat
          /\ \A i : i \in DOMAIN v <=>
                /\ i \in 1 .. Len(lists[g]) /\ Counts(lists[g][i], p)
                /\ k \in DOMAIN lists[g][i].products[p].claims
          /\ \A i \in DOMAIN v : v[i] = lists[g][i].products[p].claims[k] /\ IsClaim(v[i])
      BY <3>1, ValuesFacts DEF v
    <3> QED BY <3>2, Zenon
  <2> QED BY <1>2, <1>6, <2>1, Zenon DEF Values
<1> QED BY <1>1, <1>2, <1>6, <1>9

(* The slice h of a request shows the same after a step.                   *)
Stays(h) ==
    h.kind = "list" => /\ Items(h)' = Items(h)
                       /\ h.array # Own => Capacity(h.array)' = Capacity(h.array)

LEMMA StaysInPlace ==
    ASSUME NEW h, HeldType(h), h.array # Own => mem'[h.array] = mem[h.array]
    PROVE  Stays(h)
<1>1. CASE h.array = Own
  BY <1>1 DEF Stays, Items
<1>2. CASE h.array # Own
  BY <1>2 DEF Stays, Items, Capacity
<1> QED BY <1>1, <1>2

(* The list a claim is held in was decoded, and its array is there.        *)
LEMMA HeldWhere ==
    ASSUME ArrayInv, NEW g \in DOMAIN lists, NEW p, NEW k, NEW n \in Nat,
           NEW h, HeldFits(h, g, p, k, n), h.kind = "list", h.array # Own
    PROVE  LET v == ValuesOf(lists[g], p, k)
           IN  /\ Values(v) /\ HasLists(v, Counted(v, n)) /\ IsUnion(Items(h), v, Counted(v, n))
               /\ h.array \in DOMAIN mem /\ Capacity(h.array) \in Nat
               /\ \E first : /\ IsFirst(Counted(v, n), first) /\ h.array = <<g, first, p, k>>
                             /\ h.len <= Capacity(h.array)
<1>0. PICK v : v = ValuesOf(lists[g], p, k)
  OBVIOUS
<1>1. /\ DOMAIN v \subseteq Nat /\ \A i \in DOMAIN v : IsClaim(v[i])
      /\ \A i \in DOMAIN v : v[i].kind = "list" => IsListAt(g, i, p, k)
  BY <1>0, ValuesFacts DEF ArrayInv
<1>2. Values(v)
  BY <1>1 DEF Values
<1>3. PICK last \in Counted(v, n) : v[last].kind = "list" /\ IsUnion(Items(h), v, Counted(v, n))
  BY <1>0, Zenon DEF HeldFits, IsAggregate
<1>4. /\ HasLists(v, Counted(v, n)) /\ Counted(v, n) \subseteq DOMAIN v
      /\ \A i \in Counted(v, n) : v[i].kind = "list"
  BY <1>2, <1>3, RunFacts
<1>5. PICK first \in Counted(v, n) : /\ IsFirst(Counted(v, n), first)
                                     /\ h.array = <<g, first, p, k>>
                                     /\ h.len <= Capacity(h.array)
  BY <1>0, Zenon DEF HeldFits
<1>6. IsListAt(g, first, p, k)
  BY <1>1, <1>4, <1>5
<1>7. h.array \in DOMAIN mem /\ Capacity(h.array) \in Nat
  BY <1>5, <1>6 DEF ArrayInv, MemInv
<1> QED BY <1>0, <1>2, <1>3, <1>4, <1>5, <1>7

LEMMA HeldExists ==
    ASSUME ArrayInv, NEW g \in DOMAIN lists, NEW p, NEW k, NEW n \in Nat,
           NEW h, HeldFits(h, g, p, k, n), h.kind = "list", h.array # Own
    PROVE  h.array \in DOMAIN mem
BY HeldWhere

(* What a request appends in place is what every other slice of the array  *)
(* has there, if it reaches so far.                                        *)
LEMMA AppendIsShared ==
    ASSUME ArrayInv, NEW g \in DOMAIN lists, NEW p, NEW k, NEW n \in DOMAIN ValuesOf(lists[g], p, k),
           n > 0, NEW m \in Nat,
           NEW s, HeldFits(s, g, p, k, n - 1), s.kind = "list", s.array # Own,
           ValuesOf(lists[g], p, k)[n].kind = "list",
           NEW h, HeldFits(h, g, p, k, m), h.kind = "list", h.array = s.array
    PROVE  LET slots == Slots(s, Missing(s, ValuesOf(lists[g], p, k)[n].items))
           IN  /\ Len(slots) = Capacity(s.array)
               /\ \A j \in 1 .. h.len : slots[j] = mem[s.array][j]
<1>0. PICK v : v = ValuesOf(lists[g], p, k)
  OBVIOUS
<1> DEFINE C == Counted(v, n - 1)
           D == Counted(v, m)
           M == FreshItems(v, C \cup {n}, n)
           slots == Slots(s, M)
<1>1. Values(v) /\ n \in DOMAIN v /\ n \in Nat /\ n - 1 \in Nat /\ DOMAIN v \subseteq Nat
  BY <1>0, ValuesFacts DEF ArrayInv, Values
<1>2. PICK x : IsFirst(C, x) /\ s.array = <<g, x, p, k>>
  BY <1>0, <1>1, HeldWhere
<1>3. Capacity(s.array) \in Nat
  BY <1>1, HeldWhere
<1>4. PICK y : IsFirst(D, y) /\ h.array = <<g, y, p, k>> /\ h.len <= Capacity(h.array)
  BY <1>0, HeldWhere
<1>5. HasLists(v, D) /\ IsUnion(Items(h), v, D)
  BY <1>0, HeldWhere
<1>6. x = y
  BY <1>2, <1>4
<1>7. HeldType(s) /\ IsAggregate(s, v, n - 1) /\ HeldType(h)
  BY <1>0, Zenon DEF HeldFits
<1>8. /\ HasLists(v, C) /\ \A i \in C : i < n
      /\ IsSeq(v[n].items) /\ IsUnion(Items(s), v, C)
      /\ Missing(s, v[n].items) = M /\ IsSeq(M)
  BY <1>0, <1>1, <1>7, AddIsFresh
<1>9. \/ n \in D /\ Before(D, n) = C
      \/ D \subseteq C /\ \A i \in D : Before(D, i) = Before(C, i)
  BY <1>1, <1>2, <1>4, <1>6, SameStart
<1>10. /\ Len(Items(s)) = s.len /\ s.len \in Nat /\ h.len \in Nat /\ Len(Items(h)) = h.len
       /\ Items(h) = [j \in 1 .. h.len |-> mem[s.array][j]]
  BY <1>7, ItemsFacts
<1>11. Len(M) \in Nat
  BY <1>8, SeqFacts
<1> HIDE DEF C, D
<1>12. ASSUME NEW j \in 1 .. Len(M), s.len + j <= h.len PROVE Items(h)[s.len + j] = M[j]
  <2>1. Len(Items(s)) + j <= Len(Items(h))
    BY <1>10, <1>12
  <2>2. Items(h)[Len(Items(s)) + j] = M[j]
    BY <1>1, <1>5, <1>8, <1>9, <2>1, SameSlot
  <2> QED BY <1>10, <2>2
<1> HIDE DEF M
<1>13. slots = [j \in 1 .. Capacity(s.array) |->
                  IF j <= s.len \/ j > s.len + Len(M) THEN mem[s.array][j] ELSE M[j - s.len]]
  BY DEF Slots
<1>14. Len(slots) = Capacity(s.array)
  BY <1>3, <1>13
<1>15. ASSUME NEW j \in 1 .. h.len PROVE slots[j] = mem[s.array][j]
  <2>1. j \in 1 .. Capacity(s.array) /\ Items(h)[j] = mem[s.array][j]
    <3>1. h.len <= Capacity(s.array)
      BY <1>4
    <3>2. j \in 1 .. Capacity(s.array)
      BY <1>3, <1>10, <3>1
    <3> QED BY <1>10, <3>2
  <2>2. CASE j <= s.len \/ j > s.len + Len(M)
    BY <1>13, <2>1, <2>2
  <2>3. CASE ~(j <= s.len \/ j > s.len + Len(M))
    <3>1. j - s.len \in 1 .. Len(M) /\ s.len + (j - s.len) = j
      BY <1>10, <1>11, <2>3
    <3>2. Items(h)[j] = M[j - s.len]
      BY <1>12, <3>1
    <3>3. slots[j] = M[j - s.len]
      BY <1>13, <2>1, <2>3
    <3> QED BY <2>1, <3>2, <3>3
  <2> QED BY <2>2, <2>3
<1> HIDE DEF slots
<1>16. \A j \in 1 .. h.len : slots[j] = mem[s.array][j]
  BY <1>15
<1>17. slots = Slots(s, Missing(s, ValuesOf(lists[g], p, k)[n].items))
  BY <1>0, <1>8 DEF slots
<1> QED BY <1>14, <1>16, <1>17

LEMMA HeldOf ==
    ASSUME ArrayInv, AnswerInv, NEW t \in Request, NEW q \in DOMAIN entries[t]
    PROVE  /\ pc[t] # "off" /\ list[t] \in DOMAIN lists /\ Passed(t, q) \in Nat
           /\ EntryFits(entries[t][q], list[t], q, Passed(t, q))
<1>1. pc[t] # "off"
  <2> DEFINE empty == <<>>
  <2>1. DOMAIN empty = {}
    OBVIOUS
  <2>2. pc[t] = "off" => entries[t] = empty
    BY DEF AnswerInv, Answers
  <2> QED BY <2>1, <2>2
<1>2. list[t] \in DOMAIN lists /\ at[t] \in 0 .. Len(lists[list[t]]) /\ (left[t] # {} => at[t] > 0)
  BY <1>1 DEF ArrayInv, RequestInv
<1>3. Len(lists[list[t]]) \in Nat
  BY <1>2, SeqFacts DEF ArrayInv, LicensesInv
<1>4. Passed(t, q) \in Nat
  BY <1>2, <1>3 DEF Passed
<1>5. EntryFits(entries[t][q], list[t], q, Passed(t, q))
  BY <1>1 DEF AnswerInv, Answers
<1> QED BY <1>1, <1>2, <1>4, <1>5

(* Whatever a request appends, every slice of every request shows the same. *)
LEMMA AggregateStays ==
    ASSUME ArrayInv, AnswerInv, NEW r \in Request, NEW p \in Product, Aggregate(r, p),
           NEW t \in Request, NEW q \in DOMAIN entries[t], NEW k \in DOMAIN entries[t][q].claims,
           NEW h, h = entries[t][q].claims[k]
    PROVE  Stays(h)
<1> DEFINE l == License(r)
           e == EntryOf(r, p)
           values == l.products[p].claims
           ArrayOf(c) == <<list[r], at[r], p, c>>
           Extended(c) == c \in DOMAIN e.claims /\ Lists(e.claims[c], values[c])
           touched == {c \in DOMAIN values : Extended(c) /\ e.claims[c].array # Own}
<1>1. mem' = [a \in DOMAIN mem |->
                 IF \E c \in touched : e.claims[c].array = a
                 THEN LET c == CHOOSE c \in touched : e.claims[c].array = a
                      IN  Slots(e.claims[c], Missing(e.claims[c], values[c].items))
                 ELSE mem[a]]
  BY Zenon DEF Aggregate
<1>2. PICK g, n : g = list[r] /\ n = at[r]
  OBVIOUS
<1>3. /\ g \in DOMAIN lists /\ n \in Nat /\ n > 0
      /\ \A c : LET v == ValuesOf(lists[g], p, c)
                IN  /\ n \in DOMAIN v <=> c \in DOMAIN values
                    /\ c \in DOMAIN values => v[n] = values[c]
      /\ EntryFits(e, g, p, n - 1)
  <2>1. values = lists[g][n].products[p].claims
    BY <1>2 DEF License
  <2> HIDE DEF values, e
  <2> QED BY <1>2, <2>1, AggregateFacts DEF e
<1>4. /\ list[t] \in DOMAIN lists /\ Passed(t, q) \in Nat
      /\ HeldFits(h, list[t], q, k, Passed(t, q))
  BY HeldOf DEF EntryFits
<1>5. HeldType(h)
  BY <1>4 DEF HeldFits
<1>6. \A c \in touched : /\ c \in DOMAIN values /\ c \in DOMAIN e.claims
                         /\ e.claims[c].kind = "list" /\ values[c].kind = "list"
                         /\ e.claims[c].array # Own
  BY DEF Lists
<1> HIDE DEF touched, values, e, l
<1>7. CASE h.kind # "list" \/ h.array = Own
  <2>1. h.kind = "list" => (h.array # Own => mem'[h.array] = mem[h.array])
    BY <1>7
  <2> QED BY <1>5, <2>1, StaysInPlace DEF Stays
<1>8. CASE h.kind = "list" /\ h.array # Own /\ ~\E c \in touched : e.claims[c].array = h.array
  <2>1. h.array \in DOMAIN mem
    BY <1>4, <1>8, HeldWhere
  <2>2. mem'[h.array] = mem[h.array]
    BY <1>1, <1>8, <2>1, Zenon
  <2> QED BY <1>5, <2>2, StaysInPlace
<1>9. CASE h.kind = "list" /\ h.array # Own /\ \E c \in touched : e.claims[c].array = h.array
  <2>1. h.array \in DOMAIN mem
    BY <1>4, <1>9, HeldWhere
  <2>2. PICK c \in touched : /\ e.claims[c].array = h.array
                             /\ mem'[h.array] =
                                   Slots(e.claims[c], Missing(e.claims[c], values[c].items))
    <3> DEFINE c == CHOOSE c \in touched : e.claims[c].array = h.array
    <3>1. c \in touched /\ e.claims[c].array = h.array
      BY <1>9
    <3>2. mem'[h.array] = Slots(e.claims[c], Missing(e.claims[c], values[c].items))
      BY <1>1, <1>9, <2>1, Zenon
    <3> QED BY <3>1, <3>2
  <2>3. PICK s : s = e.claims[c]
    OBVIOUS
  <2>4. /\ HeldFits(s, g, p, c, n - 1) /\ s.kind = "list" /\ s.array # Own /\ h.array = s.array
        /\ n \in DOMAIN ValuesOf(lists[g], p, c) /\ ValuesOf(lists[g], p, c)[n] = values[c]
        /\ values[c].kind = "list" /\ n - 1 \in Nat
    BY <1>3, <1>6, <2>2, <2>3 DEF EntryFits
  <2>5. /\ \E x : s.array = <<g, x, p, c>>
        /\ \E y : h.array = <<list[t], y, q, k>>
    <3>1. \E x : s.array = <<g, x, p, c>>
      BY <2>4, Zenon DEF HeldFits
    <3>2. \E y : h.array = <<list[t], y, q, k>>
      BY <1>4, <1>9, Zenon DEF HeldFits
    <3> QED BY <3>1, <3>2
  <2>6. list[t] = g /\ q = p /\ k = c
    BY <2>4, <2>5
  <2>7. HeldFits(h, g, p, c, Passed(t, q))
    BY <1>4, <2>6
  <2>8. LET slots == Slots(s, Missing(s, values[c].items))
        IN  /\ Len(slots) = Capacity(s.array)
            /\ \A j \in 1 .. h.len : slots[j] = mem[s.array][j]
    BY <1>3, <1>4, <1>9, <2>4, <2>7, AppendIsShared
  <2>9. /\ Len(mem'[h.array]) = Capacity(h.array)
        /\ \A j \in 1 .. h.len : mem'[h.array][j] = mem[h.array][j]
    BY <2>2, <2>3, <2>4, <2>8
  <2> QED BY <2>9 DEF Stays, Items, Capacity
<1> QED BY <1>7, <1>8, <1>9

(* What shows the same is the same aggregate after the step.               *)
LEMMA AggregateKept ==
    ASSUME NEW h, NEW v, NEW n, IsAggregate(h, v, n), Stays(h)
    PROVE  IsAggregate(h, v, n)'
<1> DEFINE C == Counted(v, n)
<1>1. PICK last \in C :
         /\ \A i \in C : i <= last
         /\ h.kind = v[last].kind
         /\ CASE h.kind = "number" -> IsSum(h.n, v, C)
              [] h.kind = "list" -> IsUnion(Items(h), v, C)
              [] OTHER -> h = v[last]
  BY Zenon DEF IsAggregate
<1>2. Counted(v, n)' = C
  BY Zenon DEF Counted
<1>3. CASE h.kind = "number"
  <2>1. IsSum(h.n, v, C)
    BY <1>1, <1>3
  <2> QED BY <1>1, <1>3, <2>1 DEF IsAggregate
<1>4. CASE h.kind = "list"
  <2>1. IsUnion(Items(h), v, C) /\ Items(h)' = Items(h)
    BY <1>1, <1>4 DEF Stays
  <2>2. IsUnion(Items(h), v, C)'
    BY <1>2, <2>1, Zenon DEF IsUnion
  <2> QED BY <1>1, <1>4, <2>2 DEF IsAggregate
<1>5. CASE h.kind \notin {"number", "list"}
  <2>1. h = v[last]
    BY <1>1, <1>5
  <2> QED BY <1>1, <1>5, <2>1 DEF IsAggregate
<1> QED BY <1>3, <1>4, <1>5

LEMMA HeldStays ==
    ASSUME NEW g, NEW p, NEW k, NEW n, NEW h, HeldFits(h, g, p, k, n), Stays(h),
           lists'[g] = lists[g]
    PROVE  HeldFits(h, g, p, k, n)'
<1>1. PICK v : v = ValuesOf(lists[g], p, k)
  OBVIOUS
<1>2. ValuesOf(lists[g], p, k)' = v
  <2>1. PICK l : l = lists[g]
    OBVIOUS
  <2>2. v = ValuesOf(l, p, k) /\ l = lists'[g]
    BY <1>1, <2>1
  <2> QED BY <2>2, Zenon DEF ValuesOf, Counts
<1>3. /\ HeldType(h) /\ IsAggregate(h, v, n)
      /\ h.kind = "list" /\ h.array # Own =>
            \E first \in Counted(v, n) : /\ IsFirst(Counted(v, n), first)
                                         /\ h.array = <<g, first, p, k>>
                                         /\ h.len <= Capacity(h.array)
  BY <1>1, Zenon DEF HeldFits
<1>4. IsAggregate(h, v, n)'
  BY <1>3, AggregateKept
<1>5. h.kind = "list" /\ h.array # Own => Capacity(h.array)' = Capacity(h.array)
  BY DEF Stays
<1>6. HeldType(h)'
  BY <1>3 DEF HeldType
<1> QED BY <1>2, <1>3, <1>4, <1>5, <1>6, Zenon DEF HeldFits

LEMMA EntryStays ==
    ASSUME NEW e, NEW g, NEW p, NEW n, EntryFits(e, g, p, n), lists'[g] = lists[g],
           \A k \in DOMAIN e.claims : Stays(e.claims[k])
    PROVE  EntryFits(e, g, p, n)'
<1>1. PICK l : l = lists[g] /\ l = lists'[g]
  OBVIOUS
<1>2. \A k \in DOMAIN e.claims : HeldFits(e.claims[k], g, p, k, n)'
  BY HeldStays DEF EntryFits
<1>3. /\ DOMAIN e = {"claims", "expiry", "dn"} /\ e.dn \in Seq(Item) /\ IsEntry(e, l, p, n)
  BY <1>1, Zenon DEF EntryFits
<1>4. \A k \in DOMAIN e.claims : IsAggregate(e.claims[k], ValuesOf(l, p, k), n)'
  BY <1>3, AggregateKept DEF IsEntry
<1>5. IsEntry(e, l, p, n)'
  BY <1>3, <1>4, Zenon DEF IsEntry, Counting, Counts
<1> QED BY <1>1, <1>2, <1>3, <1>5, Zenon DEF EntryFits

---------------------------------------------------------------------------
LEMMA AggregateSame ==
    ASSUME NEW h, NEW v, NEW m, NEW n, Counted(v, n) = Counted(v, m), IsAggregate(h, v, m)
    PROVE  IsAggregate(h, v, n)
BY DEF IsAggregate

(* A license whose claims do not count for a product leaves its entry.     *)
LEMMA EntrySkips ==
    ASSUME LicensesInv, NEW g \in DOMAIN lists, NEW n \in Nat, n > 0, NEW p,
           ~Counts(lists[g][n], p), NEW e, EntryFits(e, g, p, n - 1)
    PROVE  EntryFits(e, g, p, n)
<1>1. PICK l : l = lists[g]
  OBVIOUS
<1>2. Counting(l, p, n) = Counting(l, p, n - 1)
  <2>1. \A i \in 1 .. n : i \in 1 .. n - 1 \/ i = n
    OBVIOUS
  <2>2. 1 .. n - 1 \subseteq 1 .. n
    OBVIOUS
  <2> QED BY <1>1, <2>1, <2>2, Zenon DEF Counting
<1>3. ASSUME NEW k PROVE Counted(ValuesOf(l, p, k), n) = Counted(ValuesOf(l, p, k), n - 1)
  <2>1. DOMAIN ValuesOf(l, p, k) \subseteq Nat /\ n \notin DOMAIN ValuesOf(l, p, k)
    BY <1>1, ValuesFacts
  <2> QED BY <2>1, CountedSkips
<1>4. ASSUME NEW h, NEW k, IsAggregate(h, ValuesOf(l, p, k), n - 1)
      PROVE  IsAggregate(h, ValuesOf(l, p, k), n)
  BY <1>3, <1>4, AggregateSame
<1>5. ASSUME NEW h, NEW k, HeldFits(h, g, p, k, n - 1) PROVE HeldFits(h, g, p, k, n)
  BY <1>1, <1>3, <1>4, <1>5, Zenon DEF HeldFits
<1>6. IsEntry(e, l, p, n)
  <2>1. IsEntry(e, l, p, n - 1)
    BY <1>1, Zenon DEF EntryFits
  <2> QED BY <1>2, <1>4, <2>1, Zenon DEF IsEntry
<1> QED BY <1>1, <1>5, <1>6, Zenon DEF EntryFits

(* What fits after a step.                                                 *)
LEMMA HeldFitsNext ==
    ASSUME NEW h, NEW g, NEW p, NEW k, NEW n, NEW v, ValuesOf(lists'[g], p, k) = v,
           HeldType(h), NEW last \in Counted(v, n), \A i \in Counted(v, n) : i <= last,
           h.kind = v[last].kind,
           h.kind = "number" => IsSum(h.n, v, Counted(v, n)),
           h.kind = "list" => IsUnion(Items(h)', v, Counted(v, n)),
           h.kind \notin {"number", "list"} => h = v[last],
           h.kind = "list" /\ h.array # Own =>
              \E first \in Counted(v, n) : /\ IsFirst(Counted(v, n), first)
                                           /\ h.array = <<g, first, p, k>>
                                           /\ h.len <= Len(mem'[h.array])
    PROVE  HeldFits(h, g, p, k, n)'
<1>1. ValuesOf(lists[g], p, k)' = v
  BY Zenon DEF ValuesOf, Counts
<1>2. Counted(v, n)' = Counted(v, n)
  BY Zenon DEF Counted
<1>3. HeldType(h)'
  BY Zenon DEF HeldType
<1>4. CASE h.kind = "number"
  <2>1. IsAggregate(h, v, n)'
    BY <1>4 DEF IsAggregate
  <2> QED BY <1>1, <1>3, <1>4, <2>1 DEF HeldFits
<1>5. CASE h.kind = "list"
  <2>1. IsUnion(Items(h), v, Counted(v, n))'
    BY <1>5, Zenon DEF IsUnion
  <2>2. IsAggregate(h, v, n)'
    BY <1>5, <2>1 DEF IsAggregate
  <2>3. (h.kind = "list" /\ h.array # Own =>
            \E first \in Counted(v, n) : /\ IsFirst(Counted(v, n), first)
                                         /\ h.array = <<g, first, p, k>>
                                         /\ h.len <= Capacity(h.array))'
    BY <1>2, Zenon DEF IsFirst, Capacity
  <2> QED BY <1>1, <1>3, <2>2, <2>3, Zenon DEF HeldFits
<1>6. CASE h.kind \notin {"number", "list"}
  <2>1. IsAggregate(h, v, n)'
    BY <1>6 DEF IsAggregate
  <2> QED BY <1>1, <1>3, <1>6, <2>1 DEF HeldFits
<1> QED BY <1>4, <1>5, <1>6

(* A value that takes the place of what was there, or is the first.        *)
LEMMA HeldFitsAnew ==
    ASSUME ArrayInv', UNCHANGED lists, NEW g \in DOMAIN lists, NEW p, NEW k, NEW n,
           NEW v, v = ValuesOf(lists[g], p, k), n \in DOMAIN v, Values(v),
           Counted(v, n) = {n} \/ (v[n].kind = "other" /\ n \in Counted(v, n)),
           NEW h, h = Held(v[n], <<g, n, p, k>>), IsListAt(g, n, p, k)' \/ v[n].kind # "list",
           ItemsAt(g, n, p, k)' = v[n].items \/ v[n].kind # "list"
    PROVE  HeldFits(h, g, p, k, n)'
<1>1. ValuesOf(lists'[g], p, k) = v
  OBVIOUS
<1>2. n \in Counted(v, n) /\ \A i \in Counted(v, n) : i <= n
  <2>1. n \in Nat /\ \A i \in Counted(v, n) : i <= n
    BY DEF Values, Counted
  <2> QED BY <2>1
<1>3. IsClaim(v[n]) /\ n \in Nat
  BY DEF Values
<1>4. CASE v[n].kind = "number"
  <2>1. h = v[n] /\ h \in [kind : {"number"}, n : Float] /\ v[n].n \in Float
    BY <1>3, <1>4, ClaimFacts DEF Held
  <2>2. Counted(v, n) = {n}
    BY <1>4
  <2>3. IsSum(h.n, v, Counted(v, n))
    BY <1>3, <2>1, <2>2, SumStarts
  <2> QED BY <1>1, <1>2, <1>4, <2>1, <2>3, HeldFitsNext DEF HeldType
<1>5. CASE v[n].kind = "other"
  <2>1. h = v[n] /\ h \in [kind : {"other"}, v : Item]
    BY <1>3, <1>5, ClaimFacts DEF Held
  <2> QED BY <1>1, <1>2, <1>5, <2>1, HeldFitsNext DEF HeldType
<1>6. CASE v[n].kind = "list"
  <2>1. PICK items, a : items = v[n].items /\ a = <<g, n, p, k>>
    OBVIOUS
  <2>2. items \in Seq(Item) /\ IsSeq(items) /\ Len(items) \in Nat
    BY <1>3, <1>6, <2>1, ClaimFacts, SeqFacts
  <2>3. /\ h = [kind |-> "list", array |-> a, len |-> Len(items), items |-> <<>>]
        /\ DOMAIN h = {"kind", "array", "len", "items"} /\ h.kind = "list"
        /\ h.array = a /\ h.len = Len(items) /\ h.items = <<>>
    BY <1>6, <2>1 DEF Held
  <2>4. HeldType(h)
    <3>1. <<>> \in Seq(Item)
      OBVIOUS
    <3>2. h.items \in Seq(Item) /\ h.len \in Nat
      BY <2>2, <2>3, <3>1, Zenon
    <3> QED BY <2>3, <3>2, Zenon DEF HeldType
  <2>5. Counted(v, n) = {n}
    BY <1>6
  <2>6. /\ Len(mem'[a]) \in Nat /\ Len(items) <= Len(mem'[a])
        /\ \A j \in 1 .. Len(items) : mem'[a][j] = items[j]
    BY <1>6, <2>1 DEF ArrayInv, MemInv, Capacity
  <2>7. Items(h)' = items
    <3>1. a # Own
      <4>1. g \in Nat /\ p \in Product /\ k \in Claim
        <5>1. LicensesInv' /\ g \in DOMAIN lists'
          BY DEF ArrayInv
        <5>2. g \in Nat
          BY <5>1, SeqFacts DEF LicensesInv
        <5>3. /\ n \in DOMAIN lists'[g] /\ p \in DOMAIN lists'[g][n].products
              /\ k \in DOMAIN lists'[g][n].products[p].claims
          BY <1>6 DEF IsListAt
        <5>4. IsLicense(lists'[g][n])
          BY <5>1, <5>3 DEF LicensesInv
        <5> QED BY <5>2, <5>3, <5>4 DEF IsLicense
      <4> QED BY <1>3, <2>1, <4>1, ProductsAssumption
    <3>2. Items(h)' = [j \in 1 .. Len(items) |-> mem'[a][j]]
      BY <2>3, <3>1 DEF Items
    <3> QED BY <2>2, <2>6, <3>2 DEF IsSeq
  <2>8. IsUnion(items, v, {n})
    BY <1>3, <2>1, <2>2, UnionStarts
  <2>9. IsFirst(Counted(v, n), n)
    BY <1>3, <2>5 DEF IsFirst
  <2> QED BY <1>1, <1>2, <1>6, <2>1, <2>3, <2>4, <2>5, <2>6, <2>7, <2>8, <2>9, HeldFitsNext
<1>7. v[n].kind \in {"number", "list", "other"}
  BY <1>3, ClaimFacts
<1> QED BY <1>4, <1>5, <1>6, <1>7

(* The list that a slice of length n shows of an array's slots.            *)
FirstSlots(slots, n) == [j \in 1 .. n |-> slots[j]]

(* What an array has once a list in it is followed by another.             *)
LEMMA WrittenInPlace ==
    ASSUME NEW t, IsSeq(t), NEW add, IsSeq(add), NEW after,
           \A j \in 1 .. Len(t) + Len(add) :
               after[j] = IF j <= Len(t) THEN t[j] ELSE add[j - Len(t)]
    PROVE  FirstSlots(after, Len(t) + Len(add)) = t \o add
<1>1. Len(t) \in Nat /\ Len(add) \in Nat
  BY SeqFacts
<1>2. /\ IsSeq(t \o add) /\ Len(t \o add) = Len(t) + Len(add)
      /\ \A j \in 1 .. Len(t) : (t \o add)[j] = t[j]
      /\ \A j \in 1 .. Len(add) : (t \o add)[Len(t) + j] = add[j]
  BY ConcatFacts
<1>3. PICK s : s = t \o add
  OBVIOUS
<1>4. ASSUME NEW j \in 1 .. Len(t) + Len(add) PROVE after[j] = s[j]
  <2>2. CASE j <= Len(t)
    BY <1>1, <1>2, <1>3, <2>2
  <2>3. CASE j > Len(t)
    <3>1. PICK m \in 1 .. Len(add) : j = Len(t) + m /\ m = j - Len(t)
      BY <1>1, <2>3
    <3>2. s[j] = add[m]
      BY <1>2, <1>3, <3>1
    <3>3. after[j] = add[m]
      BY <1>1, <2>3, <3>1
    <3> QED BY <3>2, <3>3
  <2> QED BY <1>1, <2>2, <2>3
<1>5. s = [j \in 1 .. Len(t) + Len(add) |-> s[j]]
  <2>1. PICK S : s \in Seq(S)
    BY <1>2, <1>3 DEF IsSeq
  <2>2. Len(s) = Len(t) + Len(add)
    BY <1>2, <1>3
  <2>3. s = [j \in 1 .. Len(s) |-> s[j]]
    BY <2>1
  <2> QED BY <2>2, <2>3
<1> QED BY <1>3, <1>4, <1>5, Zenon DEF FirstSlots

(* A list that is extended, in place or in an array of its own.            *)
LEMMA AppendFits ==
    ASSUME ArrayInv, UNCHANGED lists, NEW g \in DOMAIN lists, NEW p, NEW k,
           NEW v, v = ValuesOf(lists[g], p, k), Values(v), NEW n \in DOMAIN v, n > 0,
           v[n].kind = "list", NEW s, HeldFits(s, g, p, k, n - 1), s.kind = "list", Stays(s),
           NEW add, add = Missing(s, v[n].items),
           s.array # Own => mem'[s.array] = Slots(s, add),
           NEW h, h = Appended(s, add)
    PROVE  HeldFits(h, g, p, k, n)'
<1> DEFINE C == Counted(v, n - 1)
<1>1. HeldType(s) /\ IsAggregate(s, v, n - 1)
  BY Zenon DEF HeldFits
<1>2. /\ HasLists(v, C) /\ \A i \in C : i < n
      /\ Counted(v, n) = C \cup {n} /\ n \in Nat
      /\ IsSeq(Items(s)) /\ IsSeq(add)
      /\ IsUnion(Items(s) \o add, v, C \cup {n})
      /\ Items(s) \o add \in Seq(Item)
  <2> DEFINE M == FreshItems(v, C \cup {n}, n)
  <2>1. /\ HasLists(v, C) /\ \A i \in C : i < n
        /\ Counted(v, n) = C \cup {n} /\ n \in Nat
        /\ IsSeq(Items(s))
        /\ Missing(s, v[n].items) = M /\ IsSeq(M)
        /\ IsUnion(Items(s) \o M, v, C \cup {n})
        /\ Items(s) \o M \in Seq(Item)
    BY <1>1, AddIsFresh
  <2> HIDE DEF M, C
  <2>2. add = M
    BY <2>1
  <2> QED BY <2>1, <2>2
<1>3. n - 1 \in Nat
  BY <1>2
<1>4. /\ s.len \in Nat /\ s.items \in Seq(Item) /\ DOMAIN s = {"kind", "array", "len", "items"}
      /\ s.array # Own => Items(s) = [j \in 1 .. s.len |-> mem[s.array][j]] /\ Len(Items(s)) = s.len
  BY <1>1, ItemsFacts DEF HeldType
<1>5. s.array # Own =>
        /\ Capacity(s.array) \in Nat
        /\ \E first : /\ IsFirst(C, first) /\ s.array = <<g, first, p, k>>
                      /\ s.len <= Capacity(s.array)
  BY <1>3, HeldWhere
<1> HIDE DEF C
<1>6. Len(add) \in Nat
  BY <1>2, SeqFacts
<1>7. \A first : IsFirst(C, first) => IsFirst(C \cup {n}, first)
  <2> SUFFICES ASSUME NEW first, IsFirst(C, first) PROVE IsFirst(C \cup {n}, first)
    OBVIOUS
  <2>1. first \in C /\ first <= n
    BY <1>2 DEF IsFirst, HasLists
  <2> QED BY <2>1 DEF IsFirst
<1>8. s.array # Own =>
        mem'[s.array] = [j \in 1 .. Capacity(s.array) |->
                           IF j <= s.len \/ j > s.len + Len(add) THEN mem[s.array][j]
                           ELSE add[j - s.len]]
  BY DEF Slots
<1>9. s.array # Own => Len(mem'[s.array]) = Capacity(s.array)
  BY <1>5, <1>8
<1>10. /\ HeldType(h) /\ h.kind = "list" /\ Items(h)' = Items(s) \o add
       /\ h.array # Own => h.array = s.array /\ h.len <= Len(mem'[h.array])
  <2>1. CASE add = <<>>
    <3>1. h = s
      BY <2>1 DEF Appended
    <3>2. Items(s) \o add = Items(s)
      BY <1>2, <2>1 DEF IsSeq
    <3> QED BY <1>1, <1>5, <1>9, <3>1, <3>2 DEF Stays
  <2>2. CASE add # <<>> /\ s.array # Own /\ s.len + Len(add) <= Capacity(s.array)
    <3>1. h = [s EXCEPT !.len = @ + Len(add)]
      BY <2>2 DEF Appended
    <3>2. /\ DOMAIN h = {"kind", "array", "len", "items"} /\ h.kind = "list" /\ h.items = s.items
          /\ h.array = s.array /\ h.len = s.len + Len(add) /\ h.len \in Nat
      BY <1>4, <1>6, <3>1
    <3>3. HeldType(h)
      BY <1>4, <3>2, Zenon DEF HeldType
    <3>4. Items(h)' = [j \in 1 .. s.len + Len(add) |-> mem'[s.array][j]]
      BY <2>2, <3>2 DEF Items
    <3>5. PICK t : t = Items(s)
      OBVIOUS
    <3>6. IsSeq(t) /\ IsSeq(add) /\ Len(t) = s.len /\ \A j \in 1 .. s.len : t[j] = mem[s.array][j]
      BY <1>2, <1>4, <2>2, <3>5
    <3>7. [j \in 1 .. s.len + Len(add) |-> mem'[s.array][j]] = t \o add
      <4>1. PICK after, m : after = mem'[s.array] /\ m = s.len
        OBVIOUS
      <4>2. m = Len(t) /\ m \in Nat /\ m + Len(add) <= Capacity(s.array)
        BY <1>4, <2>2, <3>6, <4>1
      <4>3. ASSUME NEW j \in 1 .. m + Len(add)
            PROVE  after[j] = IF j <= m THEN t[j] ELSE add[j - m]
        <5>1. j \in 1 .. Capacity(s.array)
          BY <1>5, <1>6, <2>2, <4>2
        <5>2. after[j] = IF j <= m \/ j > m + Len(add) THEN mem[s.array][j] ELSE add[j - m]
          BY <1>8, <2>2, <4>1, <5>1, Zenon
        <5>3. j <= m => t[j] = mem[s.array][j]
          BY <3>6, <4>1, <4>2
        <5>4. ~(j > m + Len(add))
          BY <1>6, <4>2
        <5> QED BY <5>2, <5>3, <5>4
      <4>4. FirstSlots(after, Len(t) + Len(add)) = t \o add
        <5>1. m = Len(t)
          BY <4>2, Zenon
        <5>2. \A j \in 1 .. Len(t) + Len(add) :
                 after[j] = IF j <= Len(t) THEN t[j] ELSE add[j - Len(t)]
          BY <4>3, <5>1, Zenon
        <5> QED BY <3>6, <5>2, WrittenInPlace, Zenon
      <4> QED BY <4>1, <4>2, <4>4, Zenon DEF FirstSlots
    <3>8. Items(h)' = Items(s) \o add
      BY <3>4, <3>5, <3>7, Zenon
    <3> QED BY <1>9, <2>2, <3>2, <3>3, <3>8
  <2>3. CASE add # <<>> /\ ~(s.array # Own /\ s.len + Len(add) <= Capacity(s.array))
    <3>1. PICK items : items = Items(s) \o add /\ items \in Seq(Item)
      BY <1>2
    <3>2. h = [kind |-> "list", array |-> Own, len |-> 0, items |-> items]
      BY <2>3, <3>1, Zenon DEF Appended
    <3>3. /\ DOMAIN h = {"kind", "array", "len", "items"} /\ h.kind = "list" /\ h.items = items
          /\ h.array = Own /\ h.len = 0 /\ h.len \in Nat
      BY <3>2
    <3>4. HeldType(h)
      BY <3>1, <3>3, Zenon DEF HeldType
    <3>5. Items(h)' = items
      BY <3>3 DEF Items
    <3> QED BY <3>1, <3>3, <3>4, <3>5
  <2> QED BY <2>1, <2>2, <2>3
<1>11. ValuesOf(lists'[g], p, k) = v
  OBVIOUS
<1>12. n \in Counted(v, n) /\ \A i \in Counted(v, n) : i <= n
  BY <1>2 DEF HasLists
<1>13. IsUnion(Items(h)', v, Counted(v, n))
  BY <1>2, <1>10
<1>14. h.kind = "list" /\ h.array # Own =>
          \E first \in Counted(v, n) : /\ IsFirst(Counted(v, n), first)
                                       /\ h.array = <<g, first, p, k>>
                                       /\ h.len <= Len(mem'[h.array])
  <2> SUFFICES ASSUME h.array # Own
               PROVE  \E first \in Counted(v, n) : /\ IsFirst(Counted(v, n), first)
                                                   /\ h.array = <<g, first, p, k>>
                                                   /\ h.len <= Len(mem'[h.array])
    OBVIOUS
  <2>1. PICK first : IsFirst(C, first) /\ s.array = <<g, first, p, k>>
    BY <1>5, <1>10
  <2>2. IsFirst(Counted(v, n), first) /\ first \in Counted(v, n)
    BY <1>2, <1>7, <2>1 DEF IsFirst
  <2> QED BY <1>10, <2>1, <2>2, Zenon
<1> QED BY <1>10, <1>11, <1>12, <1>13, <1>14, HeldFitsNext

(* A number that is added up.                                              *)
LEMMA NumberFits ==
    ASSUME UNCHANGED lists, NEW g \in DOMAIN lists, NEW p, NEW k,
           NEW v, v = ValuesOf(lists[g], p, k), Values(v), NEW n \in DOMAIN v, n > 0,
           v[n].kind = "number", NEW s, HeldFits(s, g, p, k, n - 1), s.kind = "number",
           NEW h, h = [s EXCEPT !.n = Plus[<<@, v[n].n>>]]
    PROVE  HeldFits(h, g, p, k, n)'
<1> DEFINE C == Counted(v, n - 1)
<1>1. HeldType(s) /\ IsAggregate(s, v, n - 1)
  BY Zenon DEF HeldFits
<1>2. s \in [kind : {"number"}, n : Float]
  BY <1>1 DEF HeldType
<1>3. n \in Nat /\ n - 1 \in Nat /\ DOMAIN v \subseteq Nat /\ v[n].n \in Float
  BY ClaimFacts DEF Values
<1>4. /\ h.kind = "number" /\ h.n = Plus[<<s.n, v[n].n>>]
      /\ h \in [kind : {"number"}, n : Float]
  BY <1>2, <1>3, ProductsAssumption
<1>5. PICK last \in C : v[last].kind = "number" /\ IsSum(s.n, v, C)
  BY <1>1, Zenon DEF IsAggregate
<1>6. HasNumbers(v, C) /\ \A i \in C : i <= n - 1
  BY <1>3, <1>5, RunFacts
<1>7. Counted(v, n) = C \cup {n}
  BY <1>3, <1>5, CountedGrows
<1>8. C \subseteq Nat /\ C # {} /\ \A i \in C : i < n
  BY <1>3, <1>5, <1>6 DEF HasNumbers
<1> HIDE DEF C
<1>9. IsSum(Plus[<<s.n, v[n].n>>], v, C \cup {n})
  BY <1>3, <1>5, <1>6, <1>8, SumGrows
<1>10. n \in Counted(v, n) /\ \A i \in Counted(v, n) : i <= n
  BY <1>3, <1>6, <1>7, <1>8
<1>11. ValuesOf(lists'[g], p, k) = v /\ HeldType(h)
  BY <1>4 DEF HeldType
<1>12. IsSum(h.n, v, Counted(v, n))
  BY <1>4, <1>7, <1>9
<1> QED BY <1>4, <1>10, <1>11, <1>12, HeldFitsNext

(* What aggregating license n of list g makes of claim k of product p.     *)
NewClaim(e, values, g, n, p, k) ==
    IF k \notin DOMAIN values THEN e.claims[k]
    ELSE IF k \notin DOMAIN e.claims THEN Held(values[k], <<g, n, p, k>>)
    ELSE Merged(e.claims[k], values[k], <<g, n, p, k>>)

(* A claim that no license before n gives has its first value at n or later. *)
LEMMA NoValueBefore ==
    ASSUME LicensesInv, NEW g \in DOMAIN lists, NEW p, NEW k, NEW n \in Nat,
           k \notin UNION {DOMAIN lists[g][j].products[p].claims :
                              j \in Counting(lists[g], p, n - 1)}
    PROVE  \A i \in DOMAIN ValuesOf(lists[g], p, k) : i >= n
<1> DEFINE v == ValuesOf(lists[g], p, k)
<1>1. ASSUME NEW i \in DOMAIN v, ~(i >= n) PROVE FALSE
  <2>1. /\ i \in 1 .. Len(lists[g]) /\ i \in Nat /\ Counts(lists[g][i], p)
        /\ k \in DOMAIN lists[g][i].products[p].claims
    BY <1>1, ValuesFacts, Zenon
  <2>2. PICK l : l = lists[g]
    OBVIOUS
  <2>3. i \in 1 .. n - 1
    <3>1. i >= 1
      BY <2>1
    <3> QED BY <1>1, <2>1, <3>1
  <2>4. i \in Counting(l, p, n - 1)
    BY <2>1, <2>2, <2>3, Zenon DEF Counting
  <2> QED BY <2>1, <2>2, <2>4
<1> QED BY <1>1, Zenon

---------------------------------------------------------------------------
(* What a request has of a claim after it has aggregated a product.        *)
LEMMA ClaimGrows ==
    ASSUME ArrayInv, ArrayInv', AnswerInv, NEW r \in Request, NEW p \in Product, Aggregate(r, p),
           NEW g, g = list[r], NEW n, n = at[r], NEW e, e = EntryOf(r, p),
           NEW values, values = License(r).products[p].claims,
           NEW k \in DOMAIN e.claims \cup DOMAIN values,
           NEW h, h = NewClaim(e, values, g, n, p, k)
    PROVE  HeldFits(h, g, p, k, n)'
<1> DEFINE v == ValuesOf(lists[g], p, k)
<1>1. /\ g \in DOMAIN lists /\ n \in 1 .. Len(lists[g]) /\ n \in Nat /\ n > 0
      /\ values = lists[g][n].products[p].claims
      /\ Values(v)
      /\ n \in DOMAIN v <=> k \in DOMAIN values
      /\ k \in DOMAIN values => v[n] = values[k]
      /\ EntryFits(e, g, p, n - 1)
  <2>1. values = lists[g][n].products[p].claims
    BY DEF License
  <2>2. /\ g \in DOMAIN lists /\ n \in 1 .. Len(lists[g]) /\ n \in Nat /\ n > 0
        /\ \A c : LET w == ValuesOf(lists[g], p, c)
                 IN  /\ Values(w)
                     /\ n \in DOMAIN w <=> c \in DOMAIN values
                     /\ c \in DOMAIN values => w[n] = values[c]
        /\ EntryFits(e, g, p, n - 1)
    <3> DEFINE m == at[r]
               l == lists[list[r]]
               claims == l[m].products[p].claims
    <3>1. /\ list[r] \in DOMAIN lists /\ m \in 1 .. Len(l) /\ m \in Nat /\ m > 0
          /\ \A c : LET w == ValuesOf(l, p, c)
                   IN  /\ Values(w)
                       /\ m \in DOMAIN w <=> c \in DOMAIN claims
                       /\ c \in DOMAIN claims => w[m] = claims[c]
          /\ EntryFits(EntryOf(r, p), list[r], p, m - 1)
      BY AggregateFacts, Zenon
    <3> QED BY <2>1, <3>1, Zenon
  <2> QED BY <2>1, <2>2, Zenon
<1>9. n \in Nat /\ n > 0
  BY <1>1, Zenon
<1>10. n - 1 \in Nat
  BY <1>9
<1>2. lists' = lists
  BY Zenon DEF Aggregate, Visit
<1>3. \A c \in DOMAIN e.claims : Stays(e.claims[c])
  <2>1. CASE p \in DOMAIN entries[r]
    <3>1. e = entries[r][p]
      BY <2>1 DEF EntryOf
    <3> QED BY <2>1, <3>1, AggregateStays
  <2>2. CASE p \notin DOMAIN entries[r]
    <3>1. e.claims = <<>>
      BY <2>2 DEF EntryOf, NewEntry
    <3> QED BY <3>1
  <2> QED BY <2>1, <2>2
<1>4. /\ DOMAIN v \subseteq Nat
      /\ \A i : i \in DOMAIN v <=>
            /\ i \in 1 .. Len(lists[g]) /\ Counts(lists[g][i], p)
            /\ k \in DOMAIN lists[g][i].products[p].claims
      /\ \A i \in DOMAIN v : v[i].kind = "list" => IsListAt(g, i, p, k)
      /\ \A i \in DOMAIN v : v[i] = lists[g][i].products[p].claims[k]
  <2>1. LicensesInv
    BY Zenon DEF ArrayInv
  <2>2. /\ DOMAIN v \subseteq 1 .. Len(lists[g]) /\ DOMAIN v \subseteq Nat
        /\ \A i : i \in DOMAIN v <=>
              /\ i \in 1 .. Len(lists[g]) /\ Counts(lists[g][i], p)
              /\ k \in DOMAIN lists[g][i].products[p].claims
        /\ \A i \in DOMAIN v :
              /\ v[i] = lists[g][i].products[p].claims[k] /\ IsClaim(v[i])
              /\ v[i].kind = "list" => IsListAt(g, i, p, k)
    BY <1>1, <2>1, ValuesFacts, Zenon
  <2> HIDE DEF v
  <2> QED BY <2>2, Zenon
<1>5. \A i \in DOMAIN v : v[i].kind = "list" => /\ IsListAt(g, i, p, k)'
                                                /\ ItemsAt(g, i, p, k)' = v[i].items
  BY <1>2, <1>4, SameLists DEF ItemsAt
<1>0. v = ValuesOf(lists[g], p, k)
  OBVIOUS
<1> HIDE DEF v
<1>6. CASE k \notin DOMAIN values
  <2>1. h = e.claims[k] /\ k \in DOMAIN e.claims
    BY <1>6, Zenon DEF NewClaim
  <2>2. HeldFits(h, g, p, k, n - 1) /\ Stays(h)
    BY <1>1, <1>3, <2>1 DEF EntryFits
  <2>3. Counted(v, n) = Counted(v, n - 1)
    BY <1>1, <1>4, <1>6, CountedSkips
  <2>4. HeldFits(h, g, p, k, n)
    <3>1. IsAggregate(h, v, n - 1)
      BY <1>0, <2>2, Zenon DEF HeldFits
    <3>2. IsAggregate(h, v, n)
      BY <2>3, <3>1, AggregateSame
    <3> QED BY <1>0, <2>2, <2>3, <3>2, Zenon DEF HeldFits
  <2> QED BY <1>2, <2>2, <2>4, HeldStays
<1>7. CASE k \in DOMAIN values /\ k \notin DOMAIN e.claims
  <2>1. \A i \in DOMAIN v : i >= n
    <3>1. DOMAIN e.claims = UNION {DOMAIN lists[g][j].products[p].claims :
                                     j \in Counting(lists[g], p, n - 1)}
      BY <1>1, Zenon DEF EntryFits, IsEntry
    <3>2. k \notin UNION {DOMAIN lists[g][j].products[p].claims :
                             j \in Counting(lists[g], p, n - 1)}
      BY <1>7, <3>1, Zenon
    <3>3. LicensesInv
      BY Zenon DEF ArrayInv
    <3> QED BY <1>0, <1>1, <3>2, <3>3, NoValueBefore, Zenon
  <2>2. n \in DOMAIN v /\ v[n] = values[k]
    BY <1>1, <1>7
  <2>3. Counted(v, n) = {n}
    BY <1>4, <2>1, <2>2, CountedRestarts
  <2>4. h = Held(v[n], <<g, n, p, k>>)
    BY <1>7, <2>2, Zenon DEF NewClaim
  <2> QED BY <1>0, <1>1, <1>2, <1>5, <2>2, <2>3, <2>4, HeldFitsAnew
<1>8. CASE k \in DOMAIN values /\ k \in DOMAIN e.claims
  <2>1. PICK s : s = e.claims[k]
    OBVIOUS
  <2>2. HeldFits(s, g, p, k, n - 1) /\ Stays(s)
    BY <1>1, <1>3, <1>8, <2>1 DEF EntryFits
  <2>9. n \in DOMAIN v /\ v[n] = values[k]
    BY <1>1, <1>8
  <2>3. n \in DOMAIN v /\ v[n] = values[k] /\ h = Merged(s, v[n], <<g, n, p, k>>)
    BY <1>8, <2>1, <2>9, Zenon DEF NewClaim
  <2>4. CASE s.kind = "number" /\ v[n].kind = "number"
    <3>1. h = [s EXCEPT !.n = Plus[<<@, v[n].n>>]]
      BY <2>3, <2>4 DEF Merged
    <3> QED BY <1>0, <1>1, <1>2, <2>2, <2>3, <2>4, <3>1, NumberFits
  <2>5. CASE s.kind = "list" /\ v[n].kind = "list"
    <3>1. PICK add : add = Missing(s, v[n].items)
      OBVIOUS
    <3>2. h = Appended(s, add)
      BY <2>3, <2>5, <3>1 DEF Merged, Lists
    <3>3. ASSUME s.array # Own PROVE mem'[s.array] = Slots(s, add)
      <4> DEFINE Extended(c) == c \in DOMAIN e.claims /\ Lists(e.claims[c], values[c])
                 touched == {c \in DOMAIN values : Extended(c) /\ e.claims[c].array # Own}
      <4>1. mem' = [a \in DOMAIN mem |->
                       IF \E c \in touched : e.claims[c].array = a
                       THEN LET c == CHOOSE c \in touched : e.claims[c].array = a
                            IN  Slots(e.claims[c], Missing(e.claims[c], values[c].items))
                       ELSE mem[a]]
        BY Zenon DEF Aggregate
      <4>2. k \in touched
        BY <1>8, <2>1, <2>3, <2>5, <3>3 DEF Lists
      <4>3. \A c \in touched : c \in DOMAIN e.claims /\ e.claims[c].kind = "list"
                               /\ e.claims[c].array # Own
        BY DEF Lists
      <4> HIDE DEF touched
      <4>4. s.array \in DOMAIN mem
        BY <1>1, <1>10, <2>2, <2>5, <3>3, HeldExists, Zenon
      <4>5. PICK c \in touched : /\ e.claims[c].array = s.array
                                 /\ mem'[s.array] =
                                       Slots(e.claims[c], Missing(e.claims[c], values[c].items))
        <5> DEFINE c == CHOOSE c \in touched : e.claims[c].array = s.array
        <5>1. \E x \in touched : e.claims[x].array = s.array
          BY <2>1, <4>2
        <5>2. c \in touched /\ e.claims[c].array = s.array
          BY <5>1
        <5>3. mem'[s.array] = Slots(e.claims[c], Missing(e.claims[c], values[c].items))
          BY <4>1, <4>4, <5>1, Zenon
        <5> QED BY <5>2, <5>3
      <4>6. \E x : s.array = <<g, x, p, k>>
        BY <2>2, <2>5, <3>3, Zenon DEF HeldFits
      <4>7. \E x : s.array = <<g, x, p, c>>
        <5>1. HeldFits(e.claims[c], g, p, c, n - 1)
          BY <1>1, <4>3 DEF EntryFits
        <5> QED BY <4>3, <4>5, <5>1, Zenon DEF HeldFits
      <4>8. c = k
        BY <4>6, <4>7
      <4> QED BY <2>1, <2>3, <3>1, <4>5, <4>8
    <3> QED BY <1>0, <1>1, <1>2, <2>2, <2>3, <2>5, <3>1, <3>2, <3>3, AppendFits
  <2>6. CASE ~(s.kind = "number" /\ v[n].kind = "number") /\ ~(s.kind = "list" /\ v[n].kind = "list")
    <3>1. h = Held(v[n], <<g, n, p, k>>)
      BY <2>3, <2>6 DEF Merged, Lists
    <3>2. PICK last \in Counted(v, n - 1) : s.kind = v[last].kind
      BY <1>0, <2>2, Zenon DEF HeldFits, IsAggregate
    <3>3. Counted(v, n) = {n} \/ (v[n].kind = "other" /\ n \in Counted(v, n))
      <4>1. CASE v[last].kind # v[n].kind
        <5>1. DOMAIN v \subseteq Nat /\ n \in DOMAIN v
          BY <1>4, <2>3, Zenon
        <5>2. \E i \in Counted(v, n - 1) : v[i].kind # v[n].kind
          BY <3>2, <4>1, Zenon
        <5>3. Counted(v, n) = {n}
          BY <5>1, <5>2, CountedRestarts, Zenon
        <5> QED BY <5>3, Zenon
      <4>2. CASE v[last].kind = v[n].kind
        <5>1. Counted(v, n) = Counted(v, n - 1) \cup {n}
          BY <1>4, <2>3, <3>2, <4>2, CountedGrows, Zenon
        <5>2. v[n].kind \in {"number", "list", "other"}
          BY <1>1, <2>3, ClaimFacts DEF Values
        <5> QED BY <2>6, <3>2, <4>2, <5>1, <5>2
      <4> QED BY <4>1, <4>2
    <3> QED BY <1>0, <1>1, <1>2, <1>5, <2>3, <3>1, <3>3, HeldFitsAnew
  <2> QED BY <2>4, <2>5, <2>6
<1> QED BY <1>6, <1>7, <1>8

(* The licenses that count, and what an entry has of each of them.         *)
LEMMA CountingGrows ==
    ASSUME NEW l, NEW p, NEW n \in Nat, n > 0, Counts(l[n], p)
    PROVE  LET S == Counting(l, p, n - 1)
           IN  /\ Counting(l, p, n) = S \cup {n}
               /\ S \subseteq Nat /\ IsFiniteSet(S) /\ \A i \in S : i < n
<1> DEFINE S == Counting(l, p, n - 1)
<1>1. /\ \A i \in 1 .. n - 1 : i \in 1 .. n /\ i < n /\ i \in Nat
      /\ \A i \in 1 .. n : i \in 1 .. n - 1 \/ i = n
      /\ n \in 1 .. n
  OBVIOUS
<1>2. Counting(l, p, n) = S \cup {n}
  BY <1>1, Zenon DEF Counting
<1>3. S \subseteq Nat /\ \A i \in S : i < n
  BY <1>1, Zenon DEF Counting
<1>4. IsFiniteSet(S)
  <2>1. S \in SUBSET (1 .. n - 1)
    BY Zenon DEF Counting
  <2>2. 1 \in Int /\ n - 1 \in Int
    OBVIOUS
  <2>3. IsFiniteSet(1 .. n - 1)
    BY <2>2, FS_Interval
  <2> QED BY <2>1, <2>3, FS_Subset
<1> QED BY <1>2, <1>3, <1>4

LEMMA IsList ==
    ASSUME NEW s, IsSeq(s)
    PROVE  s = [j \in 1 .. Len(s) |-> s[j]]
BY DEF IsSeq

LEMMA TableIsSeq ==
    ASSUME NEW c \in Nat, NEW s, s = [m \in 1 .. c |-> s[m]]
    PROVE  IsSeq(s) /\ Len(s) = c
<1>1. PICK V : V = {s[m] : m \in 1 .. c}
  OBVIOUS
<1>2. \A m \in 1 .. c : s[m] \in V
  BY <1>1
<1>3. s \in [1 .. c -> V]
  BY <1>2
<1>4. s \in Seq(V) /\ Len(s) = c
  BY <1>3
<1> QED BY <1>4 DEF IsSeq

(* The expiries of some licenses, item by item.                            *)
ExpiriesOf(s, l, S) ==
    /\ IsSeq(s) /\ Len(s) = Cardinality(S)
    /\ \A m \in 1 .. Cardinality(S) : s[m] = l[Nth(S, m)].exp

LEMMA ExpiriesAre ==
    ASSUME NEW l, NEW S, Cardinality(S) \in Nat, NEW s
    PROVE  ExpiriesOf(s, l, S) <=> s = [m \in 1 .. Cardinality(S) |-> l[Nth(S, m)].exp]
<1>1. ASSUME ExpiriesOf(s, l, S)
      PROVE  s = [m \in 1 .. Cardinality(S) |-> l[Nth(S, m)].exp]
  <2>1. s = [m \in 1 .. Cardinality(S) |-> s[m]]
    BY <1>1, IsList DEF ExpiriesOf
  <2>2. \A m \in 1 .. Cardinality(S) : s[m] = l[Nth(S, m)].exp
    BY <1>1 DEF ExpiriesOf
  <2> QED BY <2>1, <2>2, Zenon
<1>2. ASSUME s = [m \in 1 .. Cardinality(S) |-> l[Nth(S, m)].exp]
      PROVE  ExpiriesOf(s, l, S)
  <2>1. \A m \in 1 .. Cardinality(S) : s[m] = l[Nth(S, m)].exp
    BY <1>2
  <2>2. s = [m \in 1 .. Cardinality(S) |-> s[m]]
    BY <1>2
  <2>3. IsSeq(s) /\ Len(s) = Cardinality(S)
    BY <2>2, TableIsSeq, Zenon
  <2> QED BY <2>1, <2>3 DEF ExpiriesOf
<1> QED BY <1>1, <1>2

LEMMA ExpiryGrows ==
    ASSUME NEW l, NEW S, S \subseteq Nat, IsFiniteSet(S), NEW n \in Nat, \A i \in S : i < n,
           NEW s, ExpiriesOf(s, l, S)
    PROVE  ExpiriesOf(Append(s, l[n].exp), l, S \cup {n})
<1>1. PICK x, t, T, c : x = l[n].exp /\ t = Append(s, x) /\ T = S \cup {n} /\ c = Cardinality(S)
  OBVIOUS
<1>2. c \in Nat
  BY <1>1, FS_CardinalityType
<1>3. IsSeq(s) /\ Len(s) = c /\ \A m \in 1 .. c : s[m] = l[Nth(S, m)].exp
  BY <1>1 DEF ExpiriesOf
<1>4. /\ IsSeq(t) /\ Len(t) = c + 1
      /\ \A m \in 1 .. c : t[m] = s[m]
      /\ t[c + 1] = x
  BY <1>1, <1>3, AppendFacts
<1>5. /\ Cardinality(T) = c + 1
      /\ \A m \in 1 .. c : Nth(T, m) = Nth(S, m)
      /\ Nth(T, c + 1) = n
  BY <1>1, NthOfMore
<1>6. ASSUME NEW m \in 1 .. Cardinality(T) PROVE t[m] = l[Nth(T, m)].exp
  <2>1. CASE m \in 1 .. c
    BY <1>3, <1>4, <1>5, <2>1
  <2>2. CASE m = c + 1
    BY <1>1, <1>4, <1>5, <2>2
  <2> QED BY <1>2, <1>5, <2>1, <2>2
<1>7. ExpiriesOf(t, l, T)
  BY <1>4, <1>5, <1>6 DEF ExpiriesOf
<1> QED BY <1>1, <1>7

LEMMA NameGrows ==
    ASSUME NEW s, s \in Seq(Item), IsInjective(s), NEW x \in Item
    PROVE  LET t == AppendIfMissing(s, x)
           IN  t \in Seq(Item) /\ IsInjective(t) /\ ToSet(t) = ToSet(s) \cup {x}
<1>1. CASE x \in ToSet(s)
  BY <1>1 DEF AppendIfMissing
<1>2. CASE x \notin ToSet(s)
  <2>1. PICK t : t = Append(s, x)
    OBVIOUS
  <2>2. /\ t \in Seq(Item) /\ DOMAIN t = 1 .. Len(s) + 1 /\ DOMAIN s = 1 .. Len(s) /\ Len(s) \in Nat
        /\ \A j \in 1 .. Len(s) : t[j] = s[j]
        /\ t[Len(s) + 1] = x
    BY <2>1
  <2>3. \A j \in 1 .. Len(s) : s[j] # x
    BY <1>2, <2>2 DEF ToSet
  <2>4. IsInjective(t)
    BY <2>2, <2>3 DEF IsInjective
  <2>5. \A j \in 1 .. Len(s) + 1 : j \in 1 .. Len(s) \/ j = Len(s) + 1
    BY <2>2
  <2>6. ToSet(t) = ToSet(s) \cup {x}
    BY <2>2, <2>5 DEF ToSet
  <2>7. AppendIfMissing(s, x) = t
    BY <1>2, <2>1 DEF AppendIfMissing
  <2> QED BY <2>2, <2>4, <2>6, <2>7
<1> QED BY <1>1, <1>2

(* The entry of a product once the claims of one more license count.       *)
LEMMA EntryGrows ==
    ASSUME NEW l, NEW p, NEW n \in Nat, n > 0, IsLicense(l[n]), Counts(l[n], p),
           NEW e, IsEntry(e, l, p, n - 1), e.dn \in Seq(Item),
           NEW claims, DOMAIN claims = DOMAIN e.claims \cup DOMAIN l[n].products[p].claims,
           \A k \in DOMAIN claims : IsAggregate(claims[k], ValuesOf(l, p, k), n)',
           NEW f, f = [claims |-> claims, expiry |-> Append(e.expiry, l[n].exp),
                       dn |-> IF l[n].dn = NoName THEN e.dn ELSE AppendIfMissing(e.dn, l[n].dn)]
    PROVE  /\ DOMAIN f = {"claims", "expiry", "dn"} /\ f.dn \in Seq(Item)
           /\ IsEntry(f, l, p, n)'
<1> DEFINE S == Counting(l, p, n - 1)
           T == Counting(l, p, n)
<1>1. T = S \cup {n} /\ S \subseteq Nat /\ IsFiniteSet(S) /\ \A i \in S : i < n
  BY CountingGrows
<1>2. /\ e.expiry = [m \in 1 .. Cardinality(S) |-> l[Nth(S, m)].exp]
      /\ ToSet(e.dn) = {l[i].dn : i \in S} \ {NoName}
      /\ IsInjective(e.dn)
      /\ DOMAIN e.claims = UNION {DOMAIN l[i].products[p].claims : i \in S}
  BY Zenon DEF IsEntry
<1>3. /\ DOMAIN f = {"claims", "expiry", "dn"} /\ f.claims = claims
      /\ f.expiry = Append(e.expiry, l[n].exp)
      /\ f.dn = IF l[n].dn = NoName THEN e.dn ELSE AppendIfMissing(e.dn, l[n].dn)
  OBVIOUS
<1>0. T = Counting(l, p, n)
  OBVIOUS
<1> HIDE DEF S, T
<1>4. f.expiry = [m \in 1 .. Cardinality(T) |-> l[Nth(T, m)].exp]
  <2>1. PICK s, x, t : s = e.expiry /\ x = l[n].exp /\ t = Append(s, x) /\ f.expiry = t
    BY <1>3
  <2>2. Cardinality(S) \in Nat /\ Cardinality(T) \in Nat
    BY <1>1, NthOfMore, FS_CardinalityType
  <2>3. ExpiriesOf(s, l, S)
    BY <1>2, <2>1, <2>2, ExpiriesAre, Zenon
  <2>4. ExpiriesOf(t, l, T)
    <3>1. ExpiriesOf(Append(s, l[n].exp), l, S \cup {n})
      BY <1>1, <2>3, ExpiryGrows, Zenon
    <3> QED BY <1>1, <2>1, <3>1, Zenon
  <2>5. t = [m \in 1 .. Cardinality(T) |-> l[Nth(T, m)].exp]
    <3>1. t = [m \in 1 .. Cardinality(T) |-> t[m]]
      BY <2>4, IsList DEF ExpiriesOf
    <3>2. \A m \in 1 .. Cardinality(T) : t[m] = l[Nth(T, m)].exp
      BY <2>4, Zenon DEF ExpiriesOf
    <3> QED BY <3>1, <3>2, Zenon
  <2> QED BY <2>1, <2>5, Zenon
<1>5. f.dn \in Seq(Item) /\ IsInjective(f.dn) /\ ToSet(f.dn) = {l[i].dn : i \in T} \ {NoName}
  <2>1. {l[i].dn : i \in T} = {l[i].dn : i \in S} \cup {l[n].dn}
    BY <1>1
  <2>2. CASE l[n].dn = NoName
    BY <1>2, <1>3, <2>1, <2>2
  <2>3. CASE l[n].dn # NoName
    <3>1. l[n].dn \in Item
      BY <2>3 DEF IsLicense
    <3>2. /\ f.dn \in Seq(Item) /\ IsInjective(f.dn)
          /\ ToSet(f.dn) = ToSet(e.dn) \cup {l[n].dn}
      BY <1>2, <1>3, <2>3, <3>1, NameGrows
    <3> QED BY <1>2, <2>1, <2>3, <3>2
  <2> QED BY <2>2, <2>3
<1>6. DOMAIN f.claims = UNION {DOMAIN l[i].products[p].claims : i \in T}
  BY <1>1, <1>2, <1>3
<1>7. \A k \in DOMAIN f.claims : IsAggregate(f.claims[k], ValuesOf(l, p, k), n)'
  BY <1>3
<1>8. Counting(l, p, n) = T
  BY <1>0
<1>9. IsEntry(f, l, p, n)'
  BY <1>4, <1>5, <1>6, <1>7, <1>8, Zenon DEF IsEntry, Counting, Counts
<1> QED BY <1>3, <1>5, <1>9

---------------------------------------------------------------------------
(* A request that a step leaves alone.                                     *)
AllStay(t) ==
    \A q \in DOMAIN entries[t] : \A k \in DOMAIN entries[t][q].claims :
        \A h : h = entries[t][q].claims[k] => Stays(h)

LEMMA AnswersStay ==
    ASSUME NEW t, Answers(t),
           UNCHANGED <<pc[t], wanted[t], list[t], at[t], left[t], entries[t]>>,
           pc[t] # "off" => lists'[list[t]] = lists[list[t]], AllStay(t)
    PROVE  Answers(t)'
<1>1. CASE pc[t] = "off"
  BY <1>1 DEF Answers
<1>2. CASE pc[t] # "off"
  <2>1. \A q : Passed(t, q)' = Passed(t, q)
    BY DEF Passed
  <2>2. ASSUME NEW q \in DOMAIN entries'[t]
        PROVE  \E e, g, m : /\ e = entries'[t][q] /\ g = list'[t] /\ m = Passed(t, q)'
                            /\ EntryFits(e, g, q, m)'
    <3>1. PICK e, g, m : e = entries[t][q] /\ g = list[t] /\ m = Passed(t, q)
      OBVIOUS
    <3>2. EntryFits(e, g, q, m)
      BY <1>2, <3>1 DEF Answers
    <3>3. lists'[g] = lists[g]
      BY <1>2, <3>1
    <3>4. \A k \in DOMAIN e.claims : Stays(e.claims[k])
      <4> SUFFICES ASSUME NEW k \in DOMAIN e.claims, NEW h, h = e.claims[k]
                   PROVE  Stays(h)
        OBVIOUS
      <4> QED BY <3>1 DEF AllStay
    <3>5. EntryFits(e, g, q, m)'
      BY <3>2, <3>3, <3>4, EntryStays
    <3> QED BY <2>1, <3>1, <3>5
  <2>3. \A q \in DOMAIN entries'[t] : EntryFits(entries[t][q], list[t], q, Passed(t, q))'
    BY <2>2
  <2>4. DOMAIN entries'[t] = {q \in wanted'[t] : \E i \in 1 .. Passed(t, q)' :
                                                    q \in DOMAIN lists'[list'[t]][i].products}
    BY <1>2, <2>1 DEF Answers
  <2>5. pc[t] = "done" => left[t] = {} /\ at[t] = Len(lists[list[t]])
    BY DEF Answers
  <2> QED BY <1>2, <2>3, <2>4, <2>5 DEF Answers
<1> QED BY <1>1, <1>2

(* Nothing a request holds moves where the arrays stay as they are.        *)
LEMMA AllInPlace ==
    ASSUME ArrayInv, AnswerInv, NEW t \in Request, \A a \in DOMAIN mem : mem'[a] = mem[a]
    PROVE  AllStay(t)
<1> SUFFICES ASSUME NEW q \in DOMAIN entries[t], NEW k \in DOMAIN entries[t][q].claims,
                    NEW h, h = entries[t][q].claims[k]
             PROVE  Stays(h)
  BY DEF AllStay
<1>1. PICK g, m : g = list[t] /\ m = Passed(t, q)
  OBVIOUS
<1>2. g \in DOMAIN lists /\ m \in Nat /\ HeldFits(h, g, q, k, m)
  BY <1>1, HeldOf DEF EntryFits
<1>3. HeldType(h)
  BY <1>2 DEF HeldFits
<1>4. CASE h.kind = "list"
  <2>1. h.array # Own => h.array \in DOMAIN mem
    BY <1>2, <1>4, HeldWhere
  <2> QED BY <1>3, <2>1, StaysInPlace
<1>5. CASE h.kind # "list"
  BY <1>5 DEF Stays
<1> QED BY <1>4, <1>5

(* The entries a request has keep what they show through a step of it.     *)
LEMMA EntryFitsStill ==
    ASSUME NEW t, NEW q \in DOMAIN entries[t], AllStay(t), NEW e, e = entries[t][q],
           NEW g, lists'[g] = lists[g], NEW m, EntryFits(e, g, q, m)
    PROVE  EntryFits(e, g, q, m)'
<1>1. \A k \in DOMAIN e.claims : Stays(e.claims[k])
  <2> SUFFICES ASSUME NEW k \in DOMAIN e.claims, NEW h, h = e.claims[k]
               PROVE  Stays(h)
    OBVIOUS
  <2> QED BY DEF AllStay
<1> QED BY <1>1, EntryStays

LEMMA ReadAnswers ==
    ASSUME ArrayInv, AnswerInv, NEW r \in Request, Read(r)
    PROVE  Answers(r)'
<1>1. /\ pc[r] = "off" /\ pc' = [pc EXCEPT ![r] = "run"]
      /\ UNCHANGED <<at, left, entries>>
  BY Zenon DEF Read
<1>2. at[r] = 0 /\ left[r] = {} /\ pc'[r] = "run"
  BY <1>1 DEF ArrayInv, RequestInv
<1>3. entries'[r] = <<>>
  BY <1>1 DEF AnswerInv, Answers
<1>4. DOMAIN entries'[r] = {}
  BY <1>3
<1>5. \A q : Passed(r, q)' = 0
  BY <1>1, <1>2 DEF Passed
<1>6. \A q : ~\E i \in 1 .. Passed(r, q)' : TRUE
  BY <1>5
<1> QED BY <1>2, <1>4, <1>6 DEF Answers

LEMMA NextLicenseAnswers ==
    ASSUME ArrayInv, AnswerInv, NEW r \in Request, NextLicense(r)
    PROVE  Answers(r)'
<1>0. PICK g, n : g = list[r] /\ n = at[r]
  OBVIOUS
<1>1. /\ pc[r] = "run" /\ left[r] = {} /\ n < Len(lists[g])
      /\ at' = [at EXCEPT ![r] = @ + 1]
      /\ left' = [left EXCEPT ![r] = DOMAIN lists[list[r]][at[r] + 1].products]
      /\ UNCHANGED <<lists, mem, pc, wanted, list, entries>>
  BY <1>0, Zenon DEF NextLicense
<1>2. g \in DOMAIN lists /\ n \in Nat
  <2>1. g \in DOMAIN lists /\ n \in 0 .. Len(lists[g])
    BY <1>0, <1>1 DEF ArrayInv, RequestInv
  <2>2. Len(lists[g]) \in Nat
    BY <2>1, SeqFacts DEF ArrayInv, LicensesInv
  <2> QED BY <2>1, <2>2
<1>3. at'[r] = n + 1 /\ left'[r] = DOMAIN lists[g][n + 1].products
  BY <1>0, <1>1 DEF ArrayInv, RequestInv
<1>4. \A q : Passed(r, q) = n
  BY <1>0, <1>1 DEF Passed
<1>5. \A q : Passed(r, q)' = IF q \in DOMAIN lists[g][n + 1].products THEN n ELSE n + 1
  <2>0. PICK m, rest : m = at'[r] /\ rest = left'[r]
    OBVIOUS
  <2>1. m = n + 1 /\ m - 1 = n /\ rest = DOMAIN lists[g][n + 1].products
    BY <1>2, <1>3, <2>0
  <2>2. \A q : Passed(r, q)' = IF q \in rest THEN m - 1 ELSE m
    BY <2>0, Zenon DEF Passed
  <2> QED BY <2>1, <2>2
<1>6. AllStay(r)
  BY <1>1, AllInPlace
<1>7. /\ DOMAIN entries[r] = {q \in wanted[r] : \E i \in 1 .. n : q \in DOMAIN lists[g][i].products}
      /\ \A q \in DOMAIN entries[r] : EntryFits(entries[r][q], g, q, n)
  BY <1>0, <1>1, <1>4 DEF AnswerInv, Answers
<1>8. DOMAIN entries'[r] = {q \in wanted'[r] : \E i \in 1 .. Passed(r, q)' :
                                                  q \in DOMAIN lists'[list'[r]][i].products}
  <2>1. ASSUME NEW q
        PROVE  (\E i \in 1 .. n : q \in DOMAIN lists[g][i].products) <=>
                  \E i \in 1 .. Passed(r, q)' : q \in DOMAIN lists[g][i].products
    <3>1. CASE q \in DOMAIN lists[g][n + 1].products
      BY <1>5, <3>1
    <3>2. CASE q \notin DOMAIN lists[g][n + 1].products
      <4>1. \A i \in 1 .. n + 1 : i \in 1 .. n \/ i = n + 1
        BY <1>2
      <4>2. \A i \in 1 .. n : i \in 1 .. n + 1
        BY <1>2
      <4>3. Passed(r, q)' = n + 1
        BY <1>5, <3>2
      <4> QED BY <3>2, <4>1, <4>2, <4>3, Zenon
    <3> QED BY <3>1, <3>2
  <2> QED BY <1>0, <1>1, <1>7, <2>1
<1>9. ASSUME NEW q \in DOMAIN entries'[r]
      PROVE  \E e, m : /\ e = entries'[r][q] /\ m = Passed(r, q)'
                       /\ EntryFits(e, g, q, m)'
  <2>1. PICK e, m : e = entries[r][q] /\ e = entries'[r][q] /\ m = Passed(r, q)'
    BY <1>1
  <2>2. EntryFits(e, g, q, n) /\ q \in DOMAIN entries[r]
    BY <1>1, <1>7, <2>1
  <2>3. EntryFits(e, g, q, m)
    <3>1. CASE q \in DOMAIN lists[g][n + 1].products
      BY <1>5, <2>1, <2>2, <3>1
    <3>2. CASE q \notin DOMAIN lists[g][n + 1].products
      <4>1. PICK x : x = n + 1 /\ x \in Nat /\ x > 0 /\ x - 1 = n
        BY <1>2
      <4>2. ~Counts(lists[g][x], q)
        BY <3>2, <4>1 DEF Counts
      <4>3. EntryFits(e, g, q, x)
        BY <1>2, <2>2, <4>1, <4>2, EntrySkips DEF ArrayInv
      <4> QED BY <1>5, <2>1, <3>2, <4>1, <4>3
    <3> QED BY <3>1, <3>2
  <2>4. EntryFits(e, g, q, m)'
    BY <1>1, <1>6, <2>1, <2>2, <2>3, EntryFitsStill
  <2> QED BY <2>1, <2>4
<1>10. \A q \in DOMAIN entries'[r] : EntryFits(entries[r][q], list[r], q, Passed(r, q))'
  BY <1>0, <1>1, <1>9
<1> QED BY <1>1, <1>8, <1>10 DEF Answers

---------------------------------------------------------------------------
(* A visit of a product: only that product has one more license passed.    *)
LEMMA VisitPasses ==
    ASSUME ArrayInv, AnswerInv, NEW r \in Request, NEW p, Visit(r, p)
    PROVE  /\ Passed(r, p)' = at[r] /\ at'[r] = at[r]
           /\ \A q : q # p => Passed(r, q)' = Passed(r, q)
           /\ pc'[r] = "run" /\ wanted' = wanted /\ list' = list /\ lists' = lists
<1>1. /\ pc[r] = "run" /\ left' = [left EXCEPT ![r] = @ \ {p}]
      /\ UNCHANGED <<lists, pc, wanted, list, at>>
  BY Zenon DEF Visit
<1>2. left'[r] = left[r] \ {p}
  BY <1>1 DEF ArrayInv, RequestInv
<1>3. PICK m, rest : m = at'[r] /\ rest = left'[r]
  OBVIOUS
<1>4. \A q : Passed(r, q)' = IF q \in rest THEN m - 1 ELSE m
  BY <1>3, Zenon DEF Passed
<1>5. m = at[r] /\ rest = left[r] \ {p}
  BY <1>1, <1>2, <1>3
<1> QED BY <1>1, <1>4, <1>5 DEF Passed

LEMMA SkipUnwantedAnswers ==
    ASSUME ArrayInv, AnswerInv, NEW r \in Request, NEW p, SkipUnwanted(r, p)
    PROVE  Answers(r)'
<1>1. Visit(r, p) /\ p \notin wanted[r] /\ UNCHANGED <<mem, entries>>
  BY Zenon DEF SkipUnwanted
<1>2. /\ \A q : q # p => Passed(r, q)' = Passed(r, q)
      /\ pc[r] = "run" /\ pc'[r] = "run" /\ wanted' = wanted /\ list' = list /\ lists' = lists
  BY <1>1, VisitPasses DEF Visit
<1>3. PICK g : g = list[r]
  OBVIOUS
<1>4. /\ DOMAIN entries[r] = {q \in wanted[r] : \E i \in 1 .. Passed(r, q) :
                                                   q \in DOMAIN lists[g][i].products}
      /\ \A q \in DOMAIN entries[r] : EntryFits(entries[r][q], g, q, Passed(r, q))
  BY <1>2, <1>3 DEF AnswerInv, Answers
<1>5. AllStay(r)
  BY <1>1, AllInPlace
<1>6. DOMAIN entries'[r] = {q \in wanted'[r] : \E i \in 1 .. Passed(r, q)' :
                                                  q \in DOMAIN lists'[list'[r]][i].products}
  <2>1. \A q \in wanted[r] : Passed(r, q)' = Passed(r, q)
    BY <1>1, <1>2
  <2> QED BY <1>1, <1>2, <1>3, <1>4, <2>1
<1>7. ASSUME NEW q \in DOMAIN entries'[r]
      PROVE  \E e, m : /\ e = entries'[r][q] /\ m = Passed(r, q)'
                       /\ EntryFits(e, g, q, m)'
  <2>1. PICK e, m : e = entries[r][q] /\ e = entries'[r][q] /\ m = Passed(r, q)'
    BY <1>1
  <2>2. q \in DOMAIN entries[r] /\ q # p
    BY <1>1, <1>4
  <2>3. EntryFits(e, g, q, m)
    BY <1>2, <1>4, <2>1, <2>2
  <2>4. EntryFits(e, g, q, m)'
    BY <1>2, <1>5, <2>1, <2>2, <2>3, EntryFitsStill
  <2> QED BY <2>1, <2>4
<1>8. \A q \in DOMAIN entries'[r] : EntryFits(entries[r][q], list[r], q, Passed(r, q))'
  BY <1>2, <1>3, <1>7
<1> QED BY <1>2, <1>6, <1>8 DEF Answers

(* A visit that writes an entry with what is right by then.                *)
LEMMA VisitAnswers ==
    ASSUME ArrayInv, AnswerInv, NEW r \in Request, NEW p, Visit(r, p), p \in wanted[r],
           AllStay(r), NEW g, g = list[r], NEW n, n = at[r], NEW f, EntryFits(f, g, p, n)',
           entries' = [entries EXCEPT ![r] = WithEntry(r, p, f)]
    PROVE  Answers(r)'
<1>1. /\ Passed(r, p)' = n /\ \A q : q # p => Passed(r, q)' = Passed(r, q)
      /\ pc[r] = "run" /\ pc'[r] = "run" /\ wanted' = wanted /\ list' = list /\ lists' = lists
  <2>1. pc[r] = "run"
    BY Zenon DEF Visit
  <2> QED BY <2>1, VisitPasses
<1>2. /\ DOMAIN entries[r] = {q \in wanted[r] : \E i \in 1 .. Passed(r, q) :
                                                   q \in DOMAIN lists[g][i].products}
      /\ \A q \in DOMAIN entries[r] : EntryFits(entries[r][q], g, q, Passed(r, q))
  BY <1>1 DEF AnswerInv, Answers
<1>3. n \in Nat /\ n > 0 /\ p \in DOMAIN lists[g][n].products
  BY VisitFacts
<1>4. entries'[r] = WithEntry(r, p, f)
  BY DEF ArrayInv, RequestInv
<1>5. /\ DOMAIN entries'[r] = DOMAIN entries[r] \cup {p} /\ entries'[r][p] = f
      /\ \A q \in DOMAIN entries[r] : q # p => entries'[r][q] = entries[r][q]
  BY <1>4 DEF WithEntry
<1>6. DOMAIN entries'[r] = {q \in wanted'[r] : \E i \in 1 .. Passed(r, q)' :
                                                  q \in DOMAIN lists'[list'[r]][i].products}
  <2>1. \E i \in 1 .. Passed(r, p)' : p \in DOMAIN lists[g][i].products
    BY <1>1, <1>3
  <2>2. \A q \in wanted[r] : q \in DOMAIN entries'[r] <=>
            \E i \in 1 .. Passed(r, q)' : q \in DOMAIN lists[g][i].products
    BY <1>1, <1>2, <1>5, <2>1
  <2>3. DOMAIN entries'[r] \subseteq wanted[r]
    BY <1>2, <1>5
  <2> QED BY <1>1, <2>2, <2>3
<1>7. ASSUME NEW q \in DOMAIN entries'[r]
      PROVE  \E e, m : /\ e = entries'[r][q] /\ m = Passed(r, q)'
                       /\ EntryFits(e, g, q, m)'
  <2>1. CASE q = p
    BY <1>1, <1>5, <2>1
  <2>2. CASE q # p
    <3>1. q \in DOMAIN entries[r]
      BY <1>5, <2>2
    <3>2. PICK e, m : e = entries[r][q] /\ e = entries'[r][q] /\ m = Passed(r, q)'
      BY <1>5, <2>2, <3>1
    <3>3. EntryFits(e, g, q, m)
      BY <1>1, <1>2, <2>2, <3>1, <3>2
    <3>4. EntryFits(e, g, q, m)'
      BY <1>1, <3>1, <3>2, <3>3, EntryFitsStill
    <3> QED BY <3>2, <3>4
  <2> QED BY <2>1, <2>2
<1>8. \A q \in DOMAIN entries'[r] : EntryFits(entries[r][q], list[r], q, Passed(r, q))'
  BY <1>1, <1>7
<1> QED BY <1>1, <1>6, <1>8 DEF Answers

LEMMA SkipExclusiveAnswers ==
    ASSUME ArrayInv, AnswerInv, NEW r \in Request, NEW p, SkipExclusive(r, p)
    PROVE  Answers(r)'
<1>1. /\ Visit(r, p) /\ p \in wanted[r] /\ License(r).products[p].exclusive /\ mem' = mem
      /\ entries' = [entries EXCEPT ![r] = WithEntry(r, p, EntryOf(r, p))]
  BY Zenon DEF SkipExclusive
<1>2. PICK g, n, f : g = list[r] /\ n = at[r] /\ f = EntryOf(r, p)
  OBVIOUS
<1>3. /\ g \in DOMAIN lists /\ n \in Nat /\ n > 0 /\ lists' = lists
      /\ License(r) = lists[g][n] /\ EntryFits(f, g, p, n - 1)
  BY <1>1, <1>2, VisitFacts, VisitPasses
<1>4. EntryFits(f, g, p, n)
  <2>1. ~Counts(lists[g][n], p)
    BY <1>1, <1>3 DEF Counts
  <2> QED BY <1>3, <2>1, EntrySkips DEF ArrayInv
<1>5. AllStay(r)
  BY <1>1, AllInPlace
<1>6. \A k \in DOMAIN f.claims : Stays(f.claims[k])
  <2> SUFFICES ASSUME NEW k \in DOMAIN f.claims, NEW h, h = f.claims[k]
               PROVE  Stays(h)
    OBVIOUS
  <2>1. CASE p \in DOMAIN entries[r]
    BY <1>2, <1>5, <2>1 DEF AllStay, EntryOf
  <2>2. CASE p \notin DOMAIN entries[r]
    <3> DEFINE empty == <<>>
    <3>1. DOMAIN empty = {}
      OBVIOUS
    <3>2. f.claims = empty
      BY <1>2, <2>2 DEF EntryOf, NewEntry
    <3> QED BY <3>1, <3>2
  <2> QED BY <2>1, <2>2
<1>7. EntryFits(f, g, p, n)'
  BY <1>3, <1>4, <1>6, EntryStays
<1> QED BY <1>1, <1>2, <1>5, <1>7, VisitAnswers

LEMMA AggregateAnswers ==
    ASSUME ArrayInv, ArrayInv', AnswerInv, NEW r \in Request, NEW p \in Product, Aggregate(r, p)
    PROVE  Answers(r)'
<1>1. PICK g, n, e, values : /\ g = list[r] /\ n = at[r] /\ e = EntryOf(r, p)
                             /\ values = License(r).products[p].claims
  OBVIOUS
<1>2. PICK l : l = lists[g]
  OBVIOUS
<1>3. Visit(r, p) /\ p \in wanted[r]
  BY Zenon DEF Aggregate
<1>4. /\ g \in DOMAIN lists /\ n \in Nat /\ n > 0 /\ lists' = lists
      /\ License(r) = l[n] /\ IsLicense(l[n]) /\ EntryFits(e, g, p, n - 1)
  BY <1>1, <1>2, <1>3, VisitFacts, VisitPasses
<1>5. Counts(l[n], p)
  BY <1>1, <1>2, AggregateFacts
<1>6. PICK claims : claims = [k \in DOMAIN e.claims \cup DOMAIN values |->
                                 IF k \notin DOMAIN values THEN e.claims[k]
                                 ELSE IF k \notin DOMAIN e.claims
                                      THEN Held(values[k], <<g, n, p, k>>)
                                      ELSE Merged(e.claims[k], values[k], <<g, n, p, k>>)]
  OBVIOUS
<1>7. PICK f : f = [claims |-> claims, expiry |-> Append(e.expiry, l[n].exp),
                    dn |-> IF l[n].dn = NoName THEN e.dn ELSE AppendIfMissing(e.dn, l[n].dn)]
  OBVIOUS
<1>8. entries' = [entries EXCEPT ![r] = WithEntry(r, p, f)]
  <2> DEFINE x == License(r)
             old == EntryOf(r, p)
             all == x.products[p].claims
             ArrayOf(k) == <<list[r], at[r], p, k>>
  <2>1. entries' = [entries EXCEPT ![r] = WithEntry(r, p,
                 [claims |-> [k \in DOMAIN old.claims \cup DOMAIN all |->
                                 IF k \notin DOMAIN all THEN old.claims[k]
                                 ELSE IF k \notin DOMAIN old.claims
                                      THEN Held(all[k], ArrayOf(k))
                                      ELSE Merged(old.claims[k], all[k], ArrayOf(k))],
                  expiry |-> Append(old.expiry, x.exp),
                  dn |-> IF x.dn = NoName THEN old.dn ELSE AppendIfMissing(old.dn, x.dn)])]
    BY Zenon DEF Aggregate
  <2> QED BY <1>1, <1>4, <1>6, <1>7, <2>1, Zenon
<1>9. /\ DOMAIN claims = DOMAIN e.claims \cup DOMAIN values
      /\ \A k \in DOMAIN claims :
            claims[k] = IF k \notin DOMAIN values THEN e.claims[k]
                        ELSE IF k \notin DOMAIN e.claims
                             THEN Held(values[k], <<g, n, p, k>>)
                             ELSE Merged(e.claims[k], values[k], <<g, n, p, k>>)
  BY <1>6
<1>10. ASSUME NEW k \in DOMAIN claims
       PROVE  \E h : h = claims[k] /\ HeldFits(h, g, p, k, n)'
  <2>1. PICK h : h = claims[k]
    OBVIOUS
  <2>2. h = IF k \notin DOMAIN values THEN e.claims[k]
            ELSE IF k \notin DOMAIN e.claims
                 THEN Held(values[k], <<g, n, p, k>>)
                 ELSE Merged(e.claims[k], values[k], <<g, n, p, k>>)
    BY <1>9, <2>1
  <2>3. k \in DOMAIN e.claims \cup DOMAIN values /\ h = NewClaim(e, values, g, n, p, k)
    BY <1>9, <2>2, Zenon DEF NewClaim
  <2>4. HeldFits(h, g, p, k, n)'
    BY <1>1, <2>3, ClaimGrows
  <2> QED BY <2>1, <2>4
<1>11. lists'[g] = l
  BY <1>2, <1>4
<1>12. ASSUME NEW k \in DOMAIN claims
       PROVE  IsAggregate(claims[k], ValuesOf(l, p, k), n)'
  <2>1. PICK h : h = claims[k] /\ HeldFits(h, g, p, k, n)'
    BY <1>10
  <2>2. PICK v : v = ValuesOf(l, p, k)
    OBVIOUS
  <2>3. ValuesOf(lists'[g], p, k) = v
    BY <1>11, <2>2
  <2>4. IsAggregate(h, v, n)'
    BY <2>1, <2>3, Zenon DEF HeldFits
  <2> QED BY <2>1, <2>2, <2>4
<1>13. IsEntry(e, l, p, n - 1) /\ e.dn \in Seq(Item)
  BY <1>2, <1>4 DEF EntryFits
<1>14. /\ DOMAIN f = {"claims", "expiry", "dn"} /\ f.dn \in Seq(Item)
       /\ IsEntry(f, l, p, n)'
  <2>1. DOMAIN claims = DOMAIN e.claims \cup DOMAIN l[n].products[p].claims
    BY <1>1, <1>4, <1>9
  <2> QED BY <1>4, <1>5, <1>7, <1>12, <1>13, <2>1, EntryGrows
<1>15. f.claims = claims
  BY <1>7
<1>16. EntryFits(f, g, p, n)'
  <2>1. \A k \in DOMAIN f.claims : HeldFits(f.claims[k], g, p, k, n)'
    BY <1>10, <1>15
  <2> QED BY <1>11, <1>14, <2>1, Zenon DEF EntryFits
<1>17. AllStay(r)
  BY AggregateStays DEF AllStay
<1> QED BY <1>1, <1>3, <1>8, <1>16, <1>17, VisitAnswers

LEMMA RespondAnswers ==
    ASSUME ArrayInv, AnswerInv, NEW r \in Request, Respond(r) \/ RespondFails(r)
    PROVE  Answers(r)'
<1>0. \E answered \in {"done", "failed"} : pc' = [pc EXCEPT ![r] = answered]
  BY Zenon DEF Respond, RespondFails
<1>1. /\ pc[r] = "run" /\ left[r] = {} /\ at[r] = Len(lists[list[r]])
      /\ UNCHANGED <<lists, mem, wanted, list, at, left, entries>>
  BY Zenon DEF Respond, RespondFails, LoopEnds
<1>2. pc'[r] # "off"
  BY <1>0 DEF ArrayInv, RequestInv
<1>3. PICK g : g = list[r]
  OBVIOUS
<1>4. \A q : Passed(r, q)' = Passed(r, q)
  BY <1>1 DEF Passed
<1>5. AllStay(r)
  BY <1>1, AllInPlace
<1>6. /\ DOMAIN entries[r] = {q \in wanted[r] : \E i \in 1 .. Passed(r, q) :
                                                   q \in DOMAIN lists[g][i].products}
      /\ \A q \in DOMAIN entries[r] : EntryFits(entries[r][q], g, q, Passed(r, q))
  BY <1>1, <1>3 DEF AnswerInv, Answers
<1>7. ASSUME NEW q \in DOMAIN entries'[r]
      PROVE  \E e, m : /\ e = entries'[r][q] /\ m = Passed(r, q)'
                       /\ EntryFits(e, g, q, m)'
  <2>1. PICK e, m : e = entries[r][q] /\ e = entries'[r][q] /\ m = Passed(r, q)'
    BY <1>1
  <2>2. q \in DOMAIN entries[r]
    BY <1>1
  <2>3. EntryFits(e, g, q, m)
    BY <1>4, <1>6, <2>1, <2>2
  <2>4. EntryFits(e, g, q, m)'
    BY <1>1, <1>5, <2>1, <2>2, <2>3, EntryFitsStill
  <2> QED BY <2>1, <2>4
<1>8. \A q \in DOMAIN entries'[r] : EntryFits(entries[r][q], list[r], q, Passed(r, q))'
  BY <1>1, <1>3, <1>7
<1>9. DOMAIN entries'[r] = {q \in wanted'[r] : \E i \in 1 .. Passed(r, q)' :
                                                  q \in DOMAIN lists'[list'[r]][i].products}
  BY <1>1, <1>3, <1>4, <1>6
<1> QED BY <1>1, <1>2, <1>8, <1>9 DEF Answers

LEMMA AnswerStart == Init => AnswerInv
<1> SUFFICES ASSUME Init, NEW r \in Request PROVE Answers(r)
  BY DEF AnswerInv
<1>1. pc = [t \in Request |-> "off"] /\ entries = [t \in Request |-> <<>>]
  BY Zenon DEF Init, ProductsInit
<1> QED BY <1>1 DEF Answers

WantedInv == wanted \in [Request -> SUBSET Product]

LEMMA WantedStart == Init => WantedInv
BY Zenon DEF Init, ProductsInit, WantedInv

LEMMA WantedStep == WantedInv /\ [Next]_claimsVars => WantedInv'
<1> SUFFICES ASSUME WantedInv, [Next]_claimsVars PROVE WantedInv'
  OBVIOUS
<1>1. ASSUME NEW r \in Request, Read(r) PROVE WantedInv'
  <2>1. PICK filter \in SUBSET Product : wanted' = [wanted EXCEPT ![r] = filter]
    BY <1>1, Zenon DEF Read
  <2> QED BY <2>1 DEF WantedInv
<1>2. wanted' = wanted \/ \E r \in Request : Read(r)
  <2>1. CASE \E r \in Request : RequestNext(r)
    <3>1. ASSUME NEW r, NEW p, SkipUnwanted(r, p) \/ SkipExclusive(r, p) \/ Aggregate(r, p)
          PROVE  wanted' = wanted
      <4>1. Visit(r, p)
        BY <3>1, Zenon DEF SkipUnwanted, SkipExclusive, Aggregate
      <4> QED BY <4>1, Zenon DEF Visit
    <3>2. ASSUME NEW r, NextLicense(r) \/ Respond(r) \/ RespondFails(r) PROVE wanted' = wanted
      BY <3>2, Zenon DEF NextLicense, Respond, RespondFails, LoopEnds
    <3> QED BY <2>1, <3>1, <3>2, Zenon DEF RequestNext
  <2> QED BY <2>1, Zenon DEF Next, Sign, PublishFiles, Publish, productsVars, requestVars,
                             claimsVars
<1> QED BY <1>1, <1>2 DEF WantedInv

(* A step of one request, whatever it is, leaves the others alone.         *)
LEMMA OthersAnswer ==
    ASSUME ArrayInv, AnswerInv, WantedInv, NEW r \in Request, RequestNext(r), NEW t \in Request, t # r
    PROVE  Answers(t)'
<1>1. UNCHANGED <<pc[t], wanted[t], list[t], at[t], left[t], entries[t]>> /\ lists' = lists
  <2>0. /\ DOMAIN pc = Request /\ DOMAIN wanted = Request /\ DOMAIN list = Request
        /\ DOMAIN at = Request /\ DOMAIN left = Request /\ DOMAIN entries = Request
    BY DEF ArrayInv, RequestInv, WantedInv
  <2>1. Read(r) => /\ UNCHANGED <<lists, at, left, entries>>
                   /\ pc' = [pc EXCEPT ![r] = "run"]
                   /\ \E filter : wanted' = [wanted EXCEPT ![r] = filter]
                   /\ list' = [list EXCEPT ![r] = Len(lists)]
    BY Zenon DEF Read
  <2>2. NextLicense(r) => /\ UNCHANGED <<lists, pc, wanted, list, entries>>
                          /\ \E m : at' = [at EXCEPT ![r] = m]
                          /\ \E m : left' = [left EXCEPT ![r] = m]
    <3>1. NextLicense(r) =>
             /\ UNCHANGED <<lists, pc, wanted, list, entries>>
             /\ at' = [at EXCEPT ![r] = @ + 1]
             /\ left' = [left EXCEPT ![r] = DOMAIN lists[list[r]][at[r] + 1].products]
      BY Zenon DEF NextLicense
    <3> QED BY <3>1
  <2>3. Respond(r) \/ RespondFails(r) =>
            /\ UNCHANGED <<lists, wanted, list, at, left, entries>>
            /\ \E answered : pc' = [pc EXCEPT ![r] = answered]
    BY Zenon DEF Respond, RespondFails, LoopEnds
  <2>4. ASSUME NEW p, Visit(r, p)
        PROVE  UNCHANGED <<lists, pc, wanted, list, at>> /\ left' = [left EXCEPT ![r] = @ \ {p}]
    BY <2>4, Zenon DEF Visit
  <2>5. ASSUME NEW p, SkipUnwanted(r, p) \/ SkipExclusive(r, p) \/ Aggregate(r, p)
        PROVE  Visit(r, p) /\ (entries' = entries \/ \E f : entries' = [entries EXCEPT ![r] = f])
    BY <2>5, Zenon DEF SkipUnwanted, SkipExclusive, Aggregate
  <2>6. \/ Read(r) \/ NextLicense(r) \/ Respond(r) \/ RespondFails(r)
        \/ \E p : SkipUnwanted(r, p) \/ SkipExclusive(r, p) \/ Aggregate(r, p)
    BY Zenon DEF RequestNext
  <2>7. CASE Read(r)
    BY <2>0, <2>1, <2>7
  <2>8. CASE NextLicense(r)
    BY <2>0, <2>2, <2>8
  <2>9. CASE Respond(r) \/ RespondFails(r)
    BY <2>0, <2>3, <2>9
  <2>10. ASSUME NEW p, SkipUnwanted(r, p) \/ SkipExclusive(r, p) \/ Aggregate(r, p)
         PROVE  /\ UNCHANGED <<pc[t], wanted[t], list[t], at[t], left[t], entries[t]>>
                /\ lists' = lists
    <3>1. /\ UNCHANGED <<lists, pc, wanted, list, at>> /\ left' = [left EXCEPT ![r] = @ \ {p}]
          /\ entries' = entries \/ \E f : entries' = [entries EXCEPT ![r] = f]
      BY <2>4, <2>5, <2>10
    <3> QED BY <2>0, <3>1
  <2> QED BY <2>6, <2>7, <2>8, <2>9, <2>10
<1>2. AllStay(t)
  <2>1. CASE \E p \in Product : Aggregate(r, p)
    BY <2>1, AggregateStays DEF AllStay
  <2>2. CASE mem' = mem
    BY <2>2, AllInPlace
  <2>3. mem' = mem \/ \E p \in Product : Aggregate(r, p)
    BY Zenon DEF RequestNext, Read, NextLicense, Respond, RespondFails, LoopEnds, SkipUnwanted,
                 SkipExclusive
  <2> QED BY <2>1, <2>2, <2>3
<1>3. Answers(t)
  BY DEF AnswerInv
<1> QED BY <1>1, <1>2, <1>3, AnswersStay

LEMMA AnswerStep ==
    ArrayInv /\ ArrayInv' /\ AnswerInv /\ WantedInv /\ [Next]_claimsVars => AnswerInv'
<1> SUFFICES ASSUME ArrayInv, ArrayInv', AnswerInv, WantedInv, [Next]_claimsVars,
                    NEW t \in Request
             PROVE  Answers(t)'
  BY DEF AnswerInv
<1>1. Answers(t)
  BY DEF AnswerInv
<1>2. CASE UNCHANGED productsVars
  <2>1. UNCHANGED <<lists, mem, pc, wanted, list, at, left, entries>>
    BY <1>2, Zenon DEF productsVars, requestVars
  <2>2. AllStay(t)
    BY <2>1, AllInPlace
  <2> QED BY <1>1, <2>1, <2>2, AnswersStay
<1>3. CASE PublishFiles
  <2>1. PICK l : Published(l) /\ Publish(l)
    BY <1>3, PublishFacts DEF ArrayInv
  <2>2. /\ UNCHANGED <<pc, wanted, list, at, left, entries>>
        /\ \A a \in DOMAIN mem : mem'[a] = mem[a]
    BY <2>1 DEF Publish, requestVars
  <2>3. AllStay(t)
    BY <2>2, AllInPlace
  <2>4. pc[t] # "off" => lists'[list[t]] = lists[list[t]]
    <3>1. pc[t] # "off" => list[t] \in DOMAIN lists
      BY DEF ArrayInv, RequestInv
    <3>2. \A g \in DOMAIN lists : lists'[g] = lists[g]
      BY <2>1, OldLists DEF ArrayInv
    <3> QED BY <3>1, <3>2
  <2> QED BY <1>1, <2>2, <2>3, <2>4, AnswersStay
<1>4. ASSUME NEW r \in Request, RequestNext(r) PROVE Answers(t)'
  <2>1. CASE t # r
    BY <1>4, <2>1, OthersAnswer
  <2>2. CASE t = r
    <3>1. \/ Read(t) \/ NextLicense(t) \/ Respond(t) \/ RespondFails(t)
          \/ \E p \in Product : SkipUnwanted(t, p) \/ SkipExclusive(t, p) \/ Aggregate(t, p)
      BY <1>4, <2>2, Zenon DEF RequestNext
    <3> QED BY <3>1, ReadAnswers, NextLicenseAnswers, RespondAnswers, SkipUnwantedAnswers,
               SkipExclusiveAnswers, AggregateAnswers
  <2> QED BY <2>1, <2>2
<1>5. UNCHANGED productsVars \/ PublishFiles \/ \E r \in Request : RequestNext(r)
  BY Zenon DEF Next, Sign, claimsVars
<1> QED BY <1>2, <1>3, <1>4, <1>5

(* When a request has answered there is no license left that it has not    *)
(* passed.                                                                 *)
LEMMA AnsweredIsAggregate == ArrayInv /\ AnswerInv => AnswerIsAggregate
<1> SUFFICES ASSUME ArrayInv, AnswerInv, NEW r \in Request, pc[r] = "done", NEW l,
                    l = lists[list[r]]
             PROVE  /\ DOMAIN entries[r] = wanted[r] \cap UNION {DOMAIN l[i].products : i \in DOMAIN l}
                    /\ \A p \in DOMAIN entries[r] : IsEntry(entries[r][p], l, p, Len(l))
  BY Zenon DEF AnswerIsAggregate
<1>1. left[r] = {} /\ at[r] = Len(l)
  BY DEF AnswerInv, Answers
<1>2. \A p : Passed(r, p) = Len(l)
  BY <1>1 DEF Passed
<1>3. DOMAIN l = 1 .. Len(l)
  BY SeqFacts DEF ArrayInv, RequestInv, LicensesInv
<1>4. /\ DOMAIN entries[r] = {p \in wanted[r] : \E i \in 1 .. Len(l) : p \in DOMAIN l[i].products}
      /\ \A p \in DOMAIN entries[r] : EntryFits(entries[r][p], list[r], p, Len(l))
  BY <1>2 DEF AnswerInv, Answers
<1>5. \A p \in DOMAIN entries[r] : IsEntry(entries[r][p], l, p, Len(l))
  BY <1>4 DEF EntryFits
<1> QED BY <1>3, <1>4, <1>5

(* Whatever is published while a request runs, and however its steps       *)
(* interleave with those of others that append to the same arrays, what it *)
(* answers is the aggregate of the one list of licenses it read            *)
(* (server/handlers.go:186-330).                                           *)
THEOREM AnswersAreAggregates == Spec => []AnswerIsAggregate
<1>1. Init => ArrayInv /\ WantedInv /\ AnswerInv
  BY ArrayStart, WantedStart, AnswerStart
<1>2. ArrayInv /\ WantedInv /\ AnswerInv /\ [Next]_claimsVars =>
         ArrayInv' /\ WantedInv' /\ AnswerInv'
  BY ArrayStep, WantedStep, AnswerStep
<1> QED BY <1>1, <1>2, AnsweredIsAggregate, PTL DEF Spec
=============================================================================
