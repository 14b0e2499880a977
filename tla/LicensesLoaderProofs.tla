------------------------ MODULE LicensesLoaderProofs ------------------------
(***************************************************************************)
(* Theorems about LicensesLoader, for any number of files and any set of   *)
(* licenses.  The first part is about the sort and the removal of          *)
(* duplicates, the second about scans of a folder that others edit.        *)
(***************************************************************************)
EXTENDS LicensesLoader, FiniteSetTheorems, TLAPS

(* A nonempty set of natural numbers has a least one.                      *)
LEMMA LeastNumber ==
    ASSUME NEW T \in SUBSET Nat, T # {}
    PROVE  \E n \in T : \A m \in T : n <= m
<1> DEFINE R == OpToRel(<, Nat)
<1>1. PICK n \in T : \A m \in T : ~(<<m, n>> \in R)
  <2>1. IsWellFoundedOn(R, Nat)
    BY NatLessThanWellFounded
  <2> HIDE DEF R
  <2> QED BY <2>1, WFMin
<1>2. \A m \in T : n <= m
  <2> SUFFICES ASSUME NEW m \in T, m < n PROVE FALSE
    OBVIOUS
  <2> QED BY <1>1 DEF OpToRel
<1> QED BY <1>2

---------------------------------------------------------------------------
(* What a scan accepts: every file at most once.                           *)
Scanned(S) ==
    /\ S \subseteq Entry
    /\ \A a, b \in S : a.file = b.file => a = b

LEMMA ScannedSubset ==
    ASSUME NEW S, Scanned(S), NEW T \in SUBSET S
    PROVE  Scanned(T)
BY DEF Scanned

LEMMA EntryType ==
    ASSUME NEW e \in Entry
    PROVE  /\ e.file \in Nat /\ e.file \in Files
           /\ e.license \in License /\ e.license.iat \in Nat
BY LoaderAssumption DEF Entry, Files

LEMMA ScannedFinite ==
    ASSUME NEW S, Scanned(S)
    PROVE  IsFiniteSet(S)
<1> DEFINE file == [e \in S |-> e.file]
<1>1. file \in Injection(S, Files)
  BY EntryType DEF Scanned, Injection, IsInjective
<1>2. IsFiniteSet(Files)
  BY LoaderAssumption, FS_Interval DEF Files
<1> HIDE DEF file
<1> QED BY <1>1, <1>2, FS_Injection

(* Before is a strict total order of what a scan accepts.                  *)
LEMMA BeforeOrders ==
    ASSUME NEW S, Scanned(S)
    PROVE  /\ \A a \in S : ~Before(a, a)
           /\ \A a, b \in S : a # b => Before(a, b) \/ Before(b, a)
           /\ \A a, b, c \in S : Before(a, b) /\ Before(b, c) => Before(a, c)
<1>1. \A a \in S : a.file \in Nat /\ a.license.iat \in Nat
  BY EntryType DEF Scanned
<1>2. ASSUME NEW a \in S, NEW b \in S, a # b PROVE Before(a, b) \/ Before(b, a)
  <2>1. a.file # b.file
    BY <1>2 DEF Scanned
  <2> QED BY <1>1, <2>1 DEF Before
<1> QED BY <1>1, <1>2 DEF Before

(* Whatever is before another license has a higher place in the result.    *)
LEMMA PlaceGrows ==
    ASSUME NEW S, Scanned(S), NEW a \in S, NEW b \in S, Before(a, b)
    PROVE  Place(b, S) < Place(a, S)
<1> DEFINE A == {o \in S : Before(a, o)}
           B == {o \in S : Before(b, o)}
<1>1. IsFiniteSet(A)
  BY ScannedFinite, FS_Subset
<1>2. B \subseteq A
  BY BeforeOrders
<1>3. b \in A /\ b \notin B
  BY BeforeOrders
<1>4. Cardinality(B) <= Cardinality(A) /\ Cardinality(B) # Cardinality(A)
  <2> HIDE DEF A, B
  <2> QED BY <1>1, <1>2, <1>3, FS_Subset
<1>5. Cardinality(A) \in Nat /\ Cardinality(B) \in Nat
  <2> HIDE DEF A, B
  <2> QED BY <1>1, <1>2, FS_Subset, FS_CardinalityType
<1> QED BY <1>4, <1>5 DEF Place

LEMMA PlaceType ==
    ASSUME NEW S, Scanned(S), NEW e \in S
    PROVE  Place(e, S) \in 1 .. Cardinality(S)
<1> DEFINE A == {o \in S : Before(e, o)}
<1>1. IsFiniteSet(S) /\ A \subseteq S \ {e}
  BY ScannedFinite, BeforeOrders
<1> HIDE DEF A
<1>2. IsFiniteSet(S \ {e}) /\ Cardinality(S \ {e}) = Cardinality(S) - 1
  BY <1>1, FS_RemoveElement
<1>3. IsFiniteSet(A) /\ Cardinality(A) <= Cardinality(S) - 1
  BY <1>1, <1>2, FS_Subset
<1>4. Cardinality(A) \in Nat /\ Cardinality(S) \in Nat
  BY <1>1, <1>3, FS_CardinalityType
<1>5. Place(e, S) = Cardinality(A) + 1
  BY DEF Place, A
<1> QED BY <1>3, <1>4, <1>5

(* Every place is taken by exactly one license.                            *)
LEMMA PlacesTaken ==
    ASSUME NEW S, Scanned(S), NEW n \in 1 .. Cardinality(S)
    PROVE  \E e \in S : Place(e, S) = n
<1> DEFINE place == [e \in S |-> Place(e, S)]
           P == 1 .. Cardinality(S)
<1>1. IsFiniteSet(S) /\ Cardinality(S) \in Nat
  BY ScannedFinite, FS_CardinalityType
<1>2. IsFiniteSet(P) /\ Cardinality(P) = Cardinality(S)
  BY <1>1, FS_Interval
<1>3. place \in [S -> P]
  BY PlaceType
<1>4. \A a, b \in S : place[a] = place[b] => a = b
  <2> SUFFICES ASSUME NEW a \in S, NEW b \in S, a # b, Place(a, S) = Place(b, S)
               PROVE  FALSE
    OBVIOUS
  <2>1. Place(a, S) \in Nat /\ Place(b, S) \in Nat
    BY PlaceType, <1>1
  <2> QED BY <2>1, PlaceGrows, BeforeOrders
<1>5. place \in Injection(S, P)
  BY <1>3, <1>4 DEF Injection, IsInjective
<1>6. place \in Surjection(S, P)
  <2> HIDE DEF place, P
  <2> QED BY <1>2, <1>5, FS_Injection
<1> QED BY <1>6 DEF Surjection

(* The result has every license once, and older ones first.                *)
LEMMA ReversedFacts ==
    ASSUME NEW S, Scanned(S)
    PROVE  /\ Reversed(S) \in [1 .. Cardinality(S) -> S]
           /\ \A n \in 1 .. Cardinality(S) : Place(Reversed(S)[n], S) = n
           /\ \A e \in S : Reversed(S)[Place(e, S)] = e
<1>1. ASSUME NEW n \in 1 .. Cardinality(S)
      PROVE  Reversed(S)[n] \in S /\ Place(Reversed(S)[n], S) = n
  <2>1. Reversed(S)[n] = CHOOSE e \in S : Place(e, S) = n
    BY DEF Reversed
  <2> QED BY <2>1, PlacesTaken
<1>2. Reversed(S) \in [1 .. Cardinality(S) -> S]
  BY <1>1 DEF Reversed
<1>3. ASSUME NEW e \in S PROVE Reversed(S)[Place(e, S)] = e
  <2> DEFINE r == Reversed(S)[Place(e, S)]
  <2>1. Place(e, S) \in 1 .. Cardinality(S)
    BY PlaceType
  <2>2. r \in S /\ Place(r, S) = Place(e, S)
    BY <1>1, <2>1
  <2>3. Place(e, S) \in Nat
    BY <2>1, ScannedFinite, FS_CardinalityType
  <2> HIDE DEF r
  <2>4. r = e
    BY <2>2, <2>3, PlaceGrows, BeforeOrders
  <2> QED BY <2>4 DEF r
<1> QED BY <1>1, <1>2, <1>3

(* Of a "uid" the newest license is kept, and no other one.                *)
LEMMA KeptFacts ==
    ASSUME NEW S, Scanned(S)
    PROVE  /\ Kept(S) \subseteq S
           /\ \A a \in S : a.license.uid = NoUid => a \in Kept(S)
           /\ \A a, b \in Kept(S) :
                 a.license.uid = b.license.uid => a.license.uid = NoUid \/ a = b
<1>1. ASSUME NEW a \in Kept(S), NEW b \in Kept(S),
             a.license.uid = b.license.uid, a.license.uid # NoUid, a # b
      PROVE  FALSE
  <2>1. a \in S /\ b \in S
    BY DEF Kept
  <2>2. Before(a, b) \/ Before(b, a)
    BY <1>1, <2>1, BeforeOrders
  <2> QED BY <1>1, <2>1, <2>2 DEF Kept
<1> QED BY <1>1 DEF Kept

LEMMA NewestIsKept ==
    ASSUME NEW S, Scanned(S), NEW a \in S
    PROVE  \E e \in Kept(S) : /\ e.license.uid = a.license.uid
                              /\ e = a \/ Before(e, a)
<1> DEFINE same == {o \in S : o.license.uid = a.license.uid /\ (o = a \/ Before(o, a))}
           height(e) == Cardinality(S) - Place(e, S)
           heights == {height(e) : e \in same}
<1>1. \A e \in S : height(e) \in Nat
  BY PlaceType, ScannedFinite, FS_CardinalityType
<1>2. heights \in SUBSET Nat /\ heights # {}
  <2>1. a \in same
    OBVIOUS
  <2> QED BY <1>1, <2>1
<1>3. PICK least \in heights : \A m \in heights : least <= m
  <2> HIDE DEF heights
  <2> QED BY <1>2, LeastNumber
<1>4. PICK e \in same : least = height(e)
  OBVIOUS
<1>5. ASSUME NEW o \in S, Before(o, e), o.license.uid = e.license.uid PROVE FALSE
  <2>1. e \in S /\ o \in same
    BY <1>5, BeforeOrders
  <2>2. height(e) <= height(o)
    BY <1>3, <1>4, <2>1
  <2>3. Place(e, S) < Place(o, S)
    BY <1>5, <2>1, PlaceGrows
  <2>4. /\ Place(e, S) \in Nat /\ Place(o, S) \in Nat /\ Cardinality(S) \in Nat
    BY <2>1, PlaceType, ScannedFinite, FS_CardinalityType
  <2> QED BY <2>2, <2>3, <2>4
<1> QED BY <1>4, <1>5 DEF Kept

(* What sortAndDeduplicate returns for what a scan accepted.               *)
LEMMA DeduplicatedFacts ==
    ASSUME NEW S, Scanned(S)
    PROVE  LET r == Deduplicated(S)
           IN  /\ r \in [1 .. Cardinality(Kept(S)) -> Kept(S)]
               /\ Cardinality(Kept(S)) \in Nat
               /\ \A e \in Kept(S) : \E n \in DOMAIN r : r[n] = e
               /\ \A m, n \in DOMAIN r : m # n => r[m] # r[n]
               /\ \A m, n \in DOMAIN r : m < n => Before(r[n], r[m])
<1> DEFINE K == Kept(S)
           r == Reversed(K)
<1>1. Scanned(K)
  BY KeptFacts, ScannedSubset
<1> HIDE DEF K
<1>2. /\ r \in [1 .. Cardinality(K) -> K]
      /\ \A n \in 1 .. Cardinality(K) : Place(r[n], K) = n
      /\ \A e \in K : r[Place(e, K)] = e
  BY <1>1, ReversedFacts
<1>3. Cardinality(K) \in Nat
  BY <1>1, ScannedFinite, FS_CardinalityType
<1>4. \A e \in K : \E n \in DOMAIN r : r[n] = e
  BY <1>1, <1>2, PlaceType
<1> HIDE DEF r
<1>5. \A m, n \in DOMAIN r : m # n => r[m] # r[n]
  BY <1>2
<1>6. ASSUME NEW m \in DOMAIN r, NEW n \in DOMAIN r, m < n PROVE Before(r[n], r[m])
  <2>1. r[m] \in K /\ r[n] \in K /\ r[m] # r[n] /\ m \in Nat /\ n \in Nat
    BY <1>2, <1>3, <1>5, <1>6
  <2>2. Place(r[m], K) = m /\ Place(r[n], K) = n
    BY <1>2
  <2>3. ~Before(r[m], r[n])
    BY <1>1, <1>6, <2>1, <2>2, PlaceGrows
  <2> QED BY <1>1, <2>1, <2>3, BeforeOrders
<1> QED BY <1>2, <1>3, <1>4, <1>5, <1>6 DEF K, r, Deduplicated

---------------------------------------------------------------------------
(* A scan accepts every file once, and a file it is still to read not yet. *)
AcceptInv ==
    /\ Scanned(accepted) /\ Scanned(prior)
    /\ pc = "scan" => \A e \in accepted : \A g \in listing : e.file < g
    /\ pc = "idle" => listing = {}

(* What is returned is what was accepted, without duplicates.              *)
ResultInv == /\ history = Ids(prior)
             /\ ~err => result = Deduplicated(prior)
             /\ err => result = <<>>
             /\ Returned => prior = accepted

TypeInv == TypeOK /\ AcceptInv /\ ResultInv

LEMMA DeduplicatedType ==
    ASSUME NEW S, Scanned(S)
    PROVE  Deduplicated(S) \in Seq(Entry)
<1>1. Kept(S) \subseteq Entry
  BY KeptFacts DEF Scanned
<1>2. Deduplicated(S) \in [1 .. Cardinality(Kept(S)) -> Entry]
  BY <1>1, DeduplicatedFacts
<1>3. Cardinality(Kept(S)) \in Nat
  BY DeduplicatedFacts
<1> QED BY <1>2, <1>3

LEMMA FoundType ==
    ASSUME TypeOK, NEW f \in Files
    PROVE  /\ Found(f) \subseteq Entry
           /\ \A e \in Found(f) : e.file = f
<1>1. dir[f] # Absent => [file |-> f, license |-> dir[f]] \in Entry
  BY DEF TypeOK, Contents, Entry
<1> QED BY <1>1 DEF Found

LEMMA InitType == Init => TypeInv
<1> SUFFICES ASSUME Init PROVE TypeInv
  OBVIOUS
<1> USE LoaderAssumption DEF Init
<1>1. Cardinality({}) = 0 /\ Kept({}) = {}
  BY FS_EmptySet DEF Kept
<1>2. Deduplicated({}) = <<>>
  <2>1. Deduplicated({}) \in [1 .. 0 -> {}] /\ Deduplicated({}) \in Seq(Entry)
    BY <1>1, DeduplicatedFacts, DeduplicatedType DEF Scanned
  <2>2. Len(Deduplicated({})) = 0
    BY <2>1
  <2> QED BY <2>1, <2>2
<1>3. TypeOK
  <2>1. 0 \in 0 .. MaxTime /\ 0 \in 0 .. MaxEdits /\ 0 \in 0 .. 0 /\ <<>> \in Seq(Entry)
    OBVIOUS
  <2> QED BY <2>1, Zenon DEF TypeOK
<1>4. AcceptInv
  BY DEF AcceptInv, Scanned
<1>5. ResultInv
  BY <1>2 DEF ResultInv, Ids, Returned
<1> QED BY <1>3, <1>4, <1>5 DEF TypeInv

LEMMA NextKeepsType == TypeInv /\ [Next]_vars => TypeInv'
<1> SUFFICES ASSUME TypeInv, [Next]_vars PROVE TypeInv'
  OBVIOUS
<1> USE LoaderAssumption DEF envVars, scanVars, resultVars
<1>1. ASSUME NEW f \in Files, Edit(f) PROVE TypeInv'
  <2>1. TypeOK'
    BY <1>1 DEF Edit, TypeInv, TypeOK
  <2>2. AcceptInv' /\ ResultInv'
    BY <1>1 DEF Edit, TypeInv, AcceptInv, ResultInv, Returned
  <2> QED BY <2>1, <2>2 DEF TypeInv
<1>2. CASE Tick
  <2>1. TypeOK'
    BY <1>2 DEF Tick, TypeInv, TypeOK
  <2>2. AcceptInv' /\ ResultInv'
    BY <1>2 DEF Tick, TypeInv, AcceptInv, ResultInv, Returned
  <2> QED BY <2>1, <2>2 DEF TypeInv
<1>3. CASE ScanFolder
  <2>1. TypeOK'
    BY <1>3 DEF ScanFolder, ExpectedTime, TypeInv, TypeOK
  <2>2. AcceptInv'
    BY <1>3 DEF ScanFolder, TypeInv, AcceptInv, Scanned
  <2>3. ResultInv'
    BY <1>3 DEF ScanFolder, TypeInv, ResultInv, Returned
  <2> QED BY <2>1, <2>2, <2>3 DEF TypeInv
<1>4. CASE ScanFails
  <2>1. TypeOK'
    BY <1>4 DEF ScanFails, TypeInv, TypeOK
  <2>2. AcceptInv' /\ ResultInv'
    BY <1>4 DEF ScanFails, TypeInv, AcceptInv, ResultInv, Returned
  <2> QED BY <2>1, <2>2 DEF TypeInv
<1>5. ASSUME NEW f \in Files, ReadFile(f) PROVE TypeInv'
  <2>1. /\ accepted' = accepted \cup Found(f) /\ listing' = listing \ {f}
        /\ f \in listing /\ \A g \in listing : f <= g
        /\ pc = "scan" /\ listing \subseteq Files
    BY <1>5 DEF ReadFile, IsNext, TypeInv, TypeOK
  <2>2. Found(f) \subseteq Entry /\ \A e \in Found(f) : e.file = f
    BY FoundType DEF TypeInv
  <2>3. TypeOK'
    BY <1>5, <2>1, <2>2 DEF ReadFile, TypeInv, TypeOK
  <2>4. \A a, b \in Found(f) : a = b
    BY DEF Found
  <2>5. \A e \in accepted : e.file < f
    BY <2>1 DEF TypeInv, AcceptInv
  <2>6. f \in Nat /\ Files \subseteq Nat
    BY DEF Files
  <2>7. Scanned(accepted')
    <3>1. \A a, b \in accepted : a.file = b.file => a = b
      BY DEF TypeInv, AcceptInv, Scanned
    <3>2. accepted' \subseteq Entry
      BY <2>1, <2>2 DEF TypeInv, TypeOK
    <3>3. \A a \in accepted : a.file # f
      BY <2>5, <2>6
    <3> QED BY <2>1, <2>2, <2>4, <3>1, <3>2, <3>3 DEF Scanned
  <2>8. \A e \in accepted' : \A g \in listing' : e.file < g
    <3>1. ASSUME NEW e \in accepted, NEW g \in listing' PROVE e.file < g
      BY <2>1, <3>1 DEF TypeInv, AcceptInv
    <3>2. ASSUME NEW e \in Found(f), NEW g \in listing' PROVE e.file < g
      BY <2>1, <2>2, <2>6, <3>2
    <3> QED BY <2>1, <3>1, <3>2
  <2>9. pc' = "scan" /\ UNCHANGED <<history, result, prior, err>>
    BY <1>5 DEF ReadFile
  <2>10. AcceptInv'
    BY <2>7, <2>8, <2>9 DEF TypeInv, AcceptInv
  <2>11. ResultInv'
    BY <2>9 DEF TypeInv, ResultInv, Returned
  <2> QED BY <2>3, <2>10, <2>11 DEF TypeInv
<1>6. CASE Finish
  <2>1. Scanned(accepted) /\ accepted \subseteq Entry
    BY DEF TypeInv, AcceptInv, Scanned
  <2>2. result' \in Seq(Entry)
    BY <1>6, <2>1, DeduplicatedType DEF Finish
  <2>3. TypeOK'
    BY <1>6, <2>1, <2>2 DEF Finish, TypeInv, TypeOK
  <2>4. AcceptInv'
    BY <1>6 DEF Finish, TypeInv, AcceptInv
  <2>5. ResultInv'
    BY <1>6 DEF Finish, TypeInv, ResultInv, Returned
  <2> QED BY <2>3, <2>4, <2>5 DEF TypeInv
<1>7. CASE UNCHANGED vars
  <2>1. TypeOK'
    BY <1>7 DEF vars, TypeInv, TypeOK
  <2>2. AcceptInv' /\ ResultInv'
    BY <1>7 DEF vars, TypeInv, AcceptInv, ResultInv, Returned
  <2> QED BY <2>1, <2>2 DEF TypeInv
<1> QED BY <1>1, <1>2, <1>3, <1>4, <1>5, <1>6, <1>7 DEF Next

(* Every variable of the loader keeps its type, and a scan is never ahead  *)
(* of the clock.                                                           *)
THEOREM TypeCorrect == Spec => []TypeOK
<1>1. TypeInv => TypeOK
  BY DEF TypeInv
<1> QED BY <1>1, InitType, NextKeepsType, PTL DEF Spec

---------------------------------------------------------------------------
(* Between two scans the result is that of what the last one accepted.     *)
LEMMA ReturnedResult ==
    ASSUME TypeInv, Returned
    PROVE  result = Deduplicated(accepted) /\ Scanned(accepted)
BY DEF TypeInv, AcceptInv, ResultInv, Returned

LEMMA NewestIsReturned == TypeInv => NewestPerUid
<1> SUFFICES ASSUME TypeInv, Returned, NEW a \in accepted
             PROVE  \E n \in DOMAIN result :
                       /\ result[n].license.iat >= a.license.iat
                       /\ \A m \in DOMAIN result :
                             (IF a.license.uid = NoUid THEN result[m] = a
                              ELSE result[m].license.uid = a.license.uid) <=> m = n
  BY DEF NewestPerUid
<1>1. Scanned(accepted) /\ result = Deduplicated(accepted)
  BY ReturnedResult
<1>2. PICK e \in Kept(accepted) : e.license.uid = a.license.uid /\ (e = a \/ Before(e, a))
  BY <1>1, NewestIsKept
<1>3. e.license.iat >= a.license.iat
  <2>1. e \in Entry /\ a \in Entry
    BY <1>1, KeptFacts DEF Scanned
  <2>2. e.license.iat \in Nat /\ a.license.iat \in Nat
    BY <2>1, EntryType
  <2> QED BY <1>2, <2>2 DEF Before
<1>4. /\ \A x \in Kept(accepted) : \E n \in DOMAIN result : result[n] = x
      /\ \A m, n \in DOMAIN result : m # n => result[m] # result[n]
      /\ \A n \in DOMAIN result : result[n] \in Kept(accepted)
  BY <1>1, DeduplicatedFacts
<1>5. CASE a.license.uid = NoUid
  <2>1. a \in Kept(accepted)
    BY <1>1, <1>5, KeptFacts
  <2>2. PICK n \in DOMAIN result : result[n] = a
    BY <1>4, <2>1
  <2>3. a.license.iat >= a.license.iat
    BY <1>1, EntryType DEF Scanned
  <2> QED BY <1>4, <1>5, <2>2, <2>3
<1>6. CASE a.license.uid # NoUid
  <2>1. PICK n \in DOMAIN result : result[n] = e
    BY <1>4
  <2>2. ASSUME NEW m \in DOMAIN result, result[m].license.uid = a.license.uid
        PROVE  m = n
    <3>1. result[m] = e
      BY <1>1, <1>2, <1>4, <1>6, <2>2, KeptFacts
    <3> QED BY <1>4, <2>1, <3>1
  <2> QED BY <1>2, <1>3, <1>6, <2>1, <2>2
<1> QED BY <1>5, <1>6

(* Whatever is in the folder and whoever edits it during a scan, of each   *)
(* "uid" the newest license is returned, and once.                         *)
THEOREM NewestWins == Spec => []NewestPerUid
BY NewestIsReturned, InitType, NextKeepsType, PTL DEF Spec

LEMMA OldestIsFirst == TypeInv => OldestFirst
<1> SUFFICES ASSUME TypeInv, Returned,
                    NEW m \in DOMAIN result, NEW n \in DOMAIN result, m < n
             PROVE  result[m].license.iat <= result[n].license.iat
  BY DEF OldestFirst
<1>1. Scanned(accepted) /\ result = Deduplicated(accepted)
  BY ReturnedResult
<1>2. Before(result[n], result[m]) /\ result[m] \in accepted /\ result[n] \in accepted
  BY <1>1, DeduplicatedFacts, KeptFacts
<1>3. result[m].license.iat \in Nat /\ result[n].license.iat \in Nat
  BY <1>1, <1>2, EntryType DEF Scanned
<1> QED BY <1>2, <1>3 DEF Before

(* The licenses go from old to new, for any number of them.                *)
THEOREM OldestComesFirst == Spec => []OldestFirst
BY OldestIsFirst, InitType, NextKeepsType, PTL DEF Spec

---------------------------------------------------------------------------
(* Of the files that nobody touched those that were read are exactly       *)
(* judged already.                                                         *)
Good(f) == dir[f] # Absent /\ Acceptable(dir[f], keys, off, at)

ReadInv ==
    pc = "scan" \/ Returned =>
        \A f \in Files \ (touched \cup listing) :
            Good(f) <=> f \in {a.file : a \in accepted}

LEMMA ReadStep == TypeInv /\ TypeInv' /\ ReadInv /\ [Next]_vars => ReadInv'
<1> SUFFICES ASSUME TypeInv, TypeInv', ReadInv, [Next]_vars PROVE ReadInv'
  OBVIOUS
<1> USE DEF envVars, scanVars, resultVars
<1>1. ASSUME NEW f \in Files, Edit(f) PROVE ReadInv'
  <2>1. \A g \in Files \ {f} : dir'[g] = dir[g]
    BY <1>1 DEF Edit, TypeInv, TypeOK
  <2> QED BY <1>1, <2>1 DEF Edit, ReadInv, Good, Returned
<1>2. CASE Tick
  BY <1>2 DEF Tick, ReadInv, Good, Returned
<1>3. CASE ScanFolder
  BY <1>3 DEF ScanFolder, ReadInv, Good
<1>4. CASE ScanFails
  BY <1>4 DEF ScanFails, ReadInv, Good, Returned
<1>5. ASSUME NEW f \in Files, ReadFile(f) PROVE ReadInv'
  <2>1. /\ accepted' = accepted \cup Found(f) /\ listing' = listing \ {f}
        /\ f \in listing /\ pc = "scan"
        /\ UNCHANGED <<dir, keys, off, at, touched>>
    BY <1>5 DEF ReadFile, IsNext
  <2>2. \A g \in Files : Good(g)' <=> Good(g)
    BY <2>1 DEF Good, Acceptable, Verified, ValidAt
  <2>3. Good(f) => \E e \in Found(f) : e.file = f
    BY DEF Good, Found
  <2>4. ~Good(f) => Found(f) = {}
    BY DEF Good, Found
  <2>5. \A e \in Found(f) : e.file = f
    BY FoundType DEF TypeInv
  <2>6. \A a \in accepted : a.file # f
    <3>1. \A a \in accepted : a.file < f
      BY <2>1 DEF TypeInv, AcceptInv
    <3> QED BY <3>1, LoaderAssumption DEF Files
  <2>7. ASSUME NEW g \in Files \ (touched' \cup listing')
        PROVE  Good(g)' <=> g \in {a.file : a \in accepted'}
    <3>1. CASE g = f
      BY <2>1, <2>2, <2>3, <2>4, <2>6, <3>1
    <3>2. CASE g # f
      <4>1. Good(g) <=> g \in {a.file : a \in accepted}
        BY <2>1, <3>2 DEF ReadInv
      <4> QED BY <2>1, <2>2, <2>5, <3>2, <4>1
    <3> QED BY <3>1, <3>2
  <2> QED BY <2>7 DEF ReadInv
<1>6. CASE Finish
  BY <1>6 DEF Finish, ReadInv, Good
<1>7. CASE UNCHANGED vars
  BY <1>7 DEF vars, ReadInv, Good, Returned
<1> QED BY <1>1, <1>2, <1>3, <1>4, <1>5, <1>6, <1>7 DEF Next

LEMMA InitRead == Init => ReadInv
BY DEF Init, ReadInv

LEMMA ReadIsExact == TypeInv /\ ReadInv => UntouchedAreExact
BY DEF TypeInv, AcceptInv, ReadInv, UntouchedAreExact, Returned, Good

(* Of the files that nobody touches during a scan exactly the acceptable   *)
(* ones are accepted, whatever happens to the others.                      *)
THEOREM ScansAreExact == Spec => []UntouchedAreExact
BY InitType, NextKeepsType, InitRead, ReadStep, ReadIsExact, PTL DEF Spec

---------------------------------------------------------------------------
(* Two scans that accept the same licenses under the same IDs return the   *)
(* same ones, unless two of one "uid" were issued at the same time.        *)
LEMMA SameLicenses ==
    ASSUME NEW S, NEW T, Scanned(S), Scanned(T),
           \A a \in S : \E b \in T : a.license = b.license,
           \A b \in T : \E a \in S : a.license = b.license,
           \A a, b \in S :
              a.license.uid = b.license.uid /\ a.license.iat = b.license.iat => a = b
    PROVE  Licenses(S) = Licenses(T)
<1>0. /\ \A a \in S : a.license.iat \in Nat /\ a.file \in Nat
      /\ \A b \in T : b.license.iat \in Nat /\ b.file \in Nat
  BY EntryType DEF Scanned
<1>1. ASSUME NEW a \in Kept(S) PROVE \E b \in Kept(T) : b.license = a.license
  <2>1. a \in S
    BY DEF Kept
  <2>2. PICK b \in T : b.license = a.license
    BY <2>1
  <2>3. PICK c \in Kept(T) : c.license.uid = b.license.uid /\ (c = b \/ Before(c, b))
    BY NewestIsKept
  <2>4. c \in T
    BY DEF Kept
  <2>5. PICK d \in S : d.license = c.license
    BY <2>4
  <2>6. CASE a.license.uid = NoUid
    BY <2>2, <2>6, KeptFacts
  <2>7. CASE a.license.uid # NoUid
    <3>1. ~Before(d, a)
      BY <2>2, <2>3, <2>5, <2>7 DEF Kept
    <3>2. d.license.iat >= a.license.iat
      BY <1>0, <2>1, <2>2, <2>3, <2>4, <2>5 DEF Before
    <3>3. d.license.iat = a.license.iat
      BY <1>0, <2>1, <3>1, <3>2 DEF Before
    <3>4. d = a
      BY <2>1, <2>2, <2>3, <2>5, <3>3
    <3> QED BY <2>3, <2>5, <3>4
  <2> QED BY <2>6, <2>7
<1>2. ASSUME NEW b \in Kept(T) PROVE \E a \in Kept(S) : a.license = b.license
  <2>1. b \in T
    BY DEF Kept
  <2>2. PICK a \in S : a.license = b.license
    BY <2>1
  <2>3. CASE b.license.uid = NoUid
    BY <2>2, <2>3, KeptFacts
  <2>4. CASE b.license.uid # NoUid
    <3>1. ASSUME NEW o \in S, Before(o, a), o.license.uid = a.license.uid PROVE FALSE
      <4>1. o # a
        BY <3>1, BeforeOrders
      <4>2. o.license.iat > a.license.iat
        BY <1>0, <3>1, <4>1 DEF Before
      <4>3. PICK p \in T : p.license = o.license
        OBVIOUS
      <4>4. Before(p, b)
        BY <2>2, <4>2, <4>3 DEF Before
      <4> QED BY <2>2, <2>4, <3>1, <4>3, <4>4 DEF Kept
    <3> QED BY <2>2, <3>1 DEF Kept
  <2> QED BY <2>3, <2>4
<1> QED BY <1>1, <1>2 DEF Licenses

LEMMA ReportStep ==
    ASSUME TypeInv, Next, pc = "scan", pc' = "idle", ~Blurred,
           Licenses(accepted) # Licenses(prior)
    PROVE  new' \cup removed' # {}
<1>1. CASE Finish
  <2> SUFFICES ASSUME new' = {}, removed' = {} PROVE FALSE
    OBVIOUS
  <2>1. AddedIds(accepted) = {} /\ Ids(prior) \subseteq Ids(accepted)
    BY <1>1 DEF Finish, TypeInv, ResultInv
  <2>2. ASSUME NEW a \in accepted PROVE IdOf(a) \in Ids(prior)
    <3>1. {o \in accepted : IdOf(o) = IdOf(a)} = {a}
      BY DEF Blurred
    <3> QED BY <2>1, <3>1 DEF AddedIds, Ids, TypeInv, ResultInv
  <2>3. ASSUME NEW a \in accepted PROVE \E b \in prior : a.license = b.license
    BY <2>2 DEF Ids, Blurred
  <2>4. ASSUME NEW b \in prior PROVE \E a \in accepted : a.license = b.license
    BY <2>1 DEF Ids, Blurred
  <2>5. Scanned(accepted) /\ Scanned(prior)
    BY DEF TypeInv, AcceptInv
  <2>6. \A a, b \in accepted :
           a.license.uid = b.license.uid /\ a.license.iat = b.license.iat => a = b
    BY DEF Blurred
  <2>7. Licenses(accepted) = Licenses(prior)
    BY <2>3, <2>4, <2>5, <2>6, SameLicenses
  <2> QED BY <2>7
<1>2. CASE ~Finish
  BY <1>2 DEF Next, Edit, Tick, ScanFolder, ScanFails, ReadFile, scanVars
<1> QED BY <1>1, <1>2

(* A scan that returns other licenses than the one before calls a hook,    *)
(* but for the three cases that the hooks cannot tell apart.               *)
THEOREM ChangesAreTold == Spec => ChangesAreReported
<1>1. TypeInv /\ [Next]_vars =>
        [pc = "scan" /\ pc' = "idle" /\ ~Blurred /\ Licenses(accepted) # Licenses(prior) =>
           new' \cup removed' # {}]_vars
  BY ReportStep, Zenon
<1> QED BY <1>1, InitType, NextKeepsType, PTL DEF Spec, ChangesAreReported

=============================================================================
