-------------------------- MODULE ClaimsServedProofs --------------------------
(***************************************************************************)
(* Types of Claims, what GenerateClaims makes of a form whatever the order *)
(* of its keys, and how requests serve that, for any forms and licenses.   *)
(***************************************************************************)
EXTENDS ClaimsAnswerProofs

---------------------------------------------------------------------------
(* Types.                                                                  *)
ListInv ==
    /\ list \in [Request -> Nat]
    /\ \A r \in Request : pc[r] = "off" => list[r] = 0

SlotsInv == \A a \in DOMAIN mem : mem[a] \in Seq(Item \cup {Free})

OutcomeInv == outcome \in {"idle", "reading", "ok", "unsent", "error", "panic"}

LEMMA TypesStart == Init => ListInv /\ SlotsInv /\ OutcomeInv
<1> SUFFICES ASSUME Init PROVE ListInv /\ SlotsInv /\ OutcomeInv
  OBVIOUS
<1>1. mem = <<>> /\ list = [r \in Request |-> 0] /\ outcome = "idle"
  BY Zenon DEF Init, ProductsInit, GenInit
<1> QED BY <1>1 DEF ListInv, SlotsInv, OutcomeInv

LEMMA ListStep == LicensesInv /\ RequestInv /\ ListInv /\ [Next]_claimsVars => ListInv'
<1> SUFFICES ASSUME LicensesInv, RequestInv, ListInv, [Next]_claimsVars PROVE ListInv'
  OBVIOUS
<1>1. ASSUME NEW r \in Request, Read(r) PROVE ListInv'
  <2>1. pc' = [pc EXCEPT ![r] = "run"] /\ list' = [list EXCEPT ![r] = Len(lists)]
    BY <1>1, Zenon DEF Read
  <2>2. Len(lists) \in Nat
    BY SeqFacts DEF LicensesInv
  <2> QED BY <2>1, <2>2 DEF ListInv, RequestInv
<1>2. ASSUME list' = list, pc' = pc PROVE ListInv'
  BY <1>2 DEF ListInv
<1>3. ASSUME NEW r \in Request, Respond(r) \/ RespondFails(r) PROVE ListInv'
  <2>1. list' = list /\ \E answered \in {"done", "failed"} : pc' = [pc EXCEPT ![r] = answered]
    BY <1>3, Zenon DEF Respond, RespondFails, LoopEnds
  <2> QED BY <2>1 DEF ListInv, RequestInv
<1>4. ASSUME NEW r, NEW p, SkipUnwanted(r, p) \/ SkipExclusive(r, p) \/ Aggregate(r, p)
      PROVE  list' = list /\ pc' = pc
  <2>1. Visit(r, p)
    BY <1>4, Zenon DEF SkipUnwanted, SkipExclusive, Aggregate
  <2> QED BY <2>1, Zenon DEF Visit
<1>5. ASSUME NEW r, NextLicense(r) PROVE list' = list /\ pc' = pc
  BY <1>5, Zenon DEF NextLicense
<1>6. \/ list' = list /\ pc' = pc
      \/ \E r \in Request : Read(r) \/ Respond(r) \/ RespondFails(r)
  <2>1. CASE \E r \in Request : RequestNext(r)
    BY <2>1, <1>4, <1>5, Zenon DEF RequestNext
  <2> QED BY <2>1, Zenon DEF Next, Sign, PublishFiles, Publish, productsVars, requestVars,
                             claimsVars
<1> QED BY <1>1, <1>2, <1>3, <1>6

(* The slots of an array that an append has written to.                    *)
LEMMA SlotsAreItems ==
    ASSUME NEW s, s.array \in DOMAIN mem, SlotsInv, s.len \in Nat,
           NEW items \in Seq(Item)
    PROVE  Slots(s, Missing(s, items)) \in Seq(Item \cup {Free})
<1> DEFINE new == {j \in DOMAIN items : items[j] \notin ToSet(Items(s))}
           add == Missing(s, items)
           c == Cardinality(new)
           size == Capacity(s.array)
<1>1. new \subseteq Nat /\ IsFiniteSet(new)
  <2>1. DOMAIN items = 1 .. Len(items) /\ Len(items) \in Nat
    OBVIOUS
  <2>2. IsFiniteSet(1 .. Len(items))
    BY <2>1, FS_Interval
  <2> QED BY <2>1, <2>2, FS_Subset
<1>2. c \in Nat /\ \A m \in 1 .. c : Nth(new, m) \in new
  BY <1>1, Ranks
<1>3. \A m \in 1 .. c : items[Nth(new, m)] \in Item
  BY <1>2
<1>4. add = [m \in 1 .. c |-> items[Nth(new, m)]]
  BY Zenon DEF Missing
<1> HIDE DEF new, c
<1>5. add \in Seq(Item) /\ Len(add) \in Nat
  <2>1. add \in [1 .. c -> Item]
    BY <1>3, <1>4
  <2> QED BY <1>2, <2>1
<1>6. mem[s.array] \in Seq(Item \cup {Free}) /\ size \in Nat
      /\ \A j \in 1 .. size : mem[s.array][j] \in Item \cup {Free}
  BY DEF SlotsInv, Capacity
<1> HIDE DEF add, size
<1>7. ASSUME NEW j \in 1 .. size
      PROVE  (IF j <= s.len \/ j > s.len + Len(add) THEN mem[s.array][j] ELSE add[j - s.len])
                 \in Item \cup {Free}
  <2>1. CASE j <= s.len \/ j > s.len + Len(add)
    BY <1>6, <2>1
  <2>2. CASE ~(j <= s.len \/ j > s.len + Len(add))
    <3>1. j - s.len \in 1 .. Len(add)
      BY <1>5, <1>6, <2>2
    <3> QED BY <1>5, <2>2, <3>1
  <2> QED BY <2>1, <2>2
<1>8. Slots(s, add) = [j \in 1 .. size |->
         IF j <= s.len \/ j > s.len + Len(add) THEN mem[s.array][j] ELSE add[j - s.len]]
  BY Zenon DEF Slots, size
<1>9. Slots(s, add) \in [1 .. size -> Item \cup {Free}]
  BY <1>7, <1>8
<1>10. Slots(s, add) \in Seq(Item \cup {Free})
  BY <1>6, <1>9
<1> QED BY <1>10 DEF add

LEMMA DecodedIsItems ==
    ASSUME NEW l, \A i \in DOMAIN l : IsLicense(l[i]), NEW g, NEW a \in DOMAIN Decoded(l, g)
    PROVE  Decoded(l, g)[a] \in Seq(Item \cup {Free})
<1> DEFINE v == l[a[2]].products[a[3]].claims[a[4]]
<1>1. /\ a \in {g} \X (DOMAIN l) \X Product \X Claim
      /\ a[3] \in DOMAIN l[a[2]].products /\ a[4] \in DOMAIN l[a[2]].products[a[3]].claims
      /\ v.kind = "list"
      /\ Decoded(l, g)[a] = [j \in 1 .. Len(v.items) + v.spare |->
                                IF j <= Len(v.items) THEN v.items[j] ELSE Free]
  BY DEF Decoded
<1>2. IsClaim(v)
  <2>1. a[2] \in DOMAIN l
    BY <1>1
  <2> QED BY <1>1, <2>1 DEF IsLicense
<1>3. v.items \in Seq(Item) /\ v.spare \in Nat
  BY <1>1, <1>2 DEF IsClaim
<1> HIDE DEF v
<1>4. Len(v.items) \in Nat /\ \A j \in 1 .. Len(v.items) : v.items[j] \in Item
  BY <1>3
<1>5. PICK n : n = Len(v.items) + v.spare /\ n \in Nat
  BY <1>3, <1>4
<1>6. \A j \in 1 .. n : (IF j <= Len(v.items) THEN v.items[j] ELSE Free) \in Item \cup {Free}
  BY <1>4, <1>5
<1>7. Decoded(l, g)[a] \in [1 .. n -> Item \cup {Free}]
  BY <1>1, <1>5, <1>6
<1> QED BY <1>5, <1>7

LEMMA SlotsStep ==
    ArrayInv /\ AnswerInv /\ SlotsInv /\ [Next]_claimsVars => SlotsInv'
<1> SUFFICES ASSUME ArrayInv, AnswerInv, SlotsInv, [Next]_claimsVars PROVE SlotsInv'
  OBVIOUS
<1>1. CASE mem' = mem
  BY <1>1 DEF SlotsInv
<1>2. CASE PublishFiles
  <2>1. PICK l : Published(l) /\ Publish(l)
    BY <1>2, PublishFacts DEF ArrayInv
  <2>2. PICK n : mem' = [a \in DOMAIN mem \cup DOMAIN Decoded(l, n) |->
                            IF a \in DOMAIN mem THEN mem[a] ELSE Decoded(l, n)[a]]
    BY <2>1 DEF Publish
  <2>3. \A a \in DOMAIN Decoded(l, n) : Decoded(l, n)[a] \in Seq(Item \cup {Free})
    BY <2>1, DecodedIsItems DEF Published
  <2> HIDE <2>1
  <2>4. ASSUME NEW a \in DOMAIN mem' PROVE mem'[a] \in Seq(Item \cup {Free})
    BY <2>2, <2>3 DEF SlotsInv
  <2> QED BY <2>4 DEF SlotsInv
<1>3. ASSUME NEW r \in Request, NEW p \in Product, Aggregate(r, p) PROVE SlotsInv'
  <2> DEFINE l == License(r)
             e == EntryOf(r, p)
             values == l.products[p].claims
             ArrayOf(k) == <<list[r], at[r], p, k>>
             Extended(k) == k \in DOMAIN e.claims /\ Lists(e.claims[k], values[k])
             touched == {k \in DOMAIN values : Extended(k) /\ e.claims[k].array # Own}
  <2>1. mem' = [a \in DOMAIN mem |->
                   IF \E k \in touched : e.claims[k].array = a
                   THEN LET k == CHOOSE k \in touched : e.claims[k].array = a
                        IN  Slots(e.claims[k], Missing(e.claims[k], values[k].items))
                   ELSE mem[a]]
    BY <1>3, Zenon DEF Aggregate
  <2>2. PICK g, n : g = list[r] /\ n = at[r]
    OBVIOUS
  <2>3. /\ l = lists[g][n] /\ p \in DOMAIN l.products /\ IsLicense(l)
        /\ EntryFits(e, g, p, n - 1)
    <3>1. Visit(r, p) /\ p \in wanted[r]
      BY <1>3, Zenon DEF Aggregate
    <3> HIDE DEF l, e
    <3>2. /\ License(r) = lists[list[r]][at[r]] /\ p \in DOMAIN lists[list[r]][at[r]].products
          /\ IsLicense(lists[list[r]][at[r]])
          /\ EntryFits(EntryOf(r, p), list[r], p, at[r] - 1)
      BY <3>1, VisitFacts
    <3> QED BY <2>2, <3>2 DEF l, e
  <2>4. ASSUME NEW k \in touched, e.claims[k].array \in DOMAIN mem
        PROVE  Slots(e.claims[k], Missing(e.claims[k], values[k].items)) \in Seq(Item \cup {Free})
    <3>1. k \in DOMAIN e.claims /\ e.claims[k].kind = "list" /\ k \in DOMAIN values
          /\ values[k].kind = "list"
      BY DEF Lists
    <3>2. HeldType(e.claims[k])
      BY <2>3, <3>1 DEF EntryFits, HeldFits
    <3>3. e.claims[k].len \in Nat
      BY <3>1, <3>2 DEF HeldType
    <3>4. IsClaim(values[k])
      BY <2>3, <3>1 DEF IsLicense
    <3>5. values[k].items \in Seq(Item)
      BY <3>1, <3>4 DEF IsClaim
    <3> QED BY <2>4, <3>3, <3>5, SlotsAreItems
  <2> HIDE DEF touched, values, e
  <2>5. ASSUME NEW a \in DOMAIN mem' PROVE mem'[a] \in Seq(Item \cup {Free})
    <3>1. CASE \E k \in touched : e.claims[k].array = a
      <4>1. PICK k : /\ k \in touched /\ e.claims[k].array = a
                     /\ mem'[a] = Slots(e.claims[k], Missing(e.claims[k], values[k].items))
        BY <2>1, <3>1
      <4> QED BY <2>1, <2>4, <2>5, <4>1
    <3>2. CASE ~\E k \in touched : e.claims[k].array = a
      BY <2>1, <2>5, <3>2 DEF SlotsInv
    <3> QED BY <3>1, <3>2
  <2> QED BY <2>5 DEF SlotsInv
<1>4. \/ mem' = mem \/ PublishFiles
      \/ \E r \in Request : \E p \in Product : Aggregate(r, p)
  <2>1. CASE \E r \in Request : RequestNext(r)
    BY <2>1, Zenon DEF RequestNext, Read, NextLicense, Respond, RespondFails, LoopEnds,
                       SkipUnwanted, SkipExclusive
  <2> QED BY <2>1, Zenon DEF Next, Sign, productsVars, claimsVars
<1> QED BY <1>1, <1>2, <1>3, <1>4

LEMMA OutcomeStep == OutcomeInv /\ [Next]_claimsVars => OutcomeInv'
<1> SUFFICES ASSUME OutcomeInv, [Next]_claimsVars PROVE OutcomeInv'
  OBVIOUS
<1>1. CASE GenNext
  <2>1. \/ outcome' = outcome \/ outcome' = "reading" \/ outcome' = "ok"
        \/ outcome' = "unsent" \/ outcome' = "error" \/ outcome' = "panic"
    BY <1>1, Zenon DEF GenNext, Generate, Return, EncodeFails, TopClaim, ProductClaim, RefuseKey, Panic
  <2> QED BY <2>1 DEF OutcomeInv
<1>2. CASE outcome' = outcome
  BY <1>2 DEF OutcomeInv
<1>3. GenNext \/ outcome' = outcome
  BY Zenon DEF Next, Sign, PublishFiles, genVars, claimsVars
<1> QED BY <1>1, <1>2, <1>3

(* What an entry shows to the one who asks.                                *)
LEMMA EntryIsTyped ==
    ASSUME LicensesInv, NEW g \in DOMAIN lists, NEW n \in Nat, n <= Len(lists[g]),
           NEW p, NEW e, EntryFits(e, g, p, n)
    PROVE  EntryType(e)
<1> DEFINE l == lists[g]
           used == Counting(l, p, n)
<1>1. /\ DOMAIN l = 1 .. Len(l) /\ Len(l) \in Nat /\ \A i \in DOMAIN l : IsLicense(l[i])
  BY SeqFacts DEF LicensesInv
<1>2. \A i \in used : i \in DOMAIN l /\ p \in DOMAIN l[i].products
  BY <1>1 DEF Counting, Counts
<1> HIDE DEF l
<1>3. IsEntry(e, l, p, n)
  BY DEF EntryFits, l
<1>4. e.expiry \in Seq(Nat)
  <2>1. used \subseteq Nat /\ IsFiniteSet(used)
    <3>1. IsFiniteSet(1 .. n)
      BY FS_Interval
    <3> QED BY <3>1, FS_Subset DEF Counting
  <2>2. PICK c : c = Cardinality(used)
    OBVIOUS
  <2>3. c \in Nat /\ \A m \in 1 .. c : Nth(used, m) \in used
    BY <2>1, <2>2, Ranks
  <2>4. \A m \in 1 .. c : l[Nth(used, m)].exp \in Nat
    BY <1>1, <1>2, <2>3 DEF IsLicense
  <2>5. e.expiry = [m \in 1 .. c |-> l[Nth(used, m)].exp]
    BY <1>3, <2>2, Zenon DEF IsEntry
  <2> HIDE DEF used
  <2>6. e.expiry \in [1 .. c -> Nat]
    BY <2>4, <2>5
  <2> QED BY <2>3, <2>6
<1>5. ASSUME NEW k \in DOMAIN e.claims
      PROVE  /\ k \in Claim /\ e.claims[k].kind \in {"number", "list", "other"}
             /\ e.claims[k].kind = "number" => e.claims[k].n \in Float
  <2>1. DOMAIN e.claims = UNION {DOMAIN l[i].products[p].claims : i \in used}
    BY <1>3, Zenon DEF IsEntry
  <2>2. PICK i \in used : k \in DOMAIN l[i].products[p].claims
    BY <2>1
  <2>3. k \in Claim
    BY <1>1, <1>2, <2>2 DEF IsLicense
  <2>4. HeldType(e.claims[k])
    BY DEF EntryFits, HeldFits
  <2>5. /\ e.claims[k].kind \in {"number", "list", "other"}
        /\ e.claims[k].kind = "number" => e.claims[k].n \in Float
    BY <2>4 DEF HeldType
  <2> QED BY <2>3, <2>5
<1> QED BY <1>4, <1>5 DEF EntryType

LEMMA TypesAreCorrect ==
    ArrayInv /\ WantedInv /\ AnswerInv /\ ListInv /\ SlotsInv /\ OutcomeInv => TypeOK
<1> SUFFICES ASSUME ArrayInv, WantedInv, AnswerInv, ListInv, SlotsInv, OutcomeInv
             PROVE  TypeOK
  OBVIOUS
<1>1. \A n \in DOMAIN files : IsLicense(files[n])
  BY DEF ArrayInv, LicensesInv
<1>2. \A g \in DOMAIN lists : \A i \in DOMAIN lists[g] : IsLicense(lists[g][i])
  BY DEF ArrayInv, LicensesInv
<1>3. \A a \in DOMAIN mem : \A j \in DOMAIN mem[a] : mem[a][j] \in Item \cup {Free}
  BY DEF SlotsInv
<1>4. pc \in [Request -> {"off", "run", "done", "failed"}] /\ wanted \in [Request -> SUBSET Product]
  BY DEF ArrayInv, RequestInv, WantedInv
<1>5. DOMAIN lists = 1 .. Len(lists) /\ Len(lists) \in Nat
  BY SeqFacts DEF ArrayInv, LicensesInv
<1>6. ASSUME NEW r \in Request
      PROVE  /\ list[r] \in 0 .. Len(lists)
             /\ pc[r] = "off" <=> list[r] = 0
             /\ at[r] \in Nat /\ left[r] \subseteq Product
             /\ list[r] > 0 => at[r] <= Len(lists[list[r]])
             /\ \A p \in DOMAIN entries[r] : EntryType(entries[r][p])
  <2>1. CASE pc[r] = "off"
    <3> DEFINE empty == <<>>
    <3>1. DOMAIN empty = {}
      OBVIOUS
    <3>2. entries[r] = empty
      BY <2>1 DEF AnswerInv, Answers
    <3>3. list[r] = 0 /\ at[r] = 0 /\ left[r] = {}
      BY <2>1 DEF ListInv, ArrayInv, RequestInv
    <3>4. DOMAIN entries[r] = {}
      BY <3>1, <3>2
    <3> QED BY <1>5, <2>1, <3>3, <3>4
  <2>2. CASE pc[r] # "off"
    <3>1. PICK g, n : g = list[r] /\ n = at[r]
      OBVIOUS
    <3>2. g \in DOMAIN lists /\ n \in 0 .. Len(lists[g])
      BY <2>2, <3>1 DEF ArrayInv, RequestInv
    <3>3. IsSeq(lists[g]) /\ Len(lists[g]) \in Nat /\ DOMAIN lists[g] = 1 .. Len(lists[g])
      BY <3>2, SeqFacts DEF ArrayInv, LicensesInv
    <3>4. left[r] \subseteq Product
      <4>1. CASE left[r] = {}
        BY <4>1
      <4>2. CASE left[r] # {}
        <5>1. n > 0 /\ left[r] \subseteq DOMAIN lists[g][n].products
          BY <3>1, <4>2 DEF ArrayInv, RequestInv, License
        <5>2. IsLicense(lists[g][n])
          BY <1>2, <3>2, <3>3, <5>1
        <5> QED BY <5>1, <5>2 DEF IsLicense
      <4> QED BY <4>1, <4>2
    <3>5. ASSUME NEW q \in DOMAIN entries[r] PROVE EntryType(entries[r][q])
      <4>1. PICK e, m : e = entries[r][q] /\ m = Passed(r, q)
        OBVIOUS
      <4>2. m \in Nat /\ EntryFits(e, g, q, m)
        BY <3>1, <4>1, HeldOf
      <4>3. m <= Len(lists[g])
        BY <3>1, <3>2, <3>3, <4>1 DEF Passed
      <4>4. EntryType(e)
        BY <3>2, <4>2, <4>3, EntryIsTyped DEF ArrayInv
      <4> QED BY <4>1, <4>4
    <3> QED BY <1>5, <2>2, <3>1, <3>2, <3>3, <3>4, <3>5
  <2> QED BY <2>1, <2>2
<1>7. list \in [Request -> 0 .. Len(lists)]
  BY <1>6 DEF ListInv
<1>8. ProductsTypeOK
  BY <1>2, <1>3, <1>4, <1>6, <1>7, Zenon DEF ProductsTypeOK
<1> QED BY <1>1, <1>8 DEF TypeOK, OutcomeInv

(* Every variable of the way of license claims keeps its type: what is     *)
(* decoded, appended in place and aggregated stays texts and numbers, and  *)
(* no request gets past the licenses of its list.                          *)
THEOREM TypeCorrect == Spec => []TypeOK
<1> DEFINE Inv == /\ ArrayInv /\ WantedInv /\ AnswerInv
                  /\ ListInv /\ SlotsInv /\ OutcomeInv
<1>1. Init => Inv
  BY ArrayStart, WantedStart, AnswerStart, TypesStart
<1>2. Inv /\ [Next]_claimsVars => Inv'
  <2> SUFFICES ASSUME Inv, [Next]_claimsVars PROVE Inv'
    OBVIOUS
  <2>1. ArrayInv' /\ WantedInv'
    BY ArrayStep, WantedStep
  <2>2. AnswerInv'
    BY <2>1, AnswerStep
  <2>3. ListInv' /\ SlotsInv' /\ OutcomeInv'
    BY ListStep, SlotsStep, OutcomeStep DEF ArrayInv
  <2> QED BY <2>1, <2>2, <2>3
<1>3. Inv => TypeOK
  BY TypesAreCorrect
<1> QED BY <1>1, <1>2, <1>3, PTL DEF Spec

---------------------------------------------------------------------------
(* What is made of the keys a loop has read, name by name.                 *)
IsFcn(f) == f = [x \in DOMAIN f |-> f[x]]

LEMMA FcnEqual ==
    ASSUME NEW f, NEW h, IsFcn(f), IsFcn(h), DOMAIN f = DOMAIN h, \A x \in DOMAIN f : f[x] = h[x]
    PROVE  f = h
BY DEF IsFcn

(* A name at the top is the value of its key, or what it starts as.        *)
TopIs(x, name, default, f, R) ==
    /\ \A k \in R : k.to = name => x = f[k][1]
    /\ (\A k \in R : k.to # name) => x = default

(* The claims of product p are those of its keys.                          *)
ProductIs(x, p, f, R) ==
    /\ \E lid, unknown : x = [lid |-> lid, unknown |-> unknown]
    /\ \A k \in R : k.to = "claim" /\ k.product = p /\ k.claim = "lid" => x.lid = f[k][1]
    /\ (\A k \in R : ~(k.to = "claim" /\ k.product = p /\ k.claim = "lid")) => x.lid = Generated
    /\ IsFcn(x.unknown)
    /\ \A c : c \in DOMAIN x.unknown <=> \E k \in R : IsUnknown(k) /\ k.product = p /\ k.claim = c
    /\ \A k \in R : IsUnknown(k) /\ k.product = p => x.unknown[k.claim] = Typed(k, f[k])

Yields(m, f, R) ==
    /\ \E uid, dn, sin, products : m = [uid |-> uid, dn |-> dn, sin |-> sin, products |-> products]
    /\ TopIs(m.uid, "uid", Generated, f, R)
    /\ TopIs(m.dn, "dn", "", f, R)
    /\ TopIs(m.sin, "sin", "", f, R)
    /\ IsFcn(m.products)
    /\ \A p : p \in DOMAIN m.products <=> \E k \in R : k.to = "claim" /\ k.product = p
    /\ \A p \in DOMAIN m.products : ProductIs(m.products[p], p, f, R)

ReadKeys == DOMAIN form \ unread

NothingMade == [uid |-> Generated, dn |-> "", sin |-> "", products |-> <<>>]

OrderInv ==
    /\ outcome = "idle" => form = <<>> /\ made = NothingMade
    /\ outcome \in {"ok", "unsent"} =>
          unread = {} /\ (outcome = "ok" <=> EncodableClaims(made))
    /\ outcome = "error" => \E k \in DOMAIN form : Refused(k, form[k])
    /\ outcome \in {"reading", "ok", "unsent"} => \A k \in ReadKeys : ~Refused(k, form[k])
    /\ NamedOnce(form) => outcome # "panic"
    /\ NamedOnce(form) /\ outcome \in {"reading", "ok", "unsent"} => Yields(made, form, ReadKeys)

LEMMA NothingIsFcn == IsFcn(<<>>) /\ DOMAIN <<>> = {}
<1> DEFINE empty == <<>>
<1>1. DOMAIN empty = {}
  OBVIOUS
<1>2. \A f1 : [x \in 1 .. 0 |-> f1[x]] = empty
  OBVIOUS
<1>3. 1 .. 0 = {}
  OBVIOUS
<1> HIDE DEF empty
<1>4. DOMAIN empty = 1 .. 0
  BY <1>1, <1>3
<1>5. [x \in DOMAIN empty |-> empty[x]] = [x \in 1 .. 0 |-> empty[x]]
  BY <1>4, Zenon
<1>6. IsFcn(empty)
  BY <1>2, <1>5, Zenon DEF IsFcn
<1> QED BY <1>1, <1>6 DEF empty

(* Nothing read: everything as it starts.                                  *)
LEMMA YieldsNothing ==
    ASSUME NEW m, m = NothingMade, NEW f
    PROVE  Yields(m, f, {})
<1> DEFINE empty == <<>>
<1>1. IsFcn(empty) /\ DOMAIN empty = {}
  BY NothingIsFcn
<1>2. m.uid = Generated /\ m.dn = "" /\ m.sin = "" /\ m.products = empty
  BY DEF NothingMade
<1> HIDE DEF empty
<1>3. \E uid, dn, sin, products : m = [uid |-> uid, dn |-> dn, sin |-> sin, products |-> products]
  BY DEF NothingMade
<1> QED BY <1>1, <1>2, <1>3 DEF Yields, TopIs

LEMMA TopGrows ==
    ASSUME NEW x, NEW name, NEW default, NEW f, NEW R, TopIs(x, name, default, f, R),
           NEW k, k.to = name => \A j \in R : j.to # name,
           NEW y, y = IF k.to = name THEN f[k][1] ELSE x
    PROVE  TopIs(y, name, default, f, R \cup {k})
<1>1. CASE k.to = name
  BY <1>1 DEF TopIs
<1>2. CASE k.to # name
  BY <1>2 DEF TopIs
<1> QED BY <1>1, <1>2

LEMMA TopYields ==
    ASSUME NEW m, NEW f, NEW R, Yields(m, f, R), NEW k, k \notin R,
           k.to \in {"uid", "dn", "sin"}, \A j \in R : j.to # k.to,
           NEW n, n = [m EXCEPT ![k.to] = f[k][1]]
    PROVE  Yields(n, f, R \cup {k})
<1> DEFINE S == R \cup {k}
<1>1. PICK uid, dn, sin, products :
          m = [uid |-> uid, dn |-> dn, sin |-> sin, products |-> products]
  BY DEF Yields
<1>2. /\ m.uid = uid /\ m.dn = dn /\ m.sin = sin /\ m.products = products
      /\ DOMAIN m = {"uid", "dn", "sin", "products"}
  BY <1>1
<1>3. /\ n.products = products
      /\ n.uid = (IF k.to = "uid" THEN f[k][1] ELSE uid)
      /\ n.dn = (IF k.to = "dn" THEN f[k][1] ELSE dn)
      /\ n.sin = (IF k.to = "sin" THEN f[k][1] ELSE sin)
      /\ n = [uid |-> n.uid, dn |-> n.dn, sin |-> n.sin, products |-> n.products]
  BY <1>1, <1>2
<1>4. TopIs(n.uid, "uid", Generated, f, S)
  <2>1. TopIs(uid, "uid", Generated, f, R)
    BY <1>2 DEF Yields
  <2>2. k.to = "uid" => \A j \in R : j.to # "uid"
    OBVIOUS
  <2>3. PICK y : y = n.uid
    OBVIOUS
  <2>4. y = IF k.to = "uid" THEN f[k][1] ELSE uid
    BY <1>3, <2>3
  <2>5. TopIs(y, "uid", Generated, f, S)
    BY <2>1, <2>2, <2>4, TopGrows
  <2> QED BY <2>3, <2>5
<1>5. TopIs(n.dn, "dn", "", f, S)
  <2>1. TopIs(dn, "dn", "", f, R)
    BY <1>2 DEF Yields
  <2>2. k.to = "dn" => \A j \in R : j.to # "dn"
    OBVIOUS
  <2>3. PICK y : y = n.dn
    OBVIOUS
  <2>4. y = IF k.to = "dn" THEN f[k][1] ELSE dn
    BY <1>3, <2>3
  <2>5. TopIs(y, "dn", "", f, S)
    BY <2>1, <2>2, <2>4, TopGrows
  <2> QED BY <2>3, <2>5
<1>6. TopIs(n.sin, "sin", "", f, S)
  <2>1. TopIs(sin, "sin", "", f, R)
    BY <1>2 DEF Yields
  <2>2. k.to = "sin" => \A j \in R : j.to # "sin"
    OBVIOUS
  <2>3. PICK y : y = n.sin
    OBVIOUS
  <2>4. y = IF k.to = "sin" THEN f[k][1] ELSE sin
    BY <1>3, <2>3
  <2>5. TopIs(y, "sin", "", f, S)
    BY <2>1, <2>2, <2>4, TopGrows
  <2> QED BY <2>3, <2>5
<1>7. IsFcn(n.products)
  BY <1>2, <1>3 DEF Yields
<1>8. \A p : p \in DOMAIN n.products <=> \E j \in S : j.to = "claim" /\ j.product = p
  <2>1. \A p : p \in DOMAIN products <=> \E j \in R : j.to = "claim" /\ j.product = p
    BY <1>2 DEF Yields
  <2>2. k.to # "claim"
    OBVIOUS
  <2> QED BY <1>3, <2>1, <2>2
<1>9. ASSUME NEW p \in DOMAIN n.products PROVE ProductIs(n.products[p], p, f, S)
  <2>1. ProductIs(products[p], p, f, R)
    BY <1>2, <1>3 DEF Yields
  <2>2. k.to # "claim"
    OBVIOUS
  <2>3. PICK x : x = products[p]
    OBVIOUS
  <2>4. ProductIs(x, p, f, S)
    <3> QED BY <2>1, <2>2, <2>3 DEF ProductIs, IsUnknown
  <2> QED BY <1>3, <2>3, <2>4
<1>10. \E u, d, s, q : n = [uid |-> u, dn |-> d, sin |-> s, products |-> q]
  BY <1>3
<1> QED BY <1>4, <1>5, <1>6, <1>7, <1>8, <1>9, <1>10, Zenon DEF Yields

(* What a product has before a key of it is read.                          *)
LEMMA OldProductIs ==
    ASSUME NEW m, NEW f, NEW R, Yields(m, f, R), NEW p, NEW old, old = ProductOf(m, p)
    PROVE  ProductIs(old, p, f, R)
<1>1. CASE p \in DOMAIN m.products
  BY <1>1 DEF ProductOf, Yields
<1>2. CASE p \notin DOMAIN m.products
  <2>1. \A k \in R : ~(k.to = "claim" /\ k.product = p)
    BY <1>2 DEF Yields
  <2> DEFINE empty == <<>>
  <2>2. old = [lid |-> Generated, unknown |-> empty]
    BY <1>2 DEF ProductOf, NoProduct
  <2>3. IsFcn(empty) /\ DOMAIN empty = {}
    BY NothingIsFcn
  <2> HIDE DEF empty
  <2>4. old.lid = Generated /\ old.unknown = empty
    BY <2>2
  <2> QED BY <2>1, <2>2, <2>3, <2>4 DEF ProductIs, IsUnknown
<1> QED BY <1>1, <1>2

(* A key changes one name of a product.                                    *)
Changed(old, k, values) ==
    IF k.claim = "lid" THEN [old EXCEPT !.lid = values[1]]
    ELSE IF k.claim = "" THEN old
    ELSE [old EXCEPT !.unknown = Put(@, k.claim, Typed(k, values))]

WithProduct(m, p, new) == [m EXCEPT !.products = Put(@, p, new)]

LEMMA NewProductIs ==
    ASSUME NEW f, NEW R, NEW k, k.to = "claim", \A j \in R : ~SameClaim(j, k),
           NEW old, ProductIs(old, k.product, f, R),
           NEW new, new = Changed(old, k, f[k])
    PROVE  ProductIs(new, k.product, f, R \cup {k})
<1> DEFINE S == R \cup {k}
           p == k.product
           typed == Typed(k, f[k])
<1>1. PICK lid, unknown : old = [lid |-> lid, unknown |-> unknown]
  BY DEF ProductIs
<1>2. old.lid = lid /\ old.unknown = unknown
  BY <1>1
<1> HIDE DEF typed
<1>3. /\ \A j \in R : j.to = "claim" /\ j.product = p /\ j.claim = "lid" => lid = f[j][1]
      /\ (\A j \in R : ~(j.to = "claim" /\ j.product = p /\ j.claim = "lid")) => lid = Generated
      /\ IsFcn(unknown)
      /\ \A c : c \in DOMAIN unknown <=> \E j \in R : IsUnknown(j) /\ j.product = p /\ j.claim = c
      /\ \A j \in R : IsUnknown(j) /\ j.product = p => unknown[j.claim] = Typed(j, f[j])
  BY <1>2 DEF ProductIs
<1>4. \A j \in R : ~(j.to = "claim" /\ j.product = p /\ j.claim = k.claim)
  BY DEF SameClaim
<1>5. CASE k.claim = "lid"
  <2>1. new = [lid |-> f[k][1], unknown |-> unknown] /\ ~IsUnknown(k)
    BY <1>1, <1>5 DEF IsUnknown, Changed
  <2>2. new.lid = f[k][1] /\ new.unknown = unknown
    BY <2>1
  <2> QED BY <1>3, <1>4, <1>5, <2>1, <2>2 DEF ProductIs
<1>6. CASE k.claim = ""
  <2>1. new = old /\ ~IsUnknown(k)
    BY <1>6 DEF IsUnknown, Changed
  <2> QED BY <1>1, <1>2, <1>3, <1>6, <2>1 DEF ProductIs
<1>7. CASE k.claim \notin {"lid", ""}
  <2>1. PICK u : u = Put(unknown, k.claim, typed)
    OBVIOUS
  <2>2. new = [lid |-> lid, unknown |-> u] /\ IsUnknown(k)
    BY <1>1, <1>7, <2>1 DEF IsUnknown, Changed, typed
  <2>3. new.lid = lid /\ new.unknown = u
    BY <2>2
  <2>4. IsFcn(u)
    BY <2>1 DEF IsFcn, Put
  <2>5. /\ DOMAIN u = DOMAIN unknown \cup {k.claim} /\ u[k.claim] = typed
        /\ \A c \in DOMAIN unknown : c # k.claim => u[c] = unknown[c]
    BY <2>1 DEF Put
  <2>6. ASSUME NEW c
        PROVE  c \in DOMAIN u <=> \E j \in S : IsUnknown(j) /\ j.product = p /\ j.claim = c
    BY <1>3, <2>2, <2>5
  <2>7. ASSUME NEW j \in S, IsUnknown(j), j.product = p PROVE u[j.claim] = Typed(j, f[j])
    <3>1. CASE j = k
      BY <2>5, <3>1 DEF typed
    <3>2. CASE j # k
      <4>1. j \in R /\ j.claim # k.claim
        BY <1>4, <2>7, <3>2 DEF IsUnknown
      <4>2. j.claim \in DOMAIN unknown
        BY <1>3, <2>7, <4>1
      <4> QED BY <1>3, <2>5, <2>7, <4>1, <4>2
    <3> QED BY <3>1, <3>2
  <2>8. \A j \in S : j.to = "claim" /\ j.product = p /\ j.claim = "lid" => lid = f[j][1]
    BY <1>3, <1>7
  <2>9. (\A j \in S : ~(j.to = "claim" /\ j.product = p /\ j.claim = "lid")) => lid = Generated
    BY <1>3
  <2> QED BY <2>2, <2>3, <2>4, <2>6, <2>7, <2>8, <2>9 DEF ProductIs
<1> QED BY <1>5, <1>6, <1>7

LEMMA ClaimYields ==
    ASSUME NEW m, NEW f, NEW R, Yields(m, f, R), NEW k, k.to = "claim",
           \A j \in R : ~SameClaim(j, k), NEW old, old = ProductOf(m, k.product),
           NEW new, new = Changed(old, k, f[k]),
           NEW n, n = WithProduct(m, k.product, new)
    PROVE  Yields(n, f, R \cup {k})
<1> DEFINE S == R \cup {k}
<1>1. PICK p : p = k.product
  OBVIOUS
<1>2. ProductIs(new, p, f, S)
  <2>1. ProductIs(old, k.product, f, R)
    BY OldProductIs
  <2> QED BY <1>1, <2>1, NewProductIs
<1>3. PICK uid, dn, sin, products :
          m = [uid |-> uid, dn |-> dn, sin |-> sin, products |-> products]
  BY DEF Yields
<1>4. m.uid = uid /\ m.dn = dn /\ m.sin = sin /\ m.products = products
  BY <1>3
<1>5. PICK more : more = Put(products, p, new)
  OBVIOUS
<1>6. n = [uid |-> uid, dn |-> dn, sin |-> sin, products |-> more]
  BY <1>1, <1>3, <1>5 DEF WithProduct
<1>7. n.uid = uid /\ n.dn = dn /\ n.sin = sin /\ n.products = more
  BY <1>6
<1>8. TopIs(uid, "uid", Generated, f, S)
  BY <1>4, TopGrows DEF Yields
<1>9. TopIs(dn, "dn", "", f, S)
  BY <1>4, TopGrows DEF Yields
<1>10. TopIs(sin, "sin", "", f, S)
  BY <1>4, TopGrows DEF Yields
<1>11. /\ IsFcn(more) /\ DOMAIN more = DOMAIN products \cup {p} /\ more[p] = new
       /\ \A q \in DOMAIN products : q # p => more[q] = products[q]
  BY <1>5 DEF IsFcn, Put
<1>12. \A q : q \in DOMAIN more <=> \E j \in S : j.to = "claim" /\ j.product = q
  BY <1>1, <1>4, <1>11 DEF Yields
<1>13. ASSUME NEW q \in DOMAIN more PROVE ProductIs(more[q], q, f, S)
  <2>1. CASE q = p
    BY <1>2, <1>11, <2>1
  <2>2. CASE q # p
    <3>1. PICK x : x = more[q]
      OBVIOUS
    <3>2. ProductIs(x, q, f, R)
      BY <1>4, <1>11, <2>2, <3>1 DEF Yields
    <3>3. ProductIs(x, q, f, S)
      BY <1>1, <2>2, <3>2 DEF ProductIs
    <3> QED BY <3>1, <3>3
  <2> QED BY <2>1, <2>2
<1> QED BY <1>6, <1>7, <1>8, <1>9, <1>10, <1>11, <1>12, <1>13 DEF Yields

LEMMA RefusedOrAllowed ==
    ASSUME NEW k, NEW values \in Seq(Value), values # <<>>
    PROVE  Refused(k, values) <=> ~Allowed(k, values)
<1>1. Len(values) \in Nat /\ Len(values) > 0
  OBVIOUS
<1>2. Len(values) > 1 <=> Len(values) # 1
  BY <1>1
<1> QED BY <1>2 DEF Refused, Allowed, Multi

LEMMA OrderStart == Init => OrderInv
<1> SUFFICES ASSUME Init PROVE OrderInv
  OBVIOUS
<1>1. outcome = "idle" /\ form = <<>> /\ made = NothingMade
  BY Zenon DEF Init, GenInit, NothingMade
<1> QED BY <1>1 DEF OrderInv

(* A key that has been read and the one that is read are different claims. *)
LEMMA ReadBefore ==
    ASSUME GenInv, NEW k \in unread
    PROVE  /\ k \in DOMAIN form /\ k \notin ReadKeys
           /\ DOMAIN form \ (unread \ {k}) = ReadKeys \cup {k}
           /\ NamedOnce(form) => \A j \in ReadKeys : ~SameClaim(j, k)
<1>1. k \in DOMAIN form /\ k \notin ReadKeys
  BY DEF GenInv, ReadKeys
<1>2. DOMAIN form \ (unread \ {k}) = ReadKeys \cup {k}
  BY <1>1 DEF ReadKeys
<1>3. ASSUME NamedOnce(form), NEW j \in ReadKeys, SameClaim(j, k) PROVE FALSE
  <2>1. j \in DOMAIN form /\ j # k
    BY <1>1 DEF ReadKeys
  <2> QED BY <1>1, <1>3, <2>1 DEF NamedOnce
<1> QED BY <1>1, <1>2, <1>3

(* None of the claims made so far is that of a key that is still unread.   *)
LEMMA NotMadeYet ==
    ASSUME GenInv, OrderInv, outcome = "reading", NamedOnce(form), NEW k \in unread, IsUnknown(k)
    PROVE  k.claim \notin DOMAIN ProductOf(made, k.product).unknown
<1>1. Yields(made, form, ReadKeys)
  BY DEF OrderInv
<1>2. PICK old : old = ProductOf(made, k.product)
  OBVIOUS
<1>3. ProductIs(old, k.product, form, ReadKeys)
  BY <1>1, <1>2, OldProductIs
<1>4. ASSUME k.claim \in DOMAIN old.unknown PROVE FALSE
  <2>1. PICK j \in ReadKeys : IsUnknown(j) /\ j.product = k.product /\ j.claim = k.claim
    BY <1>3, <1>4 DEF ProductIs
  <2>2. SameClaim(j, k)
    BY <2>1 DEF SameClaim, IsUnknown
  <2> QED BY <2>2, ReadBefore
<1> QED BY <1>2, <1>4

LEMMA TopOrder ==
    ASSUME GenInv, MadeInv, OrderInv, NEW k \in unread, TopClaim(k)
    PROVE  OrderInv'
<1>1. /\ outcome = "reading" /\ unread' = unread \ {k} /\ form' = form /\ outcome' = outcome
      /\ k.to \in {"uid", "dn", "sin"} /\ ~Refused(k, form[k])
      /\ made' = [made EXCEPT ![k.to] = form[k][1]]
  BY Zenon DEF TopClaim, Visited
<1>2. PICK f, R, S : f = form /\ R = ReadKeys /\ S = ReadKeys'
  OBVIOUS
<1>3. S = R \cup {k} /\ k \in DOMAIN f /\ k \notin R
  BY <1>1, <1>2, ReadBefore DEF ReadKeys
<1>4. \A j \in S : ~Refused(j, f[j])
  BY <1>1, <1>2, <1>3 DEF OrderInv
<1>5. ASSUME NamedOnce(f) PROVE Yields(made', f, S)
  <2>1. Yields(made, f, R)
    BY <1>1, <1>2, <1>5 DEF OrderInv
  <2>2. f \in Form
    <3>1. f # <<>>
      BY <1>3
    <3> QED BY <1>2, <3>1 DEF MadeInv
  <2>3. \A j \in R : j.to # k.to
    <3>1. \A j \in R : j \in DOMAIN f /\ j # k
      BY <1>2, <1>3 DEF ReadKeys
    <3> QED BY <1>1, <1>3, <2>2, <3>1, KeyAssumption
  <2>4. PICK m, n : m = made /\ n = made'
    OBVIOUS
  <2>5. n = [m EXCEPT ![k.to] = f[k][1]]
    BY <1>1, <1>2, <2>4
  <2>6. Yields(n, f, R \cup {k})
    BY <1>1, <1>3, <2>1, <2>3, <2>4, <2>5, TopYields
  <2> QED BY <1>3, <2>4, <2>6
<1> QED BY <1>1, <1>2, <1>4, <1>5 DEF OrderInv

LEMMA ClaimOrder ==
    ASSUME GenInv, MadeInv, OrderInv, NEW k \in unread, ProductClaim(k)
    PROVE  OrderInv'
<1> DEFINE old == ProductOf(made, k.product)
           have == IF k.claim \in DOMAIN old.unknown /\ Multi(k)
                   THEN old.unknown[k.claim].items ELSE <<>>
           new == IF k.claim = "lid" THEN [old EXCEPT !.lid = form[k][1]]
                  ELSE IF k.claim = "" THEN old
                  ELSE [old EXCEPT !.unknown = Put(@, k.claim, Typed(k, have \o form[k]))]
<1>1. /\ outcome = "reading" /\ unread' = unread \ {k} /\ form' = form /\ outcome' = outcome
      /\ k.to = "claim" /\ ~Refused(k, form[k])
      /\ made' = [made EXCEPT !.products = Put(@, k.product, new)]
  BY Zenon DEF ProductClaim, Visited
<1>2. PICK f, R, S : f = form /\ R = ReadKeys /\ S = ReadKeys'
  OBVIOUS
<1>3. S = R \cup {k} /\ k \in DOMAIN f /\ k \notin R
  BY <1>1, <1>2, ReadBefore DEF ReadKeys
<1>4. \A j \in S : ~Refused(j, f[j])
  BY <1>1, <1>2, <1>3 DEF OrderInv
<1>5. ASSUME NamedOnce(f) PROVE Yields(made', f, S)
  <2>1. Yields(made, f, R)
    BY <1>1, <1>2, <1>5 DEF OrderInv
  <2>2. \A j \in R : ~SameClaim(j, k)
    BY <1>2, <1>5, ReadBefore
  <2>3. have = <<>>
    BY <1>1, <1>2, <1>5, NotMadeYet DEF Multi
  <2> HIDE DEF old, have
  <2>4. have \o form[k] = form[k]
    <3>1. form[k] \in Seq(Value)
      BY <1>2, <1>3, FormFacts
    <3> QED BY <2>3, <3>1
  <2>5. new = Changed(old, k, f[k])
    BY <1>2, <2>4, Zenon DEF Changed
  <2> HIDE DEF new
  <2>6. PICK m, n, o, x : m = made /\ n = made' /\ o = old /\ x = new
    OBVIOUS
  <2>7. n = WithProduct(m, k.product, x)
    BY <1>1, <2>6, Zenon DEF WithProduct
  <2>8. o = ProductOf(m, k.product) /\ x = Changed(o, k, f[k])
    BY <2>5, <2>6 DEF old
  <2>9. Yields(n, f, R \cup {k})
    BY <1>1, <2>1, <2>2, <2>6, <2>7, <2>8, ClaimYields
  <2> QED BY <1>3, <2>6, <2>9
<1> QED BY <1>1, <1>2, <1>4, <1>5 DEF OrderInv

LEMMA OrderStep == GenInv /\ MadeInv /\ OrderInv /\ [Next]_claimsVars => OrderInv'
<1> SUFFICES ASSUME GenInv, MadeInv, OrderInv, [Next]_claimsVars PROVE OrderInv'
  OBVIOUS
<1>1. CASE UNCHANGED genVars
  <2>1. UNCHANGED <<form, unread, made, outcome>>
    BY <1>1, Zenon DEF genVars
  <2> QED BY <2>1 DEF OrderInv, ReadKeys
<1>2. CASE Generate
  <2>1. /\ outcome = "idle" /\ outcome' = "reading" /\ unread' = DOMAIN form' /\ made' = made
    BY <1>2, Zenon DEF Generate
  <2>2. ReadKeys' = {}
    BY <2>1 DEF ReadKeys
  <2>3. PICK f, m : f = form' /\ m = made' /\ m = NothingMade
    BY <2>1 DEF OrderInv
  <2>4. Yields(m, f, {})
    BY <2>3, YieldsNothing
  <2> QED BY <2>1, <2>2, <2>3, <2>4 DEF OrderInv
<1>3. CASE Return \/ EncodeFails
  <2>1. /\ outcome = "reading" /\ unread = {} /\ UNCHANGED <<form, unread, made>>
        /\ \/ outcome' = "ok" /\ EncodableClaims(made)
           \/ outcome' = "unsent" /\ ~EncodableClaims(made)
    BY <1>3, Zenon DEF Return, EncodeFails
  <2> QED BY <2>1 DEF OrderInv, ReadKeys
<1>4. ASSUME NEW k \in unread, RefuseKey(k) PROVE OrderInv'
  <2>1. /\ Refused(k, form[k]) /\ outcome' = "error" /\ form' = form
    BY <1>4, Zenon DEF RefuseKey, Visited
  <2>2. k \in DOMAIN form
    BY DEF GenInv
  <2> QED BY <2>1, <2>2 DEF OrderInv
<1>5. ASSUME NEW k \in unread, Panic(k) PROVE OrderInv'
  <2>1. /\ outcome = "reading" /\ Mismatch(k) /\ outcome' = "panic" /\ form' = form
    BY <1>5, Zenon DEF Panic, Visited
  <2>2. ~NamedOnce(form)
    BY <2>1, NotMadeYet DEF Mismatch, Multi
  <2> QED BY <2>1, <2>2 DEF OrderInv
<1>6. \/ UNCHANGED genVars \/ Generate \/ Return \/ EncodeFails
      \/ \E k \in unread : TopClaim(k) \/ ProductClaim(k) \/ RefuseKey(k) \/ Panic(k)
  BY Zenon DEF Next, GenNext, Sign, PublishFiles, claimsVars
<1> QED BY <1>1, <1>2, <1>3, <1>4, <1>5, <1>6, TopOrder, ClaimOrder

(* With all keys read, that is what the form asks for.                     *)
LEMMA TopAsked ==
    ASSUME NEW x, NEW name, NEW default, NEW f, TopIs(x, name, default, f, DOMAIN f)
    PROVE  x = Top(f, name, default)
<1>1. CASE \E k \in DOMAIN f : k.to = name
  <2>1. PICK k : k = CHOOSE j \in DOMAIN f : j.to = name
    OBVIOUS
  <2>2. k \in DOMAIN f /\ k.to = name
    BY <1>1, <2>1
  <2> QED BY <1>1, <2>1, <2>2 DEF TopIs, Top
<1>2. CASE ~\E k \in DOMAIN f : k.to = name
  BY <1>2 DEF TopIs, Top
<1> QED BY <1>1, <1>2

LEMMA ProductAsked ==
    ASSUME NEW f, NEW p, NEW x, ProductIs(x, p, f, DOMAIN f)
    PROVE  x = ProductAskedFor(f, p)
<1> DEFINE of == KeysOf(f, p)
           names == NamesOf(f, p)
<1>0. PICK lid, unknown :
         /\ lid = IF \E k \in of : k.claim = "lid" THEN f[KeyOf(f, p, "lid")][1] ELSE Generated
         /\ unknown = [c \in names |-> Typed(KeyOf(f, p, c), f[KeyOf(f, p, c)])]
  OBVIOUS
<1>1. \A k : k \in of <=> k \in DOMAIN f /\ k.to = "claim" /\ k.product = p
  BY DEF KeysOf
<1>2. \A c : (\E k \in of : k.claim = c) => KeyOf(f, p, c) \in of /\ KeyOf(f, p, c).claim = c
  BY DEF KeyOf
<1>3. ProductAskedFor(f, p) = [lid |-> lid, unknown |-> unknown]
  BY <1>0, Zenon DEF ProductAskedFor
<1>4. \A c : c \in names <=> \E k \in of : IsUnknown(k) /\ k.claim = c
  BY DEF NamesOf
<1> HIDE DEF of, names
<1>5. x.lid = lid
  <2>1. CASE \E k \in of : k.claim = "lid"
    <3>1. PICK k : k = KeyOf(f, p, "lid") /\ k \in of /\ k.claim = "lid"
      BY <1>2, <2>1
    <3> QED BY <1>0, <1>1, <2>1, <3>1 DEF ProductIs
  <2>2. CASE ~\E k \in of : k.claim = "lid"
    BY <1>0, <1>1, <2>2 DEF ProductIs
  <2> QED BY <2>1, <2>2
<1>6. DOMAIN x.unknown = names
  <2>1. \A c : c \in DOMAIN x.unknown <=>
            \E k \in DOMAIN f : IsUnknown(k) /\ k.product = p /\ k.claim = c
    BY DEF ProductIs
  <2>2. \A k : IsUnknown(k) => k.to = "claim"
    BY DEF IsUnknown
  <2>3. \A c : c \in DOMAIN x.unknown <=> c \in names
    BY <1>1, <1>4, <2>1, <2>2
  <2> QED BY <2>3
<1>7. ASSUME NEW c \in names PROVE x.unknown[c] = unknown[c]
  <2>1. PICK j \in of : IsUnknown(j) /\ j.claim = c
    BY <1>4
  <2>2. PICK k : k = KeyOf(f, p, c) /\ k \in of /\ k.claim = c
    BY <1>2, <2>1
  <2>3. IsUnknown(k)
    BY <1>1, <2>1, <2>2 DEF IsUnknown
  <2>4. x.unknown[c] = Typed(k, f[k])
    BY <1>1, <2>2, <2>3 DEF ProductIs
  <2> QED BY <1>0, <2>2, <2>4
<1>8. IsFcn(unknown) /\ DOMAIN unknown = names
  BY <1>0 DEF IsFcn
<1>9. x.unknown = unknown
  <2>1. IsFcn(x.unknown)
    BY DEF ProductIs
  <2> QED BY <1>6, <1>7, <1>8, <2>1, FcnEqual
<1>10. PICK a, b : x = [lid |-> a, unknown |-> b]
  BY DEF ProductIs
<1> QED BY <1>3, <1>5, <1>9, <1>10

LEMMA AllAsked ==
    ASSUME NEW m, NEW f, Yields(m, f, DOMAIN f)
    PROVE  m = AskedFor(f)
<1>1. PICK products : products = [p \in {k.product : k \in {k \in DOMAIN f : k.to = "claim"}} |->
                                     ProductAskedFor(f, p)]
  OBVIOUS
<1>2. AskedFor(f) = [uid |-> Top(f, "uid", Generated), dn |-> Top(f, "dn", ""),
                     sin |-> Top(f, "sin", ""), products |-> products]
  BY <1>1, Zenon DEF AskedFor
<1>3. m.uid = Top(f, "uid", Generated) /\ m.dn = Top(f, "dn", "") /\ m.sin = Top(f, "sin", "")
  <2>1. m.uid = Top(f, "uid", Generated)
    <3>1. PICK x : x = m.uid
      OBVIOUS
    <3>2. TopIs(x, "uid", Generated, f, DOMAIN f)
      BY <3>1 DEF Yields
    <3>3. x = Top(f, "uid", Generated)
      BY <3>2, TopAsked
    <3> QED BY <3>1, <3>3
  <2>2. m.dn = Top(f, "dn", "")
    <3>1. PICK x : x = m.dn
      OBVIOUS
    <3>2. TopIs(x, "dn", "", f, DOMAIN f)
      BY <3>1 DEF Yields
    <3>3. x = Top(f, "dn", "")
      BY <3>2, TopAsked
    <3> QED BY <3>1, <3>3
  <2>3. m.sin = Top(f, "sin", "")
    <3>1. PICK x : x = m.sin
      OBVIOUS
    <3>2. TopIs(x, "sin", "", f, DOMAIN f)
      BY <3>1 DEF Yields
    <3>3. x = Top(f, "sin", "")
      BY <3>2, TopAsked
    <3> QED BY <3>1, <3>3
  <2> QED BY <2>1, <2>2, <2>3
<1>4. IsFcn(products)
  BY <1>1 DEF IsFcn
<1>5. DOMAIN m.products = DOMAIN products
  <2>1. \A p : p \in DOMAIN products <=> \E k \in DOMAIN f : k.to = "claim" /\ k.product = p
    BY <1>1
  <2>2. \A p : p \in DOMAIN m.products <=> \E k \in DOMAIN f : k.to = "claim" /\ k.product = p
    BY DEF Yields
  <2> QED BY <2>1, <2>2
<1>6. ASSUME NEW p \in DOMAIN products PROVE m.products[p] = products[p]
  <2>1. ProductIs(m.products[p], p, f, DOMAIN f)
    BY <1>5 DEF Yields
  <2>2. m.products[p] = ProductAskedFor(f, p)
    BY <2>1, ProductAsked
  <2> QED BY <1>1, <2>2
<1>7. m.products = products
  <2>1. IsFcn(m.products)
    BY DEF Yields
  <2> QED BY <1>4, <1>5, <1>6, <2>1, FcnEqual
<1>8. PICK a, b, c, d : m = [uid |-> a, dn |-> b, sin |-> c, products |-> d]
  BY DEF Yields
<1> QED BY <1>2, <1>3, <1>7, <1>8

(* What is made cannot be encoded if a key asked for a float without JSON. *)
LEMMA UnsentAsked ==
    ASSUME NEW m, NEW f, Yields(m, f, DOMAIN f)
    PROVE  ~EncodableClaims(m) <=>
               \E k \in DOMAIN f : IsUnknown(k) /\ k.type = "float" /\ f[k][1] \in NoJSON
<1>1. \A k, values : Refuses(Typed(k, values)) <=> k.type = "float" /\ values[1] \in NoJSON
  <2> SUFFICES ASSUME NEW k, NEW values
               PROVE  Refuses(Typed(k, values)) <=> k.type = "float" /\ values[1] \in NoJSON
    OBVIOUS
  <2>1. CASE k.type = "[]string"
    BY <2>1 DEF Refuses, Typed
  <2>2. CASE k.type # "[]string"
    <3>1. Typed(k, values) = [type |-> IF k.type \in {"int", "bool", "float"} THEN k.type
                                       ELSE "string",
                              value |-> values[1]]
      BY <2>2 DEF Typed
    <3> QED BY <3>1 DEF Refuses
  <2> QED BY <2>1, <2>2
<1>2. \A k \in DOMAIN f : IsUnknown(k) =>
         /\ k.product \in DOMAIN m.products
         /\ k.claim \in DOMAIN m.products[k.product].unknown
         /\ m.products[k.product].unknown[k.claim] = Typed(k, f[k])
  <2> SUFFICES ASSUME NEW k \in DOMAIN f, IsUnknown(k)
               PROVE  /\ k.product \in DOMAIN m.products
                      /\ k.claim \in DOMAIN m.products[k.product].unknown
                      /\ m.products[k.product].unknown[k.claim] = Typed(k, f[k])
    OBVIOUS
  <2>1. k.product \in DOMAIN m.products
    BY DEF Yields, IsUnknown
  <2>2. ProductIs(m.products[k.product], k.product, f, DOMAIN f)
    BY <2>1 DEF Yields
  <2> QED BY <2>1, <2>2 DEF ProductIs
<1>3. ASSUME NEW p \in DOMAIN m.products, NEW c \in DOMAIN m.products[p].unknown
      PROVE  \E k \in DOMAIN f : /\ IsUnknown(k) /\ k.product = p /\ k.claim = c
  <2>1. ProductIs(m.products[p], p, f, DOMAIN f)
    BY DEF Yields
  <2> QED BY <2>1 DEF ProductIs
<1>4. ASSUME ~EncodableClaims(m)
      PROVE  \E k \in DOMAIN f : IsUnknown(k) /\ k.type = "float" /\ f[k][1] \in NoJSON
  <2>1. PICK p \in DOMAIN m.products : \E c \in DOMAIN m.products[p].unknown :
             Refuses(m.products[p].unknown[c])
    BY <1>4, Zenon DEF EncodableClaims
  <2>2. PICK c \in DOMAIN m.products[p].unknown : Refuses(m.products[p].unknown[c])
    BY <2>1
  <2>3. PICK k \in DOMAIN f : IsUnknown(k) /\ k.product = p /\ k.claim = c
    BY <1>3
  <2>4. Refuses(Typed(k, f[k]))
    BY <1>2, <2>2, <2>3
  <2> QED BY <1>1, <2>3, <2>4
<1>5. ASSUME NEW k \in DOMAIN f, IsUnknown(k), k.type = "float", f[k][1] \in NoJSON
      PROVE  ~EncodableClaims(m)
  <2>1. Refuses(Typed(k, f[k]))
    BY <1>1, <1>5
  <2>2. Refuses(m.products[k.product].unknown[k.claim])
    BY <1>2, <1>5, <2>1
  <2> QED BY <1>2, <1>5, <2>2 DEF EncodableClaims
<1> QED BY <1>4, <1>5

LEMMA OrderedAsAsked == GenInv /\ MadeInv /\ OrderInv => OrderIsIrrelevant
<1> SUFFICES ASSUME GenInv, MadeInv, OrderInv, NamedOnce(form)
             PROVE  /\ outcome # "panic"
                    /\ outcome \in {"ok", "unsent", "error"} =>
                         (outcome = "error" <=> \E k \in DOMAIN form : ~Allowed(k, form[k]))
                    /\ outcome \in {"ok", "unsent"} =>
                         /\ made = AskedFor(form)
                         /\ outcome = "unsent" <=> \E k \in DOMAIN form :
                                IsUnknown(k) /\ k.type = "float" /\ form[k][1] \in NoJSON
  BY Zenon DEF OrderIsIrrelevant
<1>1. \A k \in DOMAIN form : Refused(k, form[k]) <=> ~Allowed(k, form[k])
  BY FormFacts, RefusedOrAllowed
<1>2. outcome # "panic"
  BY DEF OrderInv
<1>3. CASE outcome \in {"ok", "unsent"}
  <2>1. ReadKeys = DOMAIN form /\ (outcome = "unsent" <=> ~EncodableClaims(made))
    BY <1>3 DEF OrderInv, ReadKeys
  <2>2. \A k \in DOMAIN form : ~Refused(k, form[k])
    BY <1>3, <2>1 DEF OrderInv
  <2>3. PICK m, f : m = made /\ f = form
    OBVIOUS
  <2>4. Yields(m, f, DOMAIN f)
    BY <1>3, <2>1, <2>3 DEF OrderInv
  <2>5. m = AskedFor(f)
    BY <2>4, AllAsked
  <2>6. outcome = "unsent" <=> \E k \in DOMAIN form :
            IsUnknown(k) /\ k.type = "float" /\ form[k][1] \in NoJSON
    <3>1. ~EncodableClaims(m) <=> \E k \in DOMAIN f :
              IsUnknown(k) /\ k.type = "float" /\ f[k][1] \in NoJSON
      BY <2>4, UnsentAsked, Zenon
    <3> QED BY <2>1, <2>3, <3>1
  <2>7. ~\E k \in DOMAIN form : ~Allowed(k, form[k])
    BY <1>1, <2>2
  <2>8. outcome # "error"
    BY <1>3
  <2> QED BY <1>2, <2>3, <2>5, <2>6, <2>7, <2>8
<1>4. CASE outcome = "error"
  <2>1. \E k \in DOMAIN form : ~Allowed(k, form[k])
    BY <1>1, <1>4 DEF OrderInv
  <2> QED BY <1>2, <1>4, <2>1
<1> QED BY <1>2, <1>3, <1>4

(* However the loop over the map of a form takes its keys, a form that     *)
(* names each claim once is refused if and only if one of its keys is, and *)
(* else makes the claims it asks for, which are answered unless one of     *)
(* them is a float without JSON (license/claims-gen.go:34-114,             *)
(* server/handlers.go:91-109).                                             *)
THEOREM OrderDoesNotMatter == Spec => []OrderIsIrrelevant
<1>1. Init => GenInv /\ MadeInv /\ OrderInv
  BY ArrayStart, OrderStart DEF ArrayInv
<1>2. GenInv /\ MadeInv /\ OrderInv /\ [Next]_claimsVars => GenInv' /\ MadeInv' /\ OrderInv'
  BY GenStep, MadeKeepsTypes, OrderStep DEF GenInv
<1> QED BY <1>1, <1>2, OrderedAsAsked, PTL DEF Spec

---------------------------------------------------------------------------
(* What is signed stays what was made.                                     *)
SignInv ==
    Len(files) > Len(Issued) =>
        /\ outcome = "ok"
        /\ files[Len(files)] = LicenseOf(made, Len(files))

LEMMA SignStart == Init => SignInv
<1> SUFFICES ASSUME Init PROVE SignInv
  OBVIOUS
<1>1. files = Issued
  BY Zenon DEF Init
<1>2. Len(Issued) \in Nat
  BY IssuedAssumption
<1>3. ~(Len(files) > Len(Issued))
  BY <1>1, <1>2
<1> QED BY <1>3 DEF SignInv

LEMMA SignStep == LicensesInv /\ SignInv /\ [Next]_claimsVars => SignInv'
<1> SUFFICES ASSUME LicensesInv, SignInv, [Next]_claimsVars PROVE SignInv'
  OBVIOUS
<1>1. CASE UNCHANGED <<files, outcome, made>>
  BY <1>1 DEF SignInv
<1>2. CASE GenNext /\ files' = files
  <2>1. outcome # "ok"
    BY <1>2, Zenon DEF GenNext, Generate, Return, EncodeFails, TopClaim, ProductClaim, RefuseKey,
                       Panic, Visited
  <2> QED BY <1>2, <2>1 DEF SignInv
<1>3. CASE Sign
  <2>1. /\ outcome = "ok" /\ files' = Append(files, LicenseOf(made, Len(files) + 1))
        /\ outcome' = outcome /\ made' = made
    BY <1>3, Zenon DEF Sign, genVars
  <2>2. PICK x, n : x = LicenseOf(made, Len(files) + 1) /\ n = Len(files) + 1
    OBVIOUS
  <2>3. IsSeq(files)
    BY DEF LicensesInv
  <2>4. Len(files') = n /\ files'[n] = x
    BY <2>1, <2>2, <2>3, AppendFacts
  <2> QED BY <2>1, <2>2, <2>4 DEF SignInv
<1>4. \/ UNCHANGED <<files, outcome, made>> \/ (GenNext /\ files' = files) \/ Sign
  BY Zenon DEF Next, PublishFiles, genVars, claimsVars
<1> QED BY <1>1, <1>2, <1>3, <1>4

LEMMA SeqIsFcn ==
    ASSUME NEW s, IsSeq(s)
    PROVE  IsFcn(s)
BY DEF IsSeq, IsFcn

(* The aggregate of one value is that value.                               *)
LEMMA OneIsAggregate ==
    ASSUME NEW v, DOMAIN v = {1}, IsClaim(v[1]), NEW h, HeldType(h), IsAggregate(h, v, 1)
    PROVE  /\ h.kind = v[1].kind
           /\ h.kind = "number" => h.n = v[1].n
           /\ h.kind = "list" => Items(h) = v[1].items
           /\ h.kind = "other" => h = v[1]
<1>1. Counted(v, 1) = {1}
  BY DEF Counted
<1>2. PICK y : y = v[1]
  OBVIOUS
<1>3. /\ h.kind = y.kind
      /\ CASE h.kind = "number" -> IsSum(h.n, v, {1})
           [] h.kind = "list" -> IsUnion(Items(h), v, {1})
           [] OTHER -> h = y
  BY <1>1, <1>2, Zenon DEF IsAggregate
<1>4. IsClaim(y)
  BY <1>2
<1>5. ASSUME h.kind = "number" PROVE h.n = y.n
  <2>1. IsSum(h.n, v, {1})
    BY <1>3, <1>5
  <2>2. Before({1}, 1) = {} /\ Max({1}) = 1
    BY MaxIs DEF Before
  <2> QED BY <1>2, <2>1, <2>2 DEF IsSum
<1>6. ASSUME h.kind = "list" PROVE Items(h) = y.items
  <2>1. IsUnion(Items(h), v, {1}) /\ IsSeq(Items(h))
    BY <1>3, <1>6, ItemsFacts
  <2>2. IsSeq(y.items)
    BY <1>3, <1>4, <1>6, ClaimFacts
  <2>3. IsUnion(y.items, v, {1})
    BY <1>2, <2>2, UnionStarts
  <2>4. PICK s, t : s = Items(h) /\ t = y.items
    OBVIOUS
  <2>5. Len(s) = Len(t) /\ Len(t) \in Nat
    BY <2>1, <2>2, <2>3, <2>4, SeqFacts DEF IsUnion
  <2>6. ASSUME NEW j \in 1 .. Len(t) PROVE s[j] = t[j]
    <3> DEFINE new == Fresh(v, {1}, 1)
               none == Before({1}, 1)
    <3>1. none = {}
      BY DEF Before
    <3>2. Cardinality(AllFresh(v, none)) = 0
      <4>1. AllFresh(v, {}) = {}
        BY DEF AllFresh
      <4> QED BY <3>1, <4>1, FS_EmptySet
    <3>3. new = 1 .. Len(t)
      <4>1. DOMAIN t = 1 .. Len(t)
        BY <2>2, <2>4, SeqFacts
      <4>2. new = DOMAIN v[1].items
        BY <3>1 DEF Fresh
      <4> QED BY <1>2, <2>4, <4>1, <4>2
    <3>4. Cardinality(new) = Len(t) /\ Nth(new, j) = j
      BY <2>5, <3>3, NthOfAll
    <3> HIDE DEF new, none
    <3>5. s[0 + j] = v[1].items[Nth(new, j)]
      <4>1. \A m \in 1 .. Cardinality(new) :
               Items(h)[Cardinality(AllFresh(v, none)) + m] = v[1].items[Nth(new, m)]
        BY <2>1, Zenon DEF IsUnion, new, none
      <4> QED BY <2>4, <3>2, <3>4, <4>1
    <3>6. 0 + j = j
      BY <2>5
    <3> QED BY <1>2, <2>4, <3>4, <3>5, <3>6
  <2>7. s = t
    <3>1. IsSeq(s) /\ IsSeq(t)
      BY <2>1, <2>2, <2>4
    <3>2. IsFcn(s) /\ IsFcn(t)
      BY <3>1, SeqIsFcn
    <3>3. DOMAIN s = 1 .. Len(t) /\ DOMAIN t = 1 .. Len(t)
      BY <2>5, <3>1, SeqFacts
    <3> QED BY <2>6, <3>2, <3>3, FcnEqual
  <2> QED BY <2>4, <2>7
<1>7. h.kind = "other" => h = y
  BY <1>3
<1> QED BY <1>2, <1>3, <1>5, <1>6, <1>7

(* What a signed claim shows where it is the only one.                     *)
LEMMA FromJSONShows ==
    ASSUME NEW k, IsUnknown(k), NEW values \in Seq(Value), values # <<>>,
           NEW y, y = FromJSON(Typed(k, values)),
           NEW h, h.kind = y.kind, h.kind = "number" => h.n = y.n,
           h.kind = "list" => Items(h) = y.items, h.kind = "other" => h = y
    PROVE  Shows(h, k, values)
<1>1. CASE k.type = "[]string"
  <2>1. PICK t : t = [type |-> "[]string", items |-> values]
    OBVIOUS
  <2>2. y = FromJSON(t)
    BY <1>1, <2>1 DEF Typed
  <2>3. y = [kind |-> "list", items |-> values, spare |-> Spare(Len(values))]
    BY <2>1, <2>2 DEF FromJSON
  <2> QED BY <1>1, <2>3 DEF Shows
<1>2. CASE k.type # "[]string"
  <2>1. PICK type : type = IF k.type \in {"int", "bool", "float"} THEN k.type ELSE "string"
    OBVIOUS
  <2>2. y = FromJSON([type |-> type, value |-> values[1]])
    BY <1>2, <2>1 DEF Typed
  <2>3. CASE k.type = "int"
    <3>1. y = [kind |-> "number", n |-> Nearest(Integer[values[1]])]
      BY <2>1, <2>2, <2>3 DEF FromJSON
    <3>2. IsNearest(y.n, Integer[values[1]]) /\ y.kind = "number"
      BY <3>1, IntegerFacts
    <3> QED BY <2>3, <3>2 DEF Shows
  <2>4. CASE k.type = "float"
    <3>1. y = [kind |-> "number", n |-> Decimal[values[1]]]
      BY <2>1, <2>2, <2>4 DEF FromJSON
    <3> QED BY <2>4, <3>1 DEF Shows
  <2>5. CASE k.type = "bool"
    <3>1. y = [kind |-> "other", v |-> Truth[values[1]]]
      BY <2>1, <2>2, <2>5 DEF FromJSON
    <3> QED BY <2>5, <3>1 DEF Shows
  <2>6. CASE k.type \notin {"int", "float", "bool"}
    <3>1. y = [kind |-> "other", v |-> values[1]]
      BY <2>1, <2>2, <2>6 DEF FromJSON
    <3> QED BY <1>2, <2>6, <3>1 DEF Shows
  <2> QED BY <2>3, <2>4, <2>5, <2>6
<1> QED BY <1>1, <1>2

LEMMA ServedAsAsked ==
    ArrayInv /\ AnswerInv /\ OrderInv /\ SignInv => GeneratedIsServed
<1> SUFFICES ASSUME ArrayInv, AnswerInv, OrderInv, SignInv, NEW r \in Request, pc[r] = "done",
                    NamedOnce(form),
                    \A k \in DOMAIN form : k.to = "claim" => k.claim # ExclusiveClaim,
                    Len(files) > Len(Issued), lists[list[r]] = <<files[Len(files)]>>,
                    NEW k \in DOMAIN form, k.to = "claim", k.product \in wanted[r]
             PROVE  /\ k.product \in DOMAIN entries[r]
                    /\ IsUnknown(k) => Shows(entries[r][k.product].claims[k.claim], k, form[k])
  <2>1. \A k : IsUnknown(k) => k.to = "claim"
    BY DEF IsUnknown
  <2> QED BY <2>1, Zenon DEF GeneratedIsServed
<1>1. PICK l, x, p : /\ l = lists[list[r]] /\ x = LicenseOf(made, Len(files)) /\ p = k.product
  OBVIOUS
<1>2. outcome = "ok" /\ files[Len(files)] = x
  BY <1>1 DEF SignInv
<1>3. Len(l) = 1 /\ DOMAIN l = {1} /\ l[1] = x
  BY <1>1, <1>2
<1>4. Yields(made, form, DOMAIN form)
  BY <1>2 DEF OrderInv, ReadKeys
<1>5. /\ p \in DOMAIN made.products /\ ProductIs(made.products[p], p, form, DOMAIN form)
      /\ DOMAIN x.products = DOMAIN made.products
      /\ x.products[p] = UnmarshalJSON(made.products[p])
  <2>1. p \in DOMAIN made.products
    BY <1>1, <1>4 DEF Yields
  <2>2. ProductIs(made.products[p], p, form, DOMAIN form)
    BY <1>4, <2>1 DEF Yields
  <2>3. x.products = [q \in DOMAIN made.products |-> UnmarshalJSON(made.products[q])]
    BY <1>1 DEF LicenseOf
  <2> QED BY <2>1, <2>2, <2>3
<1>6. PICK u : u = made.products[p].unknown
  OBVIOUS
<1>7. ExclusiveClaim \notin DOMAIN u
  <2>1. \A c : c \in DOMAIN u <=>
           \E j \in DOMAIN form : IsUnknown(j) /\ j.product = p /\ j.claim = c
    BY <1>5, <1>6 DEF ProductIs
  <2> QED BY <2>1 DEF IsUnknown
<1>8. /\ x.products[p].exclusive = (ExclusiveClaim \in DOMAIN u)
      /\ x.products[p].claims = [c \in DOMAIN u \ {ExclusiveClaim} |-> FromJSON(u[c])]
  BY <1>5, <1>6 DEF UnmarshalJSON
<1>9. Counts(x, p)
  BY <1>5, <1>7, <1>8 DEF Counts
<1>10. AnswerIsAggregate
  BY AnsweredIsAggregate
<1>11. /\ DOMAIN entries[r] = wanted[r] \cap UNION {DOMAIN l[i].products : i \in DOMAIN l}
       /\ \A q \in DOMAIN entries[r] : IsEntry(entries[r][q], l, q, 1)
  <2>1. /\ DOMAIN entries[r] = wanted[r] \cap
              UNION {DOMAIN lists[list[r]][i].products : i \in DOMAIN lists[list[r]]}
        /\ \A q \in DOMAIN entries[r] :
              IsEntry(entries[r][q], lists[list[r]], q, Len(lists[list[r]]))
    BY <1>10, Zenon DEF AnswerIsAggregate
  <2> QED BY <1>1, <1>3, <2>1, Zenon
<1>12. p \in DOMAIN entries[r]
  <2>1. p \in UNION {DOMAIN l[i].products : i \in DOMAIN l}
    BY <1>3, <1>5
  <2> QED BY <1>1, <1>11, <2>1
<1>13. ASSUME IsUnknown(k) PROVE Shows(entries[r][p].claims[k.claim], k, form[k])
  <2>1. PICK c, y, e : c = k.claim /\ y = FromJSON(Typed(k, form[k])) /\ e = entries[r][p]
    OBVIOUS
  <2>2. c \in DOMAIN u /\ u[c] = Typed(k, form[k])
    BY <1>1, <1>5, <1>6, <1>13, <2>1 DEF ProductIs
  <2>3. c \in DOMAIN x.products[p].claims /\ x.products[p].claims[c] = y
    BY <1>7, <1>8, <2>1, <2>2
  <2>4. PICK v : v = ValuesOf(l, p, c)
    OBVIOUS
  <2>5. DOMAIN v = {1} /\ v[1] = y
    <3>1. DOMAIN v = {i \in DOMAIN l : Counts(l[i], p) /\ c \in DOMAIN l[i].products[p].claims}
      BY <2>4 DEF ValuesOf
    <3>2. \A i \in DOMAIN v : v[i] = l[i].products[p].claims[c]
      BY <2>4 DEF ValuesOf
    <3>3. DOMAIN v = {1}
      BY <1>3, <1>9, <2>3, <3>1
    <3> QED BY <1>3, <2>3, <3>2, <3>3
  <2>6. IsEntry(e, l, p, 1)
    BY <1>11, <1>12, <2>1
  <2>7. c \in DOMAIN e.claims
    <3>1. Counting(l, p, 1) = {1}
      BY <1>3, <1>9 DEF Counting
    <3>2. DOMAIN e.claims = UNION {DOMAIN l[i].products[p].claims : i \in {1}}
      BY <2>6, <3>1, Zenon DEF IsEntry
    <3> QED BY <1>3, <2>3, <3>2
  <2>8. PICK h : h = e.claims[c]
    OBVIOUS
  <2>9. IsAggregate(h, v, 1)
    BY <2>4, <2>6, <2>7, <2>8, Zenon DEF IsEntry
  <2>10. HeldType(h)
    <3>1. EntryFits(e, list[r], p, Passed(r, p))
      BY <1>12, <2>1, HeldOf
    <3> QED BY <2>7, <2>8, <3>1 DEF EntryFits, HeldFits
  <2>11. IsClaim(y)
    <3>1. list[r] \in DOMAIN lists
      BY DEF ArrayInv, RequestInv
    <3>2. IsLicense(x)
      BY <1>1, <1>3, <3>1 DEF ArrayInv, LicensesInv
    <3> QED BY <1>5, <2>3, <3>2 DEF IsLicense
  <2>12. /\ h.kind = y.kind /\ (h.kind = "number" => h.n = y.n)
         /\ h.kind = "list" => Items(h) = y.items
         /\ h.kind = "other" => h = y
    BY <2>5, <2>9, <2>10, <2>11, OneIsAggregate
  <2>13. form[k] \in Seq(Value) /\ form[k] # <<>>
    BY FormFacts DEF ArrayInv
  <2>14. Shows(h, k, form[k])
    BY <1>13, <2>1, <2>12, <2>13, FromJSONShows
  <2> QED BY <2>1, <2>8, <2>14
<1> QED BY <1>1, <1>12, <1>13

(* A generated claim is answered with its kind and the value the form gave *)
(* it, an integer with the nearest float64, over the signed file, its      *)
(* decoding and the aggregation, once its license is the only active one   *)
(* (license/claims-gen.go:34-114, license/license.go:24-66,                *)
(* server/handlers.go:186-330).                                            *)
THEOREM GeneratedClaimsAreServed == Spec => []GeneratedIsServed
<1> DEFINE Inv == ArrayInv /\ WantedInv /\ AnswerInv /\ OrderInv /\ SignInv
<1>1. Init => Inv
  BY ArrayStart, WantedStart, AnswerStart, OrderStart, SignStart
<1>2. Inv /\ [Next]_claimsVars => Inv'
  <2> SUFFICES ASSUME Inv, [Next]_claimsVars PROVE Inv'
    OBVIOUS
  <2>1. ArrayInv' /\ WantedInv'
    BY ArrayStep, WantedStep
  <2>2. AnswerInv'
    BY <2>1, AnswerStep
  <2>3. OrderInv' /\ SignInv'
    BY OrderStep, SignStep DEF ArrayInv
  <2> QED BY <2>1, <2>2, <2>3
<1>3. Inv => GeneratedIsServed
  BY ServedAsAsked
<1> QED BY <1>1, <1>2, <1>3, PTL DEF Spec
=============================================================================
