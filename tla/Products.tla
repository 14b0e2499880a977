------------------------------ MODULE Products ------------------------------
(***************************************************************************)
(* ClaimsKopanoProductsHandler (server/handlers.go:186-330): requests that *)
(* run side by side aggregate the active licenses, the older before the    *)
(* newer, into one entry for each product.                                 *)
(*                                                                         *)
(* A license is a record                                                   *)
(*   exp, dn    expiry and display name ("sin" is treated like "dn")       *)
(*   products   function from product names to [claims, exclusive]         *)
(* with the decoded product claims other than "lid" and whether there is   *)
(* an "exclusive" one among them.  A decoded claim has a kind: "number"    *)
(* with n, "list" with items and spare, the free slots of its array, or    *)
(* "other" with v.  Every number is a float64.                             *)
(*                                                                         *)
(* Requests share the arrays of decoded lists: append (handlers.go:295)    *)
(* writes to free slots in place, without a lock.                          *)
(***************************************************************************)
EXTENDS Naturals, FiniteSets, Sequences, SequencesExt

CONSTANTS
    Request,    \* requests of the handler
    Product,    \* product names
    Claim,      \* names of product claims
    Item,       \* texts: what may be in a list, or else the value of a claim
    Float,      \* float64 values
    Finite,     \* those that JSON can carry: neither infinite nor NaN
    Plus,       \* [Float \X Float -> Float]: the sum, rounded
    Free,       \* content of a slot nobody has written
    Own,        \* instead of an array: one that a request made for itself
    NoName      \* dn == ""

ASSUME ProductsAssumption ==
    /\ Finite \subseteq Float /\ Plus \in [Float \X Float -> Float]
    /\ Free \notin Item
    /\ Own \notin Nat \X Nat \X Product \X Claim

IsClaim(v) ==
    \/ v \in [kind : {"number"}, n : Finite]
    \/ v \in [kind : {"other"}, v : Item]
    \/ v \in [kind : {"list"}, items : Seq(Item), spare : Nat]

IsLicense(l) ==
    /\ l.exp \in Nat
    /\ l.dn \in Item \cup {NoName}
    /\ \A p \in DOMAIN l.products :
          /\ p \in Product
          /\ l.products[p].exclusive \in BOOLEAN
          /\ \A k \in DOMAIN l.products[p].claims : k \in Claim /\ IsClaim(l.products[p].claims[k])

VARIABLES
    lists,      \* s.claims over time: the last one is active
    mem,        \* [array -> slots]; <<g, i, p, k>> decoded in list g, license i
    pc,         \* [Request -> "off", "run", "done" or "failed"]
    wanted,     \* [Request -> productFilter]
    list,       \* [Request -> position of its claims in lists]
    at,         \* [Request -> license of the outer loop]
    left,       \* [Request -> products the inner loop has not visited]
    entries     \* [Request -> response.Products]

requestVars == <<pc, wanted, list, at, left, entries>>
productsVars == <<lists, mem, requestVars>>

License(r) == lists[list[r]][at[r]]

---------------------------------------------------------------------------
(* A slice is an array with a length.                                      *)
Items(s) == IF s.array = Own THEN s.items
            ELSE [j \in 1 .. s.len |-> mem[s.array][j]]

Capacity(a) == Len(mem[a])

(* The m-th of some positions.                                             *)
Nth(S, m) == CHOOSE j \in S : Cardinality({i \in S : i <= j}) = m

(* What of a list is not in the slice: the cache knows only what was there *)
(* before, so that an item the list has twice is added twice.              *)
Missing(s, items) ==
    LET new == {j \in DOMAIN items : items[j] \notin ToSet(Items(s))}
    IN  [m \in 1 .. Cardinality(new) |-> items[Nth(new, m)]]

Appended(s, add) ==
    IF add = <<>> THEN s
    ELSE IF s.array # Own /\ s.len + Len(add) <= Capacity(s.array)
         THEN [s EXCEPT !.len = @ + Len(add)]
         ELSE [kind |-> "list", array |-> Own, len |-> 0, items |-> Items(s) \o add]

(* Mutant: the first append goes to the last slot that is in use.          *)
SlotsOverwritten(s, add) ==
    [j \in 1 .. Capacity(s.array) |->
        IF j < s.len \/ j >= s.len + Len(add) THEN mem[s.array][j]
        ELSE add[j - s.len + 1]]

(* One append after the other: those that find room are made in place,     *)
(* also when a later one moves the slice to a larger array.                *)
Slots(s, add) ==
    [j \in 1 .. Capacity(s.array) |->
        IF j <= s.len \/ j > s.len + Len(add) THEN mem[s.array][j]
        ELSE add[j - s.len]]

---------------------------------------------------------------------------
(* The value of a license in an entry; a list stays where it was decoded.  *)
Held(value, a) ==
    IF value.kind = "list"
    THEN [kind |-> "list", array |-> a, len |-> Len(value.items), items |-> <<>>]
    ELSE value

Lists(have, value) == have.kind = "list" /\ value.kind = "list"

(* Mutant: a value of another type does not replace the older one.         *)
MergedKeepsOlder(have, value, a) ==
    IF have.kind = "number" /\ value.kind = "number"
    THEN [have EXCEPT !.n = Plus[<<@, value.n>>]]
    ELSE IF Lists(have, value) THEN Appended(have, Missing(have, value.items))
    ELSE IF have.kind = value.kind THEN Held(value, a) ELSE have

(* Numbers add up, lists are united, of all else the newer one wins.       *)
Merged(have, value, a) ==
    IF have.kind = "number" /\ value.kind = "number"
    THEN [have EXCEPT !.n = Plus[<<@, value.n>>]]
    ELSE IF Lists(have, value) THEN Appended(have, Missing(have, value.items))
    ELSE Held(value, a)

NewEntry == [claims |-> <<>>, expiry |-> <<>>, dn |-> <<>>]

EntryOf(r, p) == IF p \in DOMAIN entries[r] THEN entries[r][p] ELSE NewEntry

WithEntry(r, p, e) ==
    [q \in DOMAIN entries[r] \cup {p} |-> IF q = p THEN e ELSE entries[r][q]]

AppendIfMissing(s, x) == IF x \in ToSet(s) THEN s ELSE Append(s, x)

(* The arrays that decoding the licenses of list g has made.               *)
Decoded(l, g) ==
    LET IsList(a) == /\ a[3] \in DOMAIN l[a[2]].products
                     /\ a[4] \in DOMAIN l[a[2]].products[a[3]].claims
                     /\ l[a[2]].products[a[3]].claims[a[4]].kind = "list"
        value(a) == l[a[2]].products[a[3]].claims[a[4]]
    IN  [a \in {a \in {g} \X (DOMAIN l) \X Product \X Claim : IsList(a)} |->
            [j \in 1 .. Len(value(a).items) + value(a).spare |->
                IF j <= Len(value(a).items) THEN value(a).items[j] ELSE Free]]

---------------------------------------------------------------------------
ProductsInit ==
    /\ lists = <<>>
    /\ mem = <<>>
    /\ pc = [r \in Request |-> "off"]
    /\ wanted = [r \in Request |-> Product]
    /\ list = [r \in Request |-> 0]
    /\ at = [r \in Request |-> 0]
    /\ left = [r \in Request |-> {}]
    /\ entries = [r \in Request |-> <<>>]

(* The license goroutine replaces s.claims; every scan decodes anew.       *)
Publish(l) ==
    /\ lists' = Append(lists, l)
    /\ LET new == Decoded(l, Len(lists'))
       IN  mem' = [a \in DOMAIN mem \cup DOMAIN new |->
                      IF a \in DOMAIN mem THEN mem[a] ELSE new[a]]
    /\ UNCHANGED requestVars

(* Mutant: the loop ranges over s.claims itself.                           *)
ReadNoCopy(r) ==
    /\ pc[r] = "off"
    /\ lists # <<>>
    /\ pc' = [pc EXCEPT ![r] = "run"]
    /\ \E filter \in SUBSET Product : wanted' = [wanted EXCEPT ![r] = filter]
    /\ UNCHANGED <<lists, mem, list, at, left, entries>>

(* Past readyCh, claims are read in a critical section of their own.       *)
(* Without "product" in the form every product is wanted.                  *)
Read(r) ==
    /\ pc[r] = "off"
    /\ lists # <<>>
    /\ pc' = [pc EXCEPT ![r] = "run"]
    /\ \E filter \in SUBSET Product : wanted' = [wanted EXCEPT ![r] = filter]
    /\ list' = [list EXCEPT ![r] = Len(lists)]
    /\ UNCHANGED <<lists, mem, at, left, entries>>

NextLicense(r) ==
    /\ pc[r] = "run"
    /\ left[r] = {}
    /\ at[r] < Len(lists[list[r]])
    /\ at' = [at EXCEPT ![r] = @ + 1]
    /\ left' = [left EXCEPT ![r] = DOMAIN lists[list[r]][at[r] + 1].products]
    /\ UNCHANGED <<lists, mem, pc, wanted, list, entries>>

(* The inner loop takes the products of a license in any order.            *)
Visit(r, p) ==
    /\ pc[r] = "run"
    /\ p \in left[r]
    /\ left' = [left EXCEPT ![r] = @ \ {p}]
    /\ UNCHANGED <<lists, pc, wanted, list, at>>

SkipUnwanted(r, p) ==
    /\ Visit(r, p)
    /\ p \notin wanted[r]
    /\ UNCHANGED <<mem, entries>>

(* An "exclusive" claim was decoded to a []interface{} or to no list at    *)
(* all, which the assertion to []string does not accept.  The entry is     *)
(* there by then.                                                          *)
SkipExclusive(r, p) ==
    /\ Visit(r, p)
    /\ p \in wanted[r]
    /\ License(r).products[p].exclusive
    /\ entries' = [entries EXCEPT ![r] = WithEntry(r, p, EntryOf(r, p))]
    /\ UNCHANGED mem

Aggregate(r, p) ==
    /\ Visit(r, p)
    /\ p \in wanted[r]
    /\ ~License(r).products[p].exclusive
    /\ LET l == License(r)
           e == EntryOf(r, p)
           values == l.products[p].claims
           ArrayOf(k) == <<list[r], at[r], p, k>>
           Extended(k) == k \in DOMAIN e.claims /\ Lists(e.claims[k], values[k])
           touched == {k \in DOMAIN values : Extended(k) /\ e.claims[k].array # Own}
       IN  /\ entries' = [entries EXCEPT ![r] = WithEntry(r, p,
                 [claims |-> [k \in DOMAIN e.claims \cup DOMAIN values |->
                                 IF k \notin DOMAIN values THEN e.claims[k]
                                 ELSE IF k \notin DOMAIN e.claims
                                      THEN Held(values[k], ArrayOf(k))
                                      ELSE Merged(e.claims[k], values[k], ArrayOf(k))],
                  expiry |-> Append(e.expiry, l.exp),
                  dn |-> IF l.dn = NoName THEN e.dn ELSE AppendIfMissing(e.dn, l.dn)])]
           /\ mem' = [a \in DOMAIN mem |->
                         IF \E k \in touched : e.claims[k].array = a
                         THEN LET k == CHOOSE k \in touched : e.claims[k].array = a
                              IN  Slots(e.claims[k], Missing(e.claims[k], values[k].items))
                         ELSE mem[a]]

(* A sum may have left what JSON can carry.                                *)
Encodable(r) ==
    \A p \in DOMAIN entries[r] : \A k \in DOMAIN entries[r][p].claims :
        LET h == entries[r][p].claims[k] IN h.kind = "number" => h.n \in Finite

LoopEnds(r) ==
    /\ pc[r] = "run"
    /\ left[r] = {}
    /\ at[r] = Len(lists[list[r]])
    /\ UNCHANGED <<lists, mem, wanted, list, at, left, entries>>

Respond(r) ==
    /\ LoopEnds(r)
    /\ Encodable(r)
    /\ pc' = [pc EXCEPT ![r] = "done"]

(* The error of the encoder is logged, the answer is 200 and empty.        *)
RespondFails(r) ==
    /\ LoopEnds(r)
    /\ ~Encodable(r)
    /\ pc' = [pc EXCEPT ![r] = "failed"]

RequestNext(r) ==
    \/ Read(r) \/ NextLicense(r) \/ Respond(r) \/ RespondFails(r)
    \/ \E p \in Product : SkipUnwanted(r, p) \/ SkipExclusive(r, p) \/ Aggregate(r, p)

---------------------------------------------------------------------------
EntryType(e) ==
    /\ e.expiry \in Seq(Nat)
    /\ \A k \in DOMAIN e.claims :
          /\ k \in Claim /\ e.claims[k].kind \in {"number", "list", "other"}
          /\ e.claims[k].kind = "number" => e.claims[k].n \in Float

ProductsTypeOK ==
    /\ \A g \in DOMAIN lists : \A i \in DOMAIN lists[g] : IsLicense(lists[g][i])
    /\ \A a \in DOMAIN mem : \A j \in DOMAIN mem[a] : mem[a][j] \in Item \cup {Free}
    /\ pc \in [Request -> {"off", "run", "done", "failed"}]
    /\ wanted \in [Request -> SUBSET Product]
    /\ list \in [Request -> 0 .. Len(lists)]
    /\ \A r \in Request :
         /\ pc[r] = "off" <=> list[r] = 0
         /\ at[r] \in Nat /\ left[r] \subseteq Product
         /\ list[r] > 0 => at[r] <= Len(lists[list[r]])
         /\ \A p \in DOMAIN entries[r] : EntryType(entries[r][p])

(* Of the first n licenses those whose claims count for a product, and the *)
(* values of a claim by license.                                           *)
Counts(x, p) == p \in DOMAIN x.products /\ ~x.products[p].exclusive

Counting(l, p, n) == {i \in 1 .. n : Counts(l[i], p)}

ValuesOf(l, p, k) ==
    [i \in {i \in DOMAIN l : Counts(l[i], p) /\ k \in DOMAIN l[i].products[p].claims} |->
        l[i].products[p].claims[k]]

(* Of the values those count that follow the last change of their type.    *)
Counted(v, n) ==
    {i \in DOMAIN v : /\ i <= n
                      /\ \A j \in DOMAIN v : i <= j /\ j <= n => v[j].kind = v[i].kind}

(* Positions of what a license has that none before it has.                *)
Before(C, i) == {j \in C : j < i}

Fresh(v, C, i) ==
    {m \in DOMAIN v[i].items : \A j \in Before(C, i) : v[i].items[m] \notin ToSet(v[j].items)}

AllFresh(v, C) == UNION {{i} \X Fresh(v, C, i) : i \in C}

(* The lists united: license by license the items none before it has.      *)
IsUnion(s, v, C) ==
    /\ ToSet(s) = UNION {ToSet(v[i].items) : i \in C}
    /\ Len(s) = Cardinality(AllFresh(v, C))
    /\ \A i \in C :
          LET start == Cardinality(AllFresh(v, Before(C, i)))
              new == Fresh(v, C, i)
          IN  \A m \in 1 .. Cardinality(new) : s[start + m] = v[i].items[Nth(new, m)]

(* Numbers are added up from the oldest on; part has the sums on the way,  *)
(* each of them rounded.                                                   *)
IsSum(x, v, C) ==
    \E part \in [C -> Float] :
        /\ \A i \in C : LET earlier == Before(C, i)
                       IN  part[i] = IF earlier = {} THEN v[i].n
                                     ELSE Plus[<<part[Max(earlier)], v[i].n>>]
        /\ x = part[Max(C)]

IsAggregate(h, v, n) ==
    LET C == Counted(v, n)
    IN  \E last \in C :
          /\ \A i \in C : i <= last
          /\ h.kind = v[last].kind
          /\ CASE h.kind = "number" -> IsSum(h.n, v, C)
               [] h.kind = "list" -> IsUnion(Items(h), v, C)
               [] OTHER -> h = v[last]

IsEntry(e, l, p, n) ==
    LET used == Counting(l, p, n)
    IN  /\ e.expiry = [m \in 1 .. Cardinality(used) |-> l[Nth(used, m)].exp]
        /\ ToSet(e.dn) = {l[i].dn : i \in used} \ {NoName}
        /\ IsInjective(e.dn)
        /\ DOMAIN e.claims = UNION {DOMAIN l[i].products[p].claims : i \in used}
        /\ \A k \in DOMAIN e.claims : IsAggregate(e.claims[k], ValuesOf(l, p, k), n)

(* What a request answers is the aggregate of the one list of licenses it  *)
(* read, whatever is published and whoever aggregates meanwhile: for each  *)
(* wanted product of that list the claims of its licenses without          *)
(* "exclusive", and their expiries and names (handlers.go:186-330).        *)
AnswerIsAggregate ==
    \A r \in Request : pc[r] = "done" =>
        LET l == lists[list[r]]
        IN  /\ DOMAIN entries[r] = wanted[r] \cap UNION {DOMAIN l[i].products : i \in DOMAIN l}
            /\ \A p \in DOMAIN entries[r] : IsEntry(entries[r][p], l, p, Len(l))

(* The published claims are read by other handlers and by later requests   *)
(* without a lock: no request changes what they show (handlers.go:295).    *)
PublishedStays ==
    \A g \in DOMAIN lists : \A i \in DOMAIN lists[g] : \A p \in DOMAIN lists[g][i].products :
        LET claims == lists[g][i].products[p].claims
        IN  \A k \in DOMAIN claims : claims[k].kind = "list" =>
                \A j \in DOMAIN claims[k].items : mem[<<g, i, p, k>>][j] = claims[k].items[j]

(* "When such a claim is exclusive, all other licenses for the same        *)
(* product claim must have the exact same value as the license claim value *)
(* for the oldest valid license defining that product claim as exclusive"  *)
(* (docs/kopano-licenses.md:117-123): the only license of a product is     *)
(* activated with or without such a claim.                                 *)
OnlyLicenseIsActivated ==
    \A r \in Request : pc[r] = "done" =>
        LET l == lists[list[r]]
        IN  \A p \in wanted[r] :
              LET with == SelectSeq(l, LAMBDA x : p \in DOMAIN x.products)
              IN  Len(with) = 1 => entries[r][p].expiry = <<with[1].exp>>
=============================================================================
