---------------------------- MODULE ClaimsProofs ----------------------------
(***************************************************************************)
(* Theorems about Claims, for any forms, licenses and requests.            *)
(***************************************************************************)
EXTENDS Claims, FiniteSetTheorems, TLAPS

---------------------------------------------------------------------------
(* The generator.  Whatever is among the claims of a product came from a   *)
(* key of the form, and is a []string if and only if that key says so.     *)
Makes(k, p, c, type) ==
    /\ IsUnknown(k) /\ k.product = p /\ k.claim = c
    /\ type = "[]string" <=> Multi(k)

MadeFrom ==
    \A p \in DOMAIN made.products : \A c \in DOMAIN made.products[p].unknown :
        \E k \in DOMAIN form : Makes(k, p, c, made.products[p].unknown[c].type)

Shaped ==
    /\ "products" \in DOMAIN made
    /\ \A p \in DOMAIN made.products : "unknown" \in DOMAIN made.products[p]

GenInv ==
    /\ outcome = "idle" => made.products = <<>>
    /\ unread \subseteq DOMAIN form
    /\ outcome = "ok" => EncodableClaims(made)
    /\ Shaped /\ MadeFrom
    /\ PanicNeedsMixedTypes

LEMMA GenStart == Init => GenInv
<1> SUFFICES ASSUME Init PROVE GenInv
  OBVIOUS
<1>1. outcome = "idle" /\ made.products = <<>> /\ unread = {} /\ "products" \in DOMAIN made
  BY DEF Init, GenInit
<1> QED BY <1>1 DEF GenInv, Shaped, MadeFrom, PanicNeedsMixedTypes

LEMMA TypedFacts ==
    ASSUME NEW k, NEW values
    PROVE  Typed(k, values).type = "[]string" <=> k.type = "[]string"
<1>1. CASE k.type = "[]string"
  BY <1>1 DEF Typed
<1>2. CASE k.type # "[]string"
  <2>1. Typed(k, values).type = (IF k.type \in {"int", "bool", "float"} THEN k.type ELSE "string")
    BY <1>2 DEF Typed
  <2> QED BY <1>2, <2>1
<1> QED BY <1>1, <1>2

(* What a product has before a key for it is read.                         *)
LEMMA OldClaims ==
    ASSUME GenInv, NEW p, NEW c \in DOMAIN ProductOf(made, p).unknown
    PROVE  /\ p \in DOMAIN made.products /\ ProductOf(made, p) = made.products[p]
           /\ c \in DOMAIN made.products[p].unknown
<1>1. NoProduct.unknown = <<>>
  BY DEF NoProduct
<1>2. p \in DOMAIN made.products
  BY <1>1 DEF ProductOf
<1> QED BY <1>2 DEF ProductOf

LEMMA ProductClaimStep ==
    ASSUME GenInv, NEW k \in unread, ProductClaim(k)
    PROVE  Shaped' /\ MadeFrom'
<1> DEFINE old == ProductOf(made, k.product)
           have == IF k.claim \in DOMAIN old.unknown /\ Multi(k)
                   THEN old.unknown[k.claim].items ELSE <<>>
           typed == Typed(k, have \o form[k])
           new == IF k.claim = "lid" THEN [old EXCEPT !.lid = form[k][1]]
                  ELSE IF k.claim = "" THEN old
                  ELSE [old EXCEPT !.unknown = Put(@, k.claim, typed)]
<1>1. /\ made' = [made EXCEPT !.products = Put(@, k.product, new)]
      /\ form' = form /\ k.to = "claim" /\ k \in DOMAIN form
  BY Zenon DEF ProductClaim, Visited, GenInv
<1>2. "unknown" \in DOMAIN old
  BY DEF GenInv, Shaped, ProductOf, NoProduct
<1>3. "unknown" \in DOMAIN new
  BY <1>2
<1>4. new.unknown = IF k.claim \in {"lid", ""} THEN old.unknown
                    ELSE Put(old.unknown, k.claim, typed)
  BY <1>2
<1>5. typed.type = "[]string" <=> k.type = "[]string"
  BY TypedFacts
<1> HIDE DEF old, typed, new
<1>6. made'.products = Put(made.products, k.product, new) /\ "products" \in DOMAIN made'
  BY <1>1 DEF GenInv, Shaped
<1>7. \A p \in DOMAIN made'.products :
         IF p = k.product THEN made'.products[p] = new
         ELSE p \in DOMAIN made.products /\ made'.products[p] = made.products[p]
  BY <1>6 DEF Put
<1>8. Shaped'
  BY <1>3, <1>6, <1>7 DEF GenInv, Shaped
<1>9. MadeFrom'
  <2> SUFFICES ASSUME NEW p \in DOMAIN made'.products,
                      NEW c \in DOMAIN made'.products[p].unknown
               PROVE  \E j \in DOMAIN form : Makes(j, p, c, made'.products[p].unknown[c].type)
    BY <1>1, Zenon DEF MadeFrom
  <2>1. CASE p # k.product
    BY <1>7, <2>1 DEF GenInv, MadeFrom
  <2>2. CASE p = k.product /\ c \in DOMAIN old.unknown
             /\ made'.products[p].unknown[c] = old.unknown[c]
    <3>1. p \in DOMAIN made.products /\ old = made.products[p]
          /\ c \in DOMAIN made.products[p].unknown
      BY <2>2, OldClaims, Zenon DEF old
    <3> QED BY <2>2, <3>1 DEF GenInv, MadeFrom
  <2>3. CASE p = k.product /\ k.claim \notin {"lid", ""} /\ c = k.claim
    <3>1. made'.products[p].unknown[c] = typed
      BY <1>4, <1>7, <2>3 DEF Put
    <3>2. Makes(k, p, c, typed.type)
      BY <1>1, <1>5, <2>3 DEF Makes, IsUnknown, Multi
    <3> QED BY <1>1, <3>1, <3>2
  <2>4. CASE p = k.product
    <3>1. c \in DOMAIN new.unknown /\ made'.products[p].unknown[c] = new.unknown[c]
      BY <1>7, <2>4
    <3>2. \/ c \in DOMAIN old.unknown /\ new.unknown[c] = old.unknown[c]
          \/ k.claim \notin {"lid", ""} /\ c = k.claim
      <4>1. CASE k.claim \in {"lid", ""}
        BY <1>4, <3>1, <4>1, Zenon
      <4>2. CASE k.claim \notin {"lid", ""}
        <5>1. new.unknown = Put(old.unknown, k.claim, typed)
          BY <1>4, <4>2, Zenon
        <5> QED BY <3>1, <4>2, <5>1 DEF Put
      <4> QED BY <4>1, <4>2
    <3>3. CASE c \in DOMAIN old.unknown /\ new.unknown[c] = old.unknown[c]
      BY <2>2, <2>4, <3>1, <3>3
    <3>4. CASE k.claim \notin {"lid", ""} /\ c = k.claim
      BY <2>3, <2>4, <3>4
    <3> QED BY <3>2, <3>3, <3>4
  <2> QED BY <2>1, <2>4
<1> QED BY <1>8, <1>9

LEMMA GenStep == GenInv /\ [Next]_claimsVars => GenInv'
<1> SUFFICES ASSUME GenInv, [Next]_claimsVars PROVE GenInv'
  OBVIOUS
<1>1. CASE UNCHANGED genVars
  BY <1>1 DEF genVars, GenInv, Shaped, MadeFrom, PanicNeedsMixedTypes
<1>2. CASE Generate
  <2>1. made.products = <<>> /\ made' = made /\ outcome' = "reading" /\ unread' = DOMAIN form'
    BY <1>2, Zenon DEF Generate, GenInv
  <2> QED BY <2>1 DEF GenInv, Shaped, MadeFrom, PanicNeedsMixedTypes
<1>3. CASE Return \/ EncodeFails
  <2>1. /\ UNCHANGED <<form, unread, made>> /\ outcome' \in {"ok", "unsent"}
        /\ outcome' = "ok" => EncodableClaims(made)
    BY <1>3, Zenon DEF Return, EncodeFails
  <2> QED BY <2>1 DEF GenInv, Shaped, MadeFrom, PanicNeedsMixedTypes
<1>4. ASSUME NEW k \in unread, TopClaim(k) PROVE GenInv'
  <2>1. /\ made' = [made EXCEPT ![k.to] = form[k][1]] /\ k.to \in {"uid", "dn", "sin"}
        /\ form' = form /\ unread' \subseteq unread /\ outcome' = "reading"
    BY <1>4, Zenon DEF TopClaim, Visited
  <2>2. made'.products = made.products /\ "products" \in DOMAIN made'
    BY <2>1 DEF GenInv, Shaped
  <2> QED BY <2>1, <2>2 DEF GenInv, Shaped, MadeFrom, PanicNeedsMixedTypes
<1>5. ASSUME NEW k \in unread, ProductClaim(k) PROVE GenInv'
  <2>1. form' = form /\ unread' \subseteq unread /\ outcome' = "reading"
    BY <1>5, Zenon DEF ProductClaim, Visited
  <2> QED BY <1>5, <2>1, ProductClaimStep, Zenon DEF GenInv, PanicNeedsMixedTypes
<1>6. ASSUME NEW k \in unread, RefuseKey(k) PROVE GenInv'
  <2>1. UNCHANGED <<form, made>> /\ unread' \subseteq unread /\ outcome' = "error"
    BY <1>6, Zenon DEF RefuseKey, Visited
  <2> QED BY <2>1 DEF GenInv, Shaped, MadeFrom, PanicNeedsMixedTypes
<1>7. ASSUME NEW k \in unread, Panic(k) PROVE GenInv'
  <2>1. /\ UNCHANGED <<form, made>> /\ unread' \subseteq unread /\ outcome' = "panic"
        /\ Multi(k) /\ k \in DOMAIN form
        /\ k.claim \in DOMAIN ProductOf(made, k.product).unknown
        /\ ProductOf(made, k.product).unknown[k.claim].type # "[]string"
    BY <1>7, Zenon DEF Panic, Visited, Mismatch, GenInv
  <2>2. PICK j \in DOMAIN form : /\ IsUnknown(j) /\ j.product = k.product
                                 /\ j.claim = k.claim /\ ~Multi(j)
    <3>1. /\ k.product \in DOMAIN made.products
          /\ k.claim \in DOMAIN made.products[k.product].unknown
          /\ made.products[k.product].unknown[k.claim].type # "[]string"
      BY <2>1, OldClaims
    <3> QED BY <3>1 DEF GenInv, MadeFrom, Makes
  <2>3. SameClaim(k, j)
    BY <2>1, <2>2 DEF SameClaim, Multi, IsUnknown
  <2>4. PanicNeedsMixedTypes'
    BY <2>1, <2>2, <2>3 DEF PanicNeedsMixedTypes
  <2> QED BY <2>1, <2>4 DEF GenInv, Shaped, MadeFrom
<1> QED BY <1>1, <1>2, <1>3, <1>4, <1>5, <1>6, <1>7, Zenon
        DEF Next, GenNext, Sign, PublishFiles, claimsVars

(* The generator panics only on a form with two keys for one claim, one of *)
(* them a []string and the other not (license/claims-gen.go:101-104).      *)
THEOREM PanicIsMixedTypes == Spec => []PanicNeedsMixedTypes
<1>1. GenInv => PanicNeedsMixedTypes
  BY DEF GenInv
<1> QED BY <1>1, GenStart, GenStep, PTL DEF Spec

---------------------------------------------------------------------------
(* Types of what is made and of the licenses that come of it.              *)
IsTyped(t) ==
    IF t.type = "[]string" THEN t.items \in Seq(Value)
    ELSE t.type \in {"int", "bool", "float", "string"} /\ t.value \in Value

MadeInv ==
    /\ form = <<>> \/ form \in Form
    /\ "products" \in DOMAIN made /\ "dn" \in DOMAIN made /\ made.dn \in Value \cup {""}
    /\ \A p \in DOMAIN made.products :
          /\ p \in Product /\ "unknown" \in DOMAIN made.products[p]
          /\ \A c \in DOMAIN made.products[p].unknown :
                /\ c \in Claim \cup {ExclusiveClaim}
                /\ IsTyped(made.products[p].unknown[c])

(* What FormAssumption says of the form that is read.                      *)
LEMMA FormFacts ==
    ASSUME MadeInv, NEW k \in DOMAIN form
    PROVE  /\ form[k] \in Seq(Value) /\ form[k] # <<>> /\ form[k][1] \in Value
           /\ k.to = "claim" => /\ k.product \in Product
                                /\ k.claim \in Claim \cup {"", "lid", ExclusiveClaim}
<1>1. form \in Form
  <2>1. form = <<>> \/ form \in Form
    BY Zenon DEF MadeInv
  <2>2. form # <<>>
    OBVIOUS
  <2> QED BY <2>1, <2>2
<1>2. form[k] \in Seq(Value) /\ form[k] # <<>>
  BY <1>1, FormAssumption
<1>3. form[k][1] \in Value
  BY <1>2
<1> QED BY <1>1, <1>2, <1>3, FormAssumption

LEMMA TypedIsTyped ==
    ASSUME NEW k, NEW values \in Seq(Value), values # <<>>
    PROVE  IsTyped(Typed(k, values))
<1>1. values[1] \in Value
  OBVIOUS
<1>2. CASE k.type = "[]string"
  BY <1>2 DEF Typed, IsTyped
<1>3. CASE k.type # "[]string"
  <2>1. Typed(k, values) =
           [type |-> IF k.type \in {"int", "bool", "float"} THEN k.type ELSE "string",
            value |-> values[1]]
    BY <1>3 DEF Typed
  <2> QED BY <1>1, <1>3, <2>1 DEF IsTyped
<1> QED BY <1>2, <1>3

LEMMA ProductClaimKeepsTypes ==
    ASSUME MadeInv, NEW k \in unread, unread \subseteq DOMAIN form, ProductClaim(k)
    PROVE  MadeInv'
<1> DEFINE old == ProductOf(made, k.product)
           have == IF k.claim \in DOMAIN old.unknown /\ Multi(k)
                   THEN old.unknown[k.claim].items ELSE <<>>
           typed == Typed(k, have \o form[k])
           new == IF k.claim = "lid" THEN [old EXCEPT !.lid = form[k][1]]
                  ELSE IF k.claim = "" THEN old
                  ELSE [old EXCEPT !.unknown = Put(@, k.claim, typed)]
<1>1. /\ made' = [made EXCEPT !.products = Put(@, k.product, new)]
      /\ form' = form /\ k.to = "claim" /\ k \in DOMAIN form /\ ~Mismatch(k)
  BY Zenon DEF ProductClaim, Visited
<1>2. /\ "unknown" \in DOMAIN old
      /\ \A c \in DOMAIN old.unknown : c \in Claim \cup {ExclusiveClaim} /\ IsTyped(old.unknown[c])
  <2>1. CASE k.product \in DOMAIN made.products
    BY <2>1 DEF MadeInv, ProductOf
  <2>2. CASE k.product \notin DOMAIN made.products
    BY <2>2 DEF ProductOf, NoProduct
  <2> QED BY <2>1, <2>2
<1>3. have \in Seq(Value)
  <2>1. CASE k.claim \in DOMAIN old.unknown /\ Multi(k)
    <3>1. old.unknown[k.claim].type = "[]string"
      BY <1>1, <2>1 DEF Mismatch
    <3> QED BY <1>2, <2>1, <3>1 DEF IsTyped
  <2> QED BY <2>1
<1>4. IsTyped(typed)
  <2>1. have \o form[k] \in Seq(Value) /\ have \o form[k] # <<>>
    <3>1. form[k] \in Seq(Value) /\ form[k] # <<>>
      BY <1>1, FormFacts
    <3>2. Len(form[k]) > 0 /\ Len(have \o form[k]) = Len(have) + Len(form[k])
      BY <1>3, <3>1
    <3> QED BY <1>3, <3>1, <3>2
  <2> QED BY <2>1, TypedIsTyped
<1>5. k.claim \notin {"lid", ""} => k.claim \in Claim \cup {ExclusiveClaim}
  BY <1>1, FormFacts
<1>6. k.product \in Product
  BY <1>1, FormFacts
<1> HIDE DEF old, have, typed
<1>7. /\ "unknown" \in DOMAIN new
      /\ \A c \in DOMAIN new.unknown : c \in Claim \cup {ExclusiveClaim} /\ IsTyped(new.unknown[c])
  <2>1. CASE k.claim \in {"lid", ""}
    BY <1>2, <2>1
  <2>2. CASE k.claim \notin {"lid", ""}
    <3>1. new.unknown = Put(old.unknown, k.claim, typed) /\ "unknown" \in DOMAIN new
      BY <1>2, <2>2
    <3> QED BY <1>2, <1>4, <1>5, <2>2, <3>1 DEF Put
  <2> QED BY <2>1, <2>2
<1> HIDE DEF new
<1>8. /\ made'.products = Put(made.products, k.product, new) /\ made'.dn = made.dn
      /\ "products" \in DOMAIN made' /\ "dn" \in DOMAIN made'
  BY <1>1 DEF MadeInv
<1>9. \A p \in DOMAIN made'.products :
         IF p = k.product THEN made'.products[p] = new
         ELSE p \in DOMAIN made.products /\ made'.products[p] = made.products[p]
  BY <1>8 DEF Put
<1>10. ASSUME NEW p \in DOMAIN made'.products
       PROVE  /\ p \in Product /\ "unknown" \in DOMAIN made'.products[p]
              /\ \A c \in DOMAIN made'.products[p].unknown :
                    c \in Claim \cup {ExclusiveClaim} /\ IsTyped(made'.products[p].unknown[c])
  <2>1. CASE p = k.product
    BY <1>6, <1>7, <1>9, <1>10, <2>1, Zenon
  <2>2. CASE p # k.product
    <3>1. p \in DOMAIN made.products /\ made'.products[p] = made.products[p]
      BY <1>9, <1>10, <2>2, Zenon
    <3> QED BY <3>1, Zenon DEF MadeInv
  <2> QED BY <2>1, <2>2
<1> QED BY <1>1, <1>8, <1>10, Zenon DEF MadeInv

LEMMA MadeKeepsTypes ==
    MadeInv /\ unread \subseteq DOMAIN form /\ (outcome = "idle" => made.products = <<>>)
        /\ [Next]_claimsVars => MadeInv'
<1> SUFFICES ASSUME MadeInv, unread \subseteq DOMAIN form, outcome = "idle" => made.products = <<>>,
                    [Next]_claimsVars
             PROVE  MadeInv'
  OBVIOUS
<1>1. CASE UNCHANGED <<form, made>>
  BY <1>1 DEF MadeInv
<1>2. CASE Generate
  <2>1. form' \in Form /\ made' = made
    BY <1>2, Zenon DEF Generate
  <2> QED BY <2>1 DEF MadeInv
<1>3. ASSUME NEW k \in unread, TopClaim(k) PROVE MadeInv'
  <2>1. /\ made' = [made EXCEPT ![k.to] = form[k][1]] /\ k.to \in {"uid", "dn", "sin"}
        /\ form' = form /\ form[k][1] \in Value
    BY <1>3, FormFacts, Zenon DEF TopClaim, Visited
  <2>2. /\ made'.products = made.products /\ "products" \in DOMAIN made'
        /\ "dn" \in DOMAIN made' /\ made'.dn \in Value \cup {""}
    BY <2>1 DEF MadeInv
  <2> QED BY <2>1, <2>2 DEF MadeInv
<1>4. \/ UNCHANGED <<form, made>> \/ Generate
      \/ \E k \in unread : TopClaim(k) \/ ProductClaim(k)
  BY Zenon DEF Next, GenNext, Return, EncodeFails, RefuseKey, Panic, Visited, Sign, PublishFiles, genVars,
               claimsVars
<1> QED BY <1>1, <1>2, <1>3, <1>4, ProductClaimKeepsTypes

---------------------------------------------------------------------------
(* Licenses.                                                               *)
IsSeq(s) == \E S : s \in Seq(S)

LEMMA SeqFacts ==
    ASSUME NEW s, IsSeq(s)
    PROVE  Len(s) \in Nat /\ DOMAIN s = 1 .. Len(s)
BY DEF IsSeq

LEMMA AppendFacts ==
    ASSUME NEW s, IsSeq(s), NEW x
    PROVE  /\ IsSeq(Append(s, x))
           /\ Len(Append(s, x)) = Len(s) + 1
           /\ DOMAIN Append(s, x) = 1 .. Len(s) + 1
           /\ \A n \in 1 .. Len(s) : Append(s, x)[n] = s[n]
           /\ Append(s, x)[Len(s) + 1] = x
<1>1. PICK S : s \in Seq(S)
  BY DEF IsSeq
<1>2. s \in Seq(S \cup {x}) /\ x \in S \cup {x}
  BY <1>1
<1>3. Append(s, x) \in Seq(S \cup {x})
  BY <1>2
<1> QED BY <1>2, <1>3 DEF IsSeq

LEMMA SpareIsNat ==
    ASSUME NEW n \in Nat
    PROVE  Spare(n) \in Nat
<1> DEFINE free == {c \in n + 1 .. 2 * n : {2 ^ e : e \in 0 .. n} \cap (n .. c - 1) = {}}
<1>1. n + 1 \in Int /\ 2 * n \in Int
  OBVIOUS
<1>2. IsFiniteSet(n + 1 .. 2 * n)
  BY <1>1, FS_Interval
<1>3. IsFiniteSet(free)
  BY <1>2, FS_Subset
<1>4. Cardinality(free) \in Nat
  BY <1>3, FS_CardinalityType
<1> QED BY <1>4 DEF Spare

LEMMA IntegerFacts ==
    ASSUME NEW v \in Value
    PROVE  IsNearest(Nearest(Integer[v]), Integer[v])
<1>1. \E x \in Finite : IsNearest(x, Integer[v])
  BY NumberAssumption
<1> QED BY <1>1 DEF Nearest

LEMMA FromJSONIsClaim ==
    ASSUME NEW t, IsTyped(t), ~Refuses(t)
    PROVE  IsClaim(FromJSON(t))
<1>1. CASE t.type = "[]string"
  <2>1. t.items \in Seq(Item) /\ Len(t.items) \in Nat
    BY <1>1, IssuedAssumption DEF IsTyped
  <2>2. Spare(Len(t.items)) \in Nat
    BY <2>1, SpareIsNat
  <2>3. FromJSON(t) = [kind |-> "list", items |-> t.items, spare |-> Spare(Len(t.items))]
    BY <1>1 DEF FromJSON
  <2> QED BY <2>1, <2>2, <2>3 DEF IsClaim
<1>2. CASE t.type = "int"
  <2>1. FromJSON(t) = [kind |-> "number", n |-> Nearest(Integer[t.value])] /\ t.value \in Value
    BY <1>2 DEF FromJSON, IsTyped
  <2>2. Nearest(Integer[t.value]) \in Finite
    BY <2>1, IntegerFacts DEF IsNearest
  <2> QED BY <2>1, <2>2 DEF IsClaim
<1>3. CASE t.type = "float"
  <2>1. FromJSON(t) = [kind |-> "number", n |-> Decimal[t.value]] /\ t.value \in Value
    BY <1>3 DEF FromJSON, IsTyped
  <2>2. Decimal[t.value] \in Finite
    BY <1>3, <2>1, NumberAssumption DEF Refuses
  <2> QED BY <2>1, <2>2 DEF IsClaim
<1>4. CASE t.type = "bool"
  <2>1. FromJSON(t) = [kind |-> "other", v |-> Truth[t.value]] /\ t.value \in Value
    BY <1>4 DEF FromJSON, IsTyped
  <2>2. Truth[t.value] \in Item
    BY <2>1, NumberAssumption
  <2> QED BY <2>1, <2>2 DEF IsClaim
<1>5. CASE t.type \notin {"[]string", "int", "float", "bool"}
  <2>1. FromJSON(t) = [kind |-> "other", v |-> t.value] /\ t.value \in Item
    BY <1>5, IssuedAssumption DEF FromJSON, IsTyped
  <2> QED BY <2>1 DEF IsClaim
<1> QED BY <1>1, <1>2, <1>3, <1>4, <1>5

LEMMA MadeIsLicense ==
    ASSUME MadeInv, EncodableClaims(made), NEW exp \in Nat
    PROVE  IsLicense(LicenseOf(made, exp))
<1> DEFINE l == LicenseOf(made, exp)
<1>1. /\ l.exp = exp /\ l.dn = (IF made.dn = "" THEN NoName ELSE made.dn)
      /\ DOMAIN l.products = DOMAIN made.products
      /\ \A p \in DOMAIN made.products : l.products[p] = UnmarshalJSON(made.products[p])
  BY DEF LicenseOf
<1>2. l.dn \in Item \cup {NoName}
  <2>1. made.dn \in Value \cup {""}
    BY DEF MadeInv
  <2> QED BY <1>1, <2>1, IssuedAssumption
<1>3. ASSUME NEW p \in DOMAIN l.products
      PROVE  /\ p \in Product /\ l.products[p].exclusive \in BOOLEAN
             /\ \A k \in DOMAIN l.products[p].claims :
                   k \in Claim /\ IsClaim(l.products[p].claims[k])
  <2> DEFINE u == made.products[p].unknown
  <2>1. /\ p \in Product
        /\ \A c \in DOMAIN u : /\ c \in Claim \cup {ExclusiveClaim} /\ IsTyped(u[c])
                              /\ ~Refuses(u[c])
    BY <1>1, <1>3 DEF MadeInv, EncodableClaims
  <2>2. l.products[p] = UnmarshalJSON(made.products[p])
    BY <1>1, <1>3
  <2> HIDE DEF l
  <2>3. /\ l.products[p].exclusive = (ExclusiveClaim \in DOMAIN u)
        /\ l.products[p].claims = [c \in DOMAIN u \ {ExclusiveClaim} |-> FromJSON(u[c])]
    BY <2>2 DEF UnmarshalJSON
  <2>4. ASSUME NEW k \in DOMAIN l.products[p].claims
        PROVE  k \in Claim /\ IsClaim(l.products[p].claims[k])
    <3>1. k \in DOMAIN u \ {ExclusiveClaim} /\ l.products[p].claims[k] = FromJSON(u[k])
      BY <2>3, <2>4
    <3> QED BY <2>1, <3>1, FromJSONIsClaim
  <2> QED BY <2>1, <2>3, <2>4
<1> QED BY <1>1, <1>2, <1>3 DEF IsLicense

LicensesInv ==
    /\ IsSeq(files) /\ \A n \in DOMAIN files : IsLicense(files[n])
    /\ IsSeq(lists)
    /\ \A g \in DOMAIN lists :
          IsSeq(lists[g]) /\ \A i \in DOMAIN lists[g] : IsLicense(lists[g][i])

(* A publication adds a list to lists and leaves the others.               *)
Published(l) ==
    /\ IsSeq(l) /\ \A i \in DOMAIN l : IsLicense(l[i])
    /\ lists' = Append(lists, l)

LEMMA PublishFacts ==
    ASSUME LicensesInv, PublishFiles
    PROVE  \E l : Published(l) /\ Publish(l)
<1>1. PICK n \in 0 .. Len(files) : \E order \in [1 .. n -> DOMAIN files] :
          Publish([m \in 1 .. n |-> files[order[m]]])
  BY Zenon DEF PublishFiles
<1>0. PICK order \in [1 .. n -> DOMAIN files] : Publish([m \in 1 .. n |-> files[order[m]]])
  BY <1>1
<1> DEFINE l == [m \in 1 .. n |-> files[order[m]]]
<1>2. n \in Nat
  BY SeqFacts DEF LicensesInv
<1>3. l \in Seq({files[m] : m \in DOMAIN files})
  BY <1>2
<1>4. \A i \in DOMAIN l : IsLicense(l[i])
  BY DEF LicensesInv
<1>5. lists' = Append(lists, l)
  BY <1>0 DEF Publish
<1> QED BY <1>0, <1>3, <1>4, <1>5 DEF Published, IsSeq

LEMMA LicensesStep ==
    LicensesInv /\ MadeInv /\ GenInv /\ [Next]_claimsVars => LicensesInv'
<1> SUFFICES ASSUME LicensesInv, MadeInv, GenInv, [Next]_claimsVars PROVE LicensesInv'
  OBVIOUS
<1>1. CASE UNCHANGED <<files, lists>>
  BY <1>1 DEF LicensesInv
<1>2. CASE Sign
  <2>1. files' = Append(files, LicenseOf(made, Len(files) + 1)) /\ lists' = lists
    BY <1>2, Zenon DEF Sign, productsVars
  <2>2. IsSeq(files) /\ Len(files) + 1 \in Nat /\ DOMAIN files = 1 .. Len(files)
    BY SeqFacts DEF LicensesInv
  <2>3. IsLicense(LicenseOf(made, Len(files) + 1))
    <3>1. EncodableClaims(made)
      BY <1>2, Zenon DEF Sign, GenInv
    <3> QED BY <2>2, <3>1, MadeIsLicense
  <2>4. IsSeq(files') /\ \A n \in DOMAIN files' : IsLicense(files'[n])
    BY <2>1, <2>2, <2>3, AppendFacts DEF LicensesInv
  <2> QED BY <2>1, <2>4 DEF LicensesInv
<1>3. CASE PublishFiles
  <2>1. PICK l : Published(l)
    BY <1>3, PublishFacts
  <2>2. files' = files
    BY <1>3, Zenon DEF PublishFiles
  <2>3. IsSeq(lists) /\ Len(lists) \in Nat /\ DOMAIN lists = 1 .. Len(lists)
    BY SeqFacts DEF LicensesInv
  <2>4. /\ IsSeq(lists') /\ DOMAIN lists' = 1 .. Len(lists) + 1
        /\ \A g \in 1 .. Len(lists) : lists'[g] = lists[g]
        /\ lists'[Len(lists) + 1] = l
    BY <2>1, <2>3, AppendFacts DEF Published
  <2> QED BY <2>1, <2>2, <2>3, <2>4 DEF LicensesInv, Published
<1>4. UNCHANGED <<files, lists>> \/ Sign \/ PublishFiles
  <2>1. ASSUME NEW r \in Request, RequestNext(r) PROVE lists' = lists
    BY <2>1, Zenon DEF RequestNext, Read, NextLicense, Respond, RespondFails, LoopEnds, Visit, SkipUnwanted,
                       SkipExclusive, Aggregate
  <2> QED BY <2>1, Zenon DEF Next, productsVars, claimsVars
<1> QED BY <1>1, <1>2, <1>3, <1>4

---------------------------------------------------------------------------
(* Where requests are.                                                     *)
RequestInv ==
    /\ pc \in [Request -> {"off", "run", "done", "failed"}]
    /\ DOMAIN list = Request /\ DOMAIN at = Request /\ DOMAIN left = Request
    /\ DOMAIN entries = Request
    /\ \A r \in Request :
          /\ pc[r] = "off" => at[r] = 0 /\ left[r] = {}
          /\ pc[r] # "off" => list[r] \in DOMAIN lists /\ at[r] \in 0 .. Len(lists[list[r]])
          /\ left[r] # {} => /\ pc[r] # "off" /\ at[r] > 0
                             /\ left[r] \subseteq DOMAIN License(r).products

LEMMA RequestStep == LicensesInv /\ RequestInv /\ [Next]_claimsVars => RequestInv'
<1> SUFFICES ASSUME LicensesInv, RequestInv, [Next]_claimsVars PROVE RequestInv'
  OBVIOUS
<1>0. IsSeq(lists) /\ DOMAIN lists = 1 .. Len(lists) /\ Len(lists) \in Nat
  BY SeqFacts DEF LicensesInv
<1>00. \A g \in DOMAIN lists : DOMAIN lists[g] = 1 .. Len(lists[g]) /\ Len(lists[g]) \in Nat
  BY SeqFacts DEF LicensesInv
<1>1. CASE UNCHANGED <<lists, requestVars>>
  BY <1>1 DEF RequestInv, requestVars, License
<1>2. CASE PublishFiles
  <2>1. PICK l : Published(l)
    BY <1>2, PublishFacts
  <2>2. UNCHANGED requestVars
    BY <1>2, Zenon DEF PublishFiles, Publish
  <2>3. DOMAIN lists' = 1 .. Len(lists) + 1 /\ \A g \in 1 .. Len(lists) : lists'[g] = lists[g]
    BY <1>0, <2>1, AppendFacts DEF Published
  <2>4. \A r \in Request : pc[r] # "off" =>
           list[r] \in DOMAIN lists' /\ lists'[list[r]] = lists[list[r]]
    BY <1>0, <2>3 DEF RequestInv
  <2> QED BY <2>2, <2>4 DEF RequestInv, requestVars, License
<1>3. ASSUME NEW r \in Request, Read(r) PROVE RequestInv'
  <2>1. /\ pc[r] = "off" /\ lists # <<>> /\ pc' = [pc EXCEPT ![r] = "run"]
        /\ list' = [list EXCEPT ![r] = Len(lists)] /\ UNCHANGED <<lists, at, left, entries>>
    BY <1>3, Zenon DEF Read
  <2>2. Len(lists) \in DOMAIN lists
    BY <1>0, <2>1 DEF IsSeq
  <2>3. 0 \in 0 .. Len(lists[Len(lists)])
    BY <1>00, <2>2
  <2> QED BY <2>1, <2>2, <2>3 DEF RequestInv, License
<1>4. ASSUME NEW r \in Request, NextLicense(r) PROVE RequestInv'
  <2>1. /\ pc[r] = "run" /\ at[r] < Len(lists[list[r]]) /\ at' = [at EXCEPT ![r] = @ + 1]
        /\ left' = [left EXCEPT ![r] = DOMAIN lists[list[r]][at[r] + 1].products]
        /\ UNCHANGED <<lists, pc, list, entries>>
    BY <1>4, Zenon DEF NextLicense
  <2>2. at[r] + 1 \in 0 .. Len(lists[list[r]]) /\ at[r] + 1 > 0
    BY <1>00, <2>1 DEF RequestInv
  <2> QED BY <2>1, <2>2 DEF RequestInv, License
<1>5. ASSUME NEW r \in Request, Respond(r) \/ RespondFails(r) PROVE RequestInv'
  <2>1. PICK answered \in {"done", "failed"} : pc' = [pc EXCEPT ![r] = answered]
    BY <1>5, Zenon DEF Respond, RespondFails
  <2>2. pc[r] = "run" /\ UNCHANGED <<lists, list, at, left, entries>>
    BY <1>5, Zenon DEF Respond, RespondFails, LoopEnds
  <2> QED BY <2>1, <2>2 DEF RequestInv, License
<1>6. ASSUME NEW r \in Request, NEW p \in Product,
             SkipUnwanted(r, p) \/ SkipExclusive(r, p) \/ Aggregate(r, p)
      PROVE  RequestInv'
  <2>1. /\ left' = [left EXCEPT ![r] = @ \ {p}]
        /\ UNCHANGED <<lists, pc, list, at>>
        /\ entries' = entries \/ \E e : entries' = [entries EXCEPT ![r] = e]
    BY <1>6, Zenon DEF SkipUnwanted, SkipExclusive, Aggregate, Visit
  <2>2. DOMAIN entries' = Request
    BY <2>1 DEF RequestInv
  <2> QED BY <2>1, <2>2 DEF RequestInv, License
<1>7. \/ UNCHANGED <<lists, requestVars>> \/ PublishFiles
      \/ \E r \in Request : RequestNext(r)
  BY Zenon DEF Next, Sign, productsVars, claimsVars
<1> QED BY <1>1, <1>2, <1>3, <1>4, <1>5, <1>6, <1>7, Zenon DEF RequestNext

---------------------------------------------------------------------------
(* Arrays.  <<g, i, p, k>> names the array of a list that was decoded.     *)
IsListAt(g, i, p, k) ==
    /\ g \in DOMAIN lists /\ i \in DOMAIN lists[g] /\ p \in DOMAIN lists[g][i].products
    /\ k \in DOMAIN lists[g][i].products[p].claims
    /\ lists[g][i].products[p].claims[k].kind = "list"

ItemsAt(g, i, p, k) == lists[g][i].products[p].claims[k].items

(* The stored lists read the same where the licenses are left alone. *)
LEMMA SameLists ==
    ASSUME UNCHANGED lists
    PROVE  /\ \A g, i, p, k : IsListAt(g, i, p, k)' <=> IsListAt(g, i, p, k)
           /\ \A g, i, p, k : ItemsAt(g, i, p, k)' = ItemsAt(g, i, p, k)
<1>1. ASSUME NEW g, NEW i, NEW p, NEW k
      PROVE  IsListAt(g, i, p, k)' <=> IsListAt(g, i, p, k)
  BY ZenonT(30) DEF IsListAt
<1>2. ASSUME NEW g, NEW i, NEW p, NEW k
      PROVE  ItemsAt(g, i, p, k)' = ItemsAt(g, i, p, k)
  BY ZenonT(30) DEF ItemsAt
<1> QED BY <1>1, <1>2, Zenon

(* An array has at least its list, and nobody has written over that.       *)
MemInv ==
    /\ \A a \in DOMAIN mem : a[1] \in DOMAIN lists
    /\ \A g, i, p, k : IsListAt(g, i, p, k) =>
          LET a == <<g, i, p, k>>
              items == ItemsAt(g, i, p, k)
          IN  /\ a \in DOMAIN mem
              /\ Len(items) \in Nat /\ DOMAIN items = 1 .. Len(items)
              /\ Capacity(a) \in Nat /\ Len(items) <= Capacity(a)
              /\ \A j \in 1 .. Len(items) : mem[a][j] = items[j]

(* A slice of a request covers the list that was decoded into its array.   *)
Covers(h) ==
    /\ "kind" \in DOMAIN h
    /\ h.kind = "list" /\ h.array # Own =>
        /\ h.array[1] \in DOMAIN lists /\ {"array", "len"} \subseteq DOMAIN h /\ h.len \in Nat
        /\ \A g, i, p, k : IsListAt(g, i, p, k) /\ h.array = <<g, i, p, k>> =>
              Len(ItemsAt(g, i, p, k)) <= h.len

HeldInv ==
    \A r \in Request : \A p \in DOMAIN entries[r] : \A k \in DOMAIN entries[r][p].claims :
        Covers(entries[r][p].claims[k])

(* What was decoded before stays where it was.                             *)
LEMMA OldLists ==
    ASSUME LicensesInv, NEW l, Published(l), NEW g \in DOMAIN lists, NEW i, NEW p, NEW k
    PROVE  /\ g \in DOMAIN lists' /\ lists'[g] = lists[g]
           /\ IsListAt(g, i, p, k)' <=> IsListAt(g, i, p, k)
           /\ ItemsAt(g, i, p, k)' = ItemsAt(g, i, p, k)
<1>1. IsSeq(lists) /\ DOMAIN lists = 1 .. Len(lists) /\ Len(lists) \in Nat
  BY SeqFacts DEF LicensesInv
<1>2. DOMAIN lists' = 1 .. Len(lists) + 1 /\ lists'[g] = lists[g]
  BY <1>1, AppendFacts DEF Published
<1>3. g \in DOMAIN lists'
  BY <1>1, <1>2
<1> QED BY <1>2, <1>3, Zenon DEF IsListAt, ItemsAt

(* The array of a list that has just been decoded.                         *)
HasArray(l, g, i, p, k) ==
    LET a == <<g, i, p, k>>
        v == l[i].products[p].claims[k]
    IN  /\ a \in DOMAIN Decoded(l, g)
        /\ v.items \in Seq(Item) /\ v.spare \in Nat
        /\ Decoded(l, g)[a] = [j \in 1 .. Len(v.items) + v.spare |->
                                  IF j <= Len(v.items) THEN v.items[j] ELSE Free]

LEMMA NewArrays ==
    ASSUME NEW l, \A i \in DOMAIN l : IsLicense(l[i]), NEW g,
           NEW i \in DOMAIN l, NEW p \in DOMAIN l[i].products,
           NEW k \in DOMAIN l[i].products[p].claims, l[i].products[p].claims[k].kind = "list"
    PROVE  HasArray(l, g, i, p, k)
<1> DEFINE v == l[i].products[p].claims[k]
           a == <<g, i, p, k>>
<1>1. p \in Product /\ k \in Claim /\ IsClaim(v)
  BY DEF IsLicense
<1>2. v.items \in Seq(Item) /\ v.spare \in Nat
  BY <1>1 DEF IsClaim
<1>3. a \in {g} \X (DOMAIN l) \X Product \X Claim
  BY <1>1
<1>4. a[2] = i /\ a[3] = p /\ a[4] = k
  OBVIOUS
<1> HIDE DEF a
<1>5. a \in DOMAIN Decoded(l, g)
  BY <1>3, <1>4 DEF Decoded
<1>6. Decoded(l, g)[a] = [j \in 1 .. Len(v.items) + v.spare |->
                            IF j <= Len(v.items) THEN v.items[j] ELSE Free]
  BY <1>4, <1>5 DEF Decoded
<1> QED BY <1>2, <1>5, <1>6 DEF a, HasArray

LEMMA ArraysOfList ==
    ASSUME NEW l, NEW g, NEW a \in DOMAIN Decoded(l, g)
    PROVE  a[1] = g
<1>1. a \in {g} \X (DOMAIN l) \X Product \X Claim
  BY DEF Decoded
<1> QED BY <1>1

LEMMA PublishKeeps ==
    ASSUME LicensesInv, RequestInv, MemInv, HeldInv, PublishFiles
    PROVE  MemInv' /\ HeldInv'
<1>1. PICK l : Published(l) /\ Publish(l)
  BY PublishFacts
<1>0. PICK n : n = Len(lists) + 1
  OBVIOUS
<1> DEFINE new == Decoded(l, n)
<1>2. IsSeq(lists) /\ DOMAIN lists = 1 .. Len(lists) /\ Len(lists) \in Nat
  BY SeqFacts DEF LicensesInv
<1>3. /\ lists' = Append(lists, l) /\ Len(lists') = n /\ DOMAIN lists' = 1 .. n
      /\ lists'[n] = l /\ IsSeq(l) /\ \A i \in DOMAIN l : IsLicense(l[i])
  BY <1>0, <1>1, <1>2, AppendFacts DEF Published
<1>4. /\ UNCHANGED requestVars
      /\ mem' = [a \in DOMAIN mem \cup DOMAIN new |-> IF a \in DOMAIN mem THEN mem[a] ELSE new[a]]
  BY <1>1, <1>3 DEF Publish
<1>5. n \notin DOMAIN lists /\ n \in DOMAIN lists' /\ DOMAIN lists' = DOMAIN lists \cup {n}
  BY <1>0, <1>2, <1>3
<1>6. \A a \in DOMAIN new : a[1] = n
  BY ArraysOfList
<1> HIDE DEF new
<1>7. \A a \in DOMAIN mem' : a[1] \in DOMAIN lists'
  BY <1>4, <1>5, <1>6 DEF MemInv
<1>8. ASSUME NEW g, NEW i, NEW p, NEW k, IsListAt(g, i, p, k)'
      PROVE  LET a == <<g, i, p, k>>
                 items == ItemsAt(g, i, p, k)'
             IN  /\ a \in DOMAIN mem'
                 /\ Len(items) \in Nat /\ DOMAIN items = 1 .. Len(items)
                 /\ Len(mem'[a]) \in Nat /\ Len(items) <= Len(mem'[a])
                 /\ \A j \in 1 .. Len(items) : mem'[a][j] = items[j]
  <2> DEFINE a == <<g, i, p, k>>
  <2>1. CASE g \in DOMAIN lists
    <3>1. IsListAt(g, i, p, k) /\ ItemsAt(g, i, p, k)' = ItemsAt(g, i, p, k)
      BY <1>1, <1>8, <2>1, OldLists
    <3>2. /\ a \in DOMAIN mem /\ Len(ItemsAt(g, i, p, k)) \in Nat
          /\ DOMAIN ItemsAt(g, i, p, k) = 1 .. Len(ItemsAt(g, i, p, k))
          /\ Len(mem[a]) \in Nat /\ Len(ItemsAt(g, i, p, k)) <= Len(mem[a])
          /\ \A j \in 1 .. Len(ItemsAt(g, i, p, k)) : mem[a][j] = ItemsAt(g, i, p, k)[j]
      BY <3>1 DEF MemInv, Capacity
    <3>3. a \in DOMAIN mem' /\ mem'[a] = mem[a]
      BY <1>4, <3>2
    <3> QED BY <3>1, <3>2, <3>3
  <2>2. CASE g \notin DOMAIN lists
    <3>1. g = n
      BY <1>5, <1>8, <2>2 DEF IsListAt
    <3> DEFINE v == l[i].products[p].claims[k]
    <3>2. /\ i \in DOMAIN l /\ p \in DOMAIN l[i].products
          /\ k \in DOMAIN l[i].products[p].claims /\ v.kind = "list"
          /\ ItemsAt(g, i, p, k)' = v.items
      BY <1>3, <1>8, <3>1 DEF IsListAt, ItemsAt
    <3>3. /\ a \in DOMAIN new /\ v.items \in Seq(Item) /\ v.spare \in Nat
          /\ new[a] = [j \in 1 .. Len(v.items) + v.spare |->
                          IF j <= Len(v.items) THEN v.items[j] ELSE Free]
      <4>1. HasArray(l, n, i, p, k)
        BY <1>3, <3>2, NewArrays
      <4> QED BY <3>1, <4>1, Zenon DEF new, HasArray
    <3>4. a[1] = n
      BY <3>1
    <3>5. a \notin DOMAIN mem
      BY <1>5, <3>4 DEF MemInv
    <3>6. a \in DOMAIN mem' /\ mem'[a] = new[a]
      BY <1>4, <3>3, <3>5
    <3> HIDE DEF v, a
    <3>7. Len(v.items) \in Nat /\ DOMAIN v.items = 1 .. Len(v.items)
      BY <3>3
    <3>8. Len(mem'[a]) = Len(v.items) + v.spare
      BY <3>3, <3>6, <3>7
    <3>9. \A j \in 1 .. Len(v.items) : mem'[a][j] = v.items[j]
      BY <3>3, <3>6, <3>7
    <3> QED BY <3>2, <3>3, <3>6, <3>7, <3>8, <3>9 DEF a
  <2> QED BY <2>1, <2>2
<1>9. MemInv'
  BY <1>7, <1>8 DEF MemInv, Capacity
<1>10. HeldInv'
  <2> SUFFICES ASSUME NEW h, Covers(h) PROVE Covers(h)'
    BY <1>4, Zenon DEF HeldInv, requestVars
  <2> SUFFICES ASSUME h.kind = "list", h.array # Own PROVE Covers(h)'
    BY DEF Covers
  <2>1. /\ h.array[1] \in DOMAIN lists /\ {"array", "len"} \subseteq DOMAIN h /\ h.len \in Nat
        /\ \A g, i, p, k : IsListAt(g, i, p, k) /\ h.array = <<g, i, p, k>> =>
              Len(ItemsAt(g, i, p, k)) <= h.len
    BY DEF Covers
  <2>2. ASSUME NEW g, NEW i, NEW p, NEW k, IsListAt(g, i, p, k)', h.array = <<g, i, p, k>>
        PROVE  Len(ItemsAt(g, i, p, k)') <= h.len
    <3>1. g \in DOMAIN lists
      BY <2>1, <2>2
    <3>2. IsListAt(g, i, p, k) /\ ItemsAt(g, i, p, k)' = ItemsAt(g, i, p, k)
      BY <1>1, <2>2, <3>1, OldLists
    <3> QED BY <2>1, <2>2, <3>2
  <2>3. h.array[1] \in DOMAIN lists'
    BY <1>5, <2>1
  <2> QED BY <2>1, <2>2, <2>3 DEF Covers
<1> QED BY <1>9, <1>10

---------------------------------------------------------------------------
(* Aggregating.                                                            *)
LEMMA MissingLen ==
    ASSUME NEW s, NEW items, Len(items) \in Nat, DOMAIN items = 1 .. Len(items)
    PROVE  Len(Missing(s, items)) \in Nat
<1> DEFINE new == {j \in DOMAIN items : items[j] \notin ToSet(Items(s))}
<1>1. IsFiniteSet(new)
  <2>1. IsFiniteSet(1 .. Len(items))
    BY FS_Interval
  <2> QED BY <2>1, FS_Subset
<1>2. Cardinality(new) \in Nat
  BY <1>1, FS_CardinalityType
<1>3. \E f : Missing(s, items) = [m \in 1 .. Cardinality(new) |-> f[m]]
  <2> DEFINE f == [m \in 1 .. Cardinality(new) |-> items[Nth(new, m)]]
  <2>1. Missing(s, items) = f
    BY DEF Missing
  <2>2. f = [m \in 1 .. Cardinality(new) |-> f[m]]
    OBVIOUS
  <2> QED BY <2>1, <2>2
<1>4. PICK f : Missing(s, items) = [m \in 1 .. Cardinality(new) |-> f[m]]
  BY <1>3
<1> HIDE DEF new
<1> QED BY <1>2, <1>4

LEMMA HeldCovers ==
    ASSUME LicensesInv, NEW g, NEW i, NEW p, NEW k, g \in DOMAIN lists, i \in DOMAIN lists[g],
           p \in DOMAIN lists[g][i].products, k \in DOMAIN lists[g][i].products[p].claims
    PROVE  Covers(Held(lists[g][i].products[p].claims[k], <<g, i, p, k>>))
<1> DEFINE value == lists[g][i].products[p].claims[k]
           a == <<g, i, p, k>>
<1>1. IsClaim(value)
  BY DEF LicensesInv, IsLicense
<1>2. CASE value.kind # "list"
  <2>1. Held(value, a) = value /\ "kind" \in DOMAIN value
    BY <1>1, <1>2 DEF Held, IsClaim
  <2> QED BY <1>2, <2>1 DEF Covers
<1>3. CASE value.kind = "list"
  <2>1. Held(value, a) = [kind |-> "list", array |-> a, len |-> Len(value.items), items |-> <<>>]
    BY <1>3 DEF Held
  <2>2. value.items \in Seq(Item) /\ Len(value.items) \in Nat
    BY <1>1, <1>3 DEF IsClaim
  <2>3. ASSUME NEW h, NEW m, NEW j, NEW q, NEW c, h = <<m, j, q, c>>, h = a
        PROVE  ItemsAt(m, j, q, c) = value.items
    BY <2>3 DEF ItemsAt
  <2>4. a[1] = g
    OBVIOUS
  <2> HIDE DEF value, a
  <2> DEFINE h == Held(value, a)
  <2>5. /\ h.kind = "list" /\ h.array = a /\ h.len = Len(value.items)
        /\ {"kind", "array", "len"} \subseteq DOMAIN h
    BY <2>1
  <2> HIDE DEF h
  <2>6. \A m, j, q, c : h.array = <<m, j, q, c>> => Len(ItemsAt(m, j, q, c)) <= h.len
    BY <2>2, <2>3, <2>5
  <2>7. Covers(h)
    BY <2>2, <2>4, <2>5, <2>6 DEF Covers
  <2> QED BY <2>7 DEF h, value, a
<1> QED BY <1>2, <1>3

LEMMA AppendedCovers ==
    ASSUME NEW s, NEW add, Covers(s), s.kind = "list", Len(add) \in Nat
    PROVE  Covers(Appended(s, add))
<1>1. CASE add = <<>>
  BY <1>1 DEF Appended
<1>2. CASE add # <<>> /\ s.array # Own /\ s.len + Len(add) <= Capacity(s.array)
  <2> DEFINE h == [s EXCEPT !.len = @ + Len(add)]
  <2>1. Appended(s, add) = h
    BY <1>2 DEF Appended
  <2>2. /\ {"kind", "array", "len"} \subseteq DOMAIN s
        /\ s.len \in Nat /\ s.array[1] \in DOMAIN lists
        /\ \A g, i, p, k : IsListAt(g, i, p, k) /\ s.array = <<g, i, p, k>> =>
              Len(ItemsAt(g, i, p, k)) <= s.len
    BY <1>2 DEF Covers
  <2>3. /\ {"kind", "array", "len"} \subseteq DOMAIN h /\ h.array = s.array
        /\ h.len = s.len + Len(add)
    BY <2>2
  <2> HIDE DEF h
  <2>4. ASSUME NEW g, NEW i, NEW p, NEW k, IsListAt(g, i, p, k), h.array = <<g, i, p, k>>
        PROVE  Len(ItemsAt(g, i, p, k)) <= h.len
    BY <2>2, <2>3, <2>4
  <2>5. h.len \in Nat
    BY <2>2, <2>3
  <2> QED BY <2>1, <2>2, <2>3, <2>4, <2>5 DEF Covers
<1>3. CASE add # <<>> /\ ~(s.array # Own /\ s.len + Len(add) <= Capacity(s.array))
  BY <1>3 DEF Appended, Covers
<1> QED BY <1>1, <1>2, <1>3

LEMMA AggregateKeeps ==
    ASSUME LicensesInv, RequestInv, MemInv, HeldInv,
           NEW r \in Request, NEW p \in Product, Aggregate(r, p)
    PROVE  MemInv' /\ HeldInv'
<1> DEFINE l == License(r)
           e == EntryOf(r, p)
           values == l.products[p].claims
           ArrayOf(k) == <<list[r], at[r], p, k>>
           Extended(k) == k \in DOMAIN e.claims /\ Lists(e.claims[k], values[k])
           touched == {k \in DOMAIN values : Extended(k) /\ e.claims[k].array # Own}
           NewValue(k) == IF k \notin DOMAIN values THEN e.claims[k]
                          ELSE IF k \notin DOMAIN e.claims THEN Held(values[k], ArrayOf(k))
                          ELSE Merged(e.claims[k], values[k], ArrayOf(k))
           claims == [k \in DOMAIN e.claims \cup DOMAIN values |-> NewValue(k)]
           Add(k) == Missing(e.claims[k], values[k].items)
<1>1. /\ UNCHANGED lists
      /\ \E x, y : entries' = [entries EXCEPT ![r] =
                                WithEntry(r, p, [claims |-> claims, expiry |-> x, dn |-> y])]
      /\ mem' = [a \in DOMAIN mem |->
                   IF \E k \in touched : e.claims[k].array = a
                   THEN LET k == CHOOSE k \in touched : e.claims[k].array = a
                        IN  Slots(e.claims[k], Add(k))
                   ELSE mem[a]]
  BY Zenon DEF Aggregate, Visit
<1>2. /\ list[r] \in DOMAIN lists /\ at[r] \in DOMAIN lists[list[r]]
      /\ p \in DOMAIN l.products /\ l = lists[list[r]][at[r]]
  <2>1. p \in left[r]
    BY DEF Aggregate, Visit
  <2>2. /\ list[r] \in DOMAIN lists /\ at[r] \in 0 .. Len(lists[list[r]]) /\ at[r] > 0
        /\ left[r] \subseteq DOMAIN l.products
    BY <2>1 DEF RequestInv
  <2>3. DOMAIN lists[list[r]] = 1 .. Len(lists[list[r]]) /\ Len(lists[list[r]]) \in Nat
    BY <2>2, SeqFacts DEF LicensesInv
  <2> QED BY <2>1, <2>2, <2>3 DEF License
<1>3. \A k \in DOMAIN e.claims : Covers(e.claims[k])
  <2>1. CASE p \in DOMAIN entries[r]
    BY <2>1 DEF HeldInv, EntryOf
  <2>2. CASE p \notin DOMAIN entries[r]
    BY <2>2 DEF EntryOf, NewEntry
  <2> QED BY <2>1, <2>2
<1>4. \A k \in DOMAIN values : IsClaim(values[k])
  BY <1>2 DEF LicensesInv, IsLicense
<1>5. \A k \in DOMAIN values : Covers(Held(values[k], ArrayOf(k)))
  BY <1>2, HeldCovers
<1>6. ASSUME NEW k \in DOMAIN values, Extended(k) PROVE Len(Add(k)) \in Nat
  <2>1. values[k].items \in Seq(Item)
    BY <1>4, <1>6 DEF Lists, IsClaim
  <2>2. Len(values[k].items) \in Nat /\ DOMAIN values[k].items = 1 .. Len(values[k].items)
    BY <2>1, SeqFacts DEF IsSeq
  <2> QED BY <2>2, MissingLen
<1> HIDE DEF l, values, e
<1>7. ASSUME NEW k \in DOMAIN values, k \in DOMAIN e.claims
      PROVE  Covers(Merged(e.claims[k], values[k], ArrayOf(k)))
  <2>1. CASE e.claims[k].kind = "number" /\ values[k].kind = "number"
    <3> DEFINE h == [e.claims[k] EXCEPT !.n = Plus[<<@, values[k].n>>]]
    <3>1. "kind" \in DOMAIN e.claims[k]
      BY <1>3, <1>7 DEF Covers
    <3>2. "kind" \in DOMAIN h /\ h.kind = "number"
      BY <2>1, <3>1
    <3> HIDE DEF h
    <3>3. Covers(h)
      BY <3>2 DEF Covers
    <3> QED BY <2>1, <3>3 DEF Merged, h
  <2>2. CASE Lists(e.claims[k], values[k])
    <3>1. Merged(e.claims[k], values[k], ArrayOf(k)) = Appended(e.claims[k], Add(k))
      BY <2>2 DEF Merged, Lists
    <3> QED BY <1>3, <1>6, <1>7, <2>2, <3>1, AppendedCovers DEF Lists
  <2>3. CASE /\ ~(e.claims[k].kind = "number" /\ values[k].kind = "number")
             /\ ~Lists(e.claims[k], values[k])
    BY <1>5, <2>3, Zenon DEF Merged
  <2> QED BY <2>1, <2>2, <2>3
<1>8. \A k \in DOMAIN claims : Covers(claims[k])
  BY <1>3, <1>5, <1>7
<1> HIDE DEF claims
<1>9. /\ \A g, i, q, c : IsListAt(g, i, q, c)' <=> IsListAt(g, i, q, c)
      /\ \A g, i, q, c : ItemsAt(g, i, q, c)' = ItemsAt(g, i, q, c)
  BY <1>1, SameLists
<1>10. HeldInv'
  <2>1. PICK x, y : entries' = [entries EXCEPT ![r] =
                                  WithEntry(r, p, [claims |-> claims, expiry |-> x, dn |-> y])]
    BY <1>1
  <2>2. \A h : Covers(h) => Covers(h)'
    BY <1>1, <1>9 DEF Covers
  <2>3. ASSUME NEW t \in Request, NEW q \in DOMAIN entries'[t],
               NEW k \in DOMAIN entries'[t][q].claims
        PROVE  Covers(entries'[t][q].claims[k])
    <3>1. CASE t = r /\ q = p
      BY <1>8, <2>1, <2>3, <3>1 DEF WithEntry, RequestInv
    <3>2. CASE ~(t = r /\ q = p)
      <4>1. q \in DOMAIN entries[t] /\ entries'[t][q] = entries[t][q]
        BY <2>1, <2>3, <3>2 DEF WithEntry, RequestInv
      <4> QED BY <2>3, <4>1 DEF HeldInv
    <3> QED BY <3>1, <3>2
  <2> QED BY <2>2, <2>3, Zenon DEF HeldInv
<1>11. MemInv'
  <2>1. DOMAIN mem' = DOMAIN mem
    BY <1>1
  <2>2. ASSUME NEW g, NEW i, NEW q, NEW c, IsListAt(g, i, q, c)
        PROVE  LET a == <<g, i, q, c>>
                   items == ItemsAt(g, i, q, c)
               IN  /\ Len(mem'[a]) \in Nat /\ Len(items) <= Len(mem'[a])
                   /\ \A j \in 1 .. Len(items) : mem'[a][j] = items[j]
    <3> DEFINE a == <<g, i, q, c>>
               items == ItemsAt(g, i, q, c)
    <3>1. /\ a \in DOMAIN mem /\ Len(items) \in Nat
          /\ Len(mem[a]) \in Nat /\ Len(items) <= Len(mem[a])
          /\ \A j \in 1 .. Len(items) : mem[a][j] = items[j]
      BY <2>2 DEF MemInv, Capacity
    <3>2. CASE ~\E k \in touched : e.claims[k].array = a
      BY <1>1, <3>1, <3>2
    <3>3. CASE \E k \in touched : e.claims[k].array = a
      <4>1. PICK k \in touched : /\ e.claims[k].array = a
                                 /\ mem'[a] = Slots(e.claims[k], Add(k))
        BY <1>1, <3>1, <3>3
      <4> DEFINE s == e.claims[k]
      <4>2. s.len \in Nat /\ Len(items) <= s.len
        BY <1>3, <2>2, <4>1 DEF Covers, Lists
      <4>3. mem'[a] = [j \in 1 .. Len(mem[a]) |->
                         IF j <= s.len \/ j > s.len + Len(Add(k)) THEN mem[a][j]
                         ELSE Add(k)[j - s.len]]
        BY <4>1 DEF Slots, Capacity
      <4> HIDE DEF s, a, items
      <4>4. Len(mem'[a]) = Len(mem[a])
        BY <3>1, <4>3
      <4>5. \A j \in 1 .. Len(items) : mem'[a][j] = mem[a][j]
        BY <3>1, <4>2, <4>3
      <4>6. \A j \in 1 .. Len(items) : mem'[a][j] = items[j]
        BY <3>1, <4>5
      <4> QED BY <3>1, <4>4, <4>6 DEF items, a
    <3> QED BY <3>2, <3>3
  <2>3. ASSUME NEW g, NEW i, NEW q, NEW c, IsListAt(g, i, q, c)'
        PROVE  LET a == <<g, i, q, c>>
                   items == ItemsAt(g, i, q, c)'
               IN  /\ a \in DOMAIN mem'
                   /\ Len(items) \in Nat /\ DOMAIN items = 1 .. Len(items)
                   /\ Len(mem'[a]) \in Nat /\ Len(items) <= Len(mem'[a])
                   /\ \A j \in 1 .. Len(items) : mem'[a][j] = items[j]
    <3>1. IsListAt(g, i, q, c) /\ ItemsAt(g, i, q, c)' = ItemsAt(g, i, q, c)
      BY <1>9, <2>3, Zenon
    <3>2. /\ <<g, i, q, c>> \in DOMAIN mem /\ Len(ItemsAt(g, i, q, c)) \in Nat
          /\ DOMAIN ItemsAt(g, i, q, c) = 1 .. Len(ItemsAt(g, i, q, c))
      BY <3>1 DEF MemInv
    <3> QED BY <2>1, <2>2, <3>1, <3>2
  <2>4. \A a \in DOMAIN mem' : a[1] \in DOMAIN lists'
    BY <1>1, <2>1 DEF MemInv
  <2> QED BY <2>3, <2>4 DEF MemInv, Capacity
<1> QED BY <1>10, <1>11

(* A product that is skipped leaves an entry without claims at most.       *)
LEMMA SkipKeeps ==
    ASSUME RequestInv, MemInv, HeldInv,
           NEW r \in Request, NEW p \in Product, SkipExclusive(r, p)
    PROVE  MemInv' /\ HeldInv'
<1>1. /\ UNCHANGED <<lists, mem>>
      /\ entries' = [entries EXCEPT ![r] = WithEntry(r, p, EntryOf(r, p))]
  BY Zenon DEF SkipExclusive, Visit
<1>2. ASSUME NEW t \in Request, NEW q \in DOMAIN entries'[t],
             NEW k \in DOMAIN entries'[t][q].claims
      PROVE  Covers(entries'[t][q].claims[k])
  <2>1. \/ q \in DOMAIN entries[t] /\ entries'[t][q] = entries[t][q]
        \/ entries'[t][q] = NewEntry
    BY <1>1, <1>2 DEF WithEntry, EntryOf, RequestInv
  <2>2. entries'[t][q] # NewEntry
    BY <1>2 DEF NewEntry
  <2> QED BY <1>2, <2>1, <2>2 DEF HeldInv
<1>3. /\ \A g, i, q, c : IsListAt(g, i, q, c)' <=> IsListAt(g, i, q, c)
      /\ \A g, i, q, c : ItemsAt(g, i, q, c)' = ItemsAt(g, i, q, c)
  BY <1>1, SameLists
<1>4. \A h : Covers(h) => Covers(h)'
  BY <1>1, <1>3 DEF Covers
<1>5. HeldInv'
  BY <1>2, <1>4, Zenon DEF HeldInv
<1>6. MemInv'
  BY <1>1, <1>3 DEF MemInv, Capacity
<1> QED BY <1>5, <1>6

ArrayInv == GenInv /\ MadeInv /\ LicensesInv /\ RequestInv /\ MemInv /\ HeldInv

LEMMA ArrayStart == Init => ArrayInv
<1> SUFFICES ASSUME Init PROVE ArrayInv
  OBVIOUS
<1>1. files = Issued /\ lists = <<>>
  BY Zenon DEF Init, ProductsInit
<1>2. /\ mem = <<>> /\ pc = [r \in Request |-> "off"]
      /\ list = [r \in Request |-> 0] /\ at = [r \in Request |-> 0]
      /\ left = [r \in Request |-> {}] /\ entries = [r \in Request |-> <<>>]
  BY Zenon DEF Init, ProductsInit
<1>3. RequestInv
  BY <1>2 DEF RequestInv
<1>4. DOMAIN lists = {} /\ DOMAIN mem = {}
  BY <1>1, <1>2
<1>5. MemInv
  BY <1>4 DEF MemInv, IsListAt
<1>6. HeldInv
  BY <1>2 DEF HeldInv
<1>7. IsSeq(files) /\ IsSeq(lists)
  BY <1>1, IssuedAssumption DEF IsSeq
<1>8. LicensesInv
  BY <1>1, <1>4, <1>7, IssuedAssumption DEF LicensesInv
<1>9. /\ form = <<>>
      /\ made = [uid |-> Generated, dn |-> "", sin |-> "", products |-> <<>>]
  BY Zenon DEF Init, GenInit
<1>10. "products" \in DOMAIN made /\ "dn" \in DOMAIN made /\ made.dn = "" /\ made.products = <<>>
  BY <1>9
<1>11. MadeInv
  <2> DEFINE empty == <<>>
  <2>0. DOMAIN empty = {}
    OBVIOUS
  <2>1. DOMAIN made.products = {}
    BY <1>10, <2>0, Zenon
  <2>2. form = <<>> /\ made.dn \in Value \cup {""}
    BY <1>9, <1>10
  <2>3. \A p \in DOMAIN made.products : FALSE
    BY <2>1
  <2> QED BY <1>10, <2>2, <2>3, Zenon DEF MadeInv
<1> QED BY <1>3, <1>5, <1>6, <1>8, <1>11, GenStart DEF ArrayInv

LEMMA ArrayStep == ArrayInv /\ [Next]_claimsVars => ArrayInv'
<1> SUFFICES ASSUME ArrayInv, [Next]_claimsVars PROVE ArrayInv'
  OBVIOUS
<1> USE DEF ArrayInv
<1>0. GenInv' /\ MadeInv'
  BY GenStep, MadeKeepsTypes DEF GenInv
<1>1. LicensesInv'
  BY LicensesStep
<1>2. RequestInv'
  BY RequestStep
<1>3. CASE UNCHANGED <<lists, mem, entries>>
  <2>1. /\ \A g, i, q, c : IsListAt(g, i, q, c)' <=> IsListAt(g, i, q, c)
        /\ \A g, i, q, c : ItemsAt(g, i, q, c)' = ItemsAt(g, i, q, c)
    BY <1>3, SameLists
  <2>2. \A h : Covers(h) => Covers(h)'
    BY <1>3, <2>1 DEF Covers
  <2>3. HeldInv'
    BY <1>3, <2>2, Zenon DEF HeldInv
  <2>4. MemInv'
    BY <1>3, <2>1 DEF MemInv, Capacity
  <2> QED BY <1>0, <1>1, <1>2, <2>3, <2>4
<1>4. CASE PublishFiles
  BY <1>0, <1>1, <1>2, <1>4, PublishKeeps
<1>5. ASSUME NEW r \in Request, NEW p \in Product, SkipExclusive(r, p) PROVE ArrayInv'
  BY <1>0, <1>1, <1>2, <1>5, SkipKeeps
<1>6. ASSUME NEW r \in Request, NEW p \in Product, Aggregate(r, p) PROVE ArrayInv'
  BY <1>0, <1>1, <1>2, <1>6, AggregateKeeps
<1>7. \/ UNCHANGED <<lists, mem, entries>> \/ PublishFiles
      \/ \E r \in Request : \E p \in Product : SkipExclusive(r, p) \/ Aggregate(r, p)
  <2>1. CASE \E r \in Request : RequestNext(r)
    BY <2>1, Zenon DEF RequestNext, Read, NextLicense, Respond, RespondFails, LoopEnds, SkipUnwanted, Visit
  <2> QED BY <2>1, Zenon DEF Next, Sign, productsVars, claimsVars, requestVars
<1> QED BY <1>3, <1>4, <1>5, <1>6, <1>7

(* However many requests aggregate the published licenses side by side,    *)
(* appending to their arrays in place, and whatever is published meanwhile, *)
(* a published list shows what was decoded (server/handlers.go:282-305).   *)
THEOREM PublishedIsKept == Spec => []PublishedStays
<1>1. ArrayInv => PublishedStays
  <2> SUFFICES ASSUME ArrayInv, NEW g \in DOMAIN lists, NEW i \in DOMAIN lists[g],
                      NEW p \in DOMAIN lists[g][i].products,
                      NEW k \in DOMAIN lists[g][i].products[p].claims,
                      lists[g][i].products[p].claims[k].kind = "list",
                      NEW j \in DOMAIN lists[g][i].products[p].claims[k].items
               PROVE  mem[<<g, i, p, k>>][j] = lists[g][i].products[p].claims[k].items[j]
    BY Zenon DEF PublishedStays
  <2>1. IsListAt(g, i, p, k) /\ ItemsAt(g, i, p, k) = lists[g][i].products[p].claims[k].items
    BY DEF IsListAt, ItemsAt
  <2> QED BY <2>1 DEF ArrayInv, MemInv
<1> QED BY <1>1, ArrayStart, ArrayStep, PTL DEF Spec
=============================================================================
