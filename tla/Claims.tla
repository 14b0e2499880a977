-------------------------------- MODULE Claims --------------------------------
(***************************************************************************)
(* The way of license claims: ClaimsGen makes them from a form, they are   *)
(* signed into a license file, kustomerd decodes and publishes it, and     *)
(* Products aggregates it with others (docs/license-ca-and-signing.md).    *)
(***************************************************************************)
EXTENDS Products, ClaimsGen, Integers

CONSTANTS
    Issued,     \* licenses that are there already, from old to new
    Integer,    \* [Value -> int64 it parses as]
    Decimal,    \* [Value -> float64 it parses as]
    Truth,      \* [Value -> bool it parses as]
    MaxPublish  \* bound: publications

ASSUME IssuedAssumption ==
    /\ Issued \in Seq(ToSet(Issued)) /\ \A n \in DOMAIN Issued : IsLicense(Issued[n])
    /\ Value \subseteq Item

(* Finite numbers are counted in units of the smallest float64, which has  *)
(* all of them as a multiple.                                              *)
Distance(x, y) == IF x >= y THEN x - y ELSE y - x

IsNearest(x, i) == x \in Finite /\ \A y \in Finite : Distance(x, i) <= Distance(y, i)

(* Which of two that are as near is left open.                             *)
Nearest(i) == CHOOSE x \in Finite : IsNearest(x, i)

(* What a value that does not parse as a type is mapped to does not matter. *)
ASSUME NumberAssumption ==
    /\ Finite \subseteq Int
    /\ Integer \in [Value -> Int] /\ Decimal \in [Value -> Float] /\ Truth \in [Value -> Item]
    /\ \A v \in Value : /\ \E x \in Finite : IsNearest(x, Integer[v])
                        /\ Decimal[v] \in Finite <=> v \notin NoJSON

(* A form has claims of these products, with or without a type.            *)
ASSUME FormAssumption ==
    \A f \in Form : \A k \in DOMAIN f :
        /\ f[k] \in Seq(Value) \ {<<>>}
        /\ k.to = "claim" => /\ k.product \in Product
                             /\ k.claim \in Claim \cup {"", "lid", ExclusiveClaim}

VARIABLES
    files       \* licenses in the folder, from old to new

claimsVars == <<files, productsVars, genVars>>

---------------------------------------------------------------------------
(* Slots that are free when append has made room for n items one by one,   *)
(* doubling the array as needed: those up to the next power of two.        *)
Spare(n) ==
    LET powers == {2 ^ e : e \in 0 .. n}
    IN  Cardinality({c \in n + 1 .. 2 * n : powers \cap (n .. c - 1) = {}})

(* Mutant: an integer is encoded as a string.                              *)
FromJSONText(typed) ==
    CASE typed.type = "float" -> [kind |-> "number", n |-> Decimal[typed.value]]
      [] typed.type = "bool" -> [kind |-> "other", v |-> Truth[typed.value]]
      [] typed.type = "[]string" ->
            [kind |-> "list", items |-> typed.items, spare |-> Spare(Len(typed.items))]
      [] OTHER -> [kind |-> "other", v |-> typed.value]

(* MarshalJSON and UnmarshalJSON: an int64 is written in full and read as  *)
(* the nearest float64, a float64 is written so that it is read as itself, *)
(* a []string comes back as a []interface{}, "lid" gets its own field.     *)
FromJSON(typed) ==
    CASE typed.type = "int" -> [kind |-> "number", n |-> Nearest(Integer[typed.value])]
      [] typed.type = "float" -> [kind |-> "number", n |-> Decimal[typed.value]]
      [] typed.type = "bool" -> [kind |-> "other", v |-> Truth[typed.value]]
      [] typed.type = "[]string" ->
            [kind |-> "list", items |-> typed.items, spare |-> Spare(Len(typed.items))]
      [] OTHER -> [kind |-> "other", v |-> typed.value]

UnmarshalJSON(product) ==
    [claims |-> [c \in DOMAIN product.unknown \ {ExclusiveClaim} |->
                    FromJSON(product.unknown[c])],
     exclusive |-> ExclusiveClaim \in DOMAIN product.unknown]

LicenseOf(claims, exp) ==
    [exp |-> exp, dn |-> IF claims.dn = "" THEN NoName ELSE claims.dn,
     products |-> [p \in DOMAIN claims.products |-> UnmarshalJSON(claims.products[p])]]

---------------------------------------------------------------------------
Init ==
    /\ files = Issued
    /\ ProductsInit
    /\ GenInit

(* Somebody signs generated claims; the form is done with.                 *)
Sign ==
    /\ outcome = "ok"
    /\ Len(files) = Len(Issued)
    /\ files' = Append(files, LicenseOf(made, Len(files) + 1))
    /\ UNCHANGED <<productsVars, genVars>>

(* Any of the files may be valid and active at a time; only changes are    *)
(* published.                                                              *)
PublishFiles ==
    /\ Len(lists) < MaxPublish
    /\ \E n \in 0 .. Len(files) : \E order \in [1 .. n -> DOMAIN files] :
         LET found == [m \in 1 .. n |-> files[order[m]]]
         IN  /\ \A m \in 1 .. n - 1 : order[m] < order[m + 1]
             /\ lists # <<>> => found # Last(lists)
             /\ Publish(found)
    /\ UNCHANGED <<files, genVars>>

Next ==
    \/ GenNext /\ UNCHANGED <<files, productsVars>>
    \/ (\E r \in Request : RequestNext(r)) /\ UNCHANGED <<files, genVars>>
    \/ Sign
    \/ PublishFiles

Spec == Init /\ [][Next]_claimsVars

---------------------------------------------------------------------------
TypeOK ==
    /\ \A n \in DOMAIN files : IsLicense(files[n])
    /\ ProductsTypeOK
    /\ outcome \in {"idle", "reading", "ok", "unsent", "error", "panic"}

(* What a claim of a form has to show in an answer: an integer may have    *)
(* been rounded to a float64, all else is as the form gives it.            *)
Shows(h, k, values) ==
    CASE k.type = "[]string" -> h.kind = "list" /\ Items(h) = values
      [] k.type = "int" -> h.kind = "number" /\ IsNearest(h.n, Integer[values[1]])
      [] k.type = "float" -> h.kind = "number" /\ h.n = Decimal[values[1]]
      [] k.type = "bool" -> h.kind = "other" /\ h.v = Truth[values[1]]
      [] OTHER -> h.kind = "other" /\ h.v = values[1]

(* Generated claims are served as the form asked for them, once they are   *)
(* the only active license, if the form names no claim twice and none      *)
(* "exclusive": over the way through JSON a claim keeps its kind and its   *)
(* value, but for integers beyond what a float64 holds exactly.            *)
GeneratedIsServed ==
    \A r \in Request :
        /\ pc[r] = "done"
        /\ NamedOnce(form)
        /\ \A k \in DOMAIN form : k.to = "claim" => k.claim # ExclusiveClaim
        /\ Len(files) > Len(Issued) /\ lists[list[r]] = <<files[Len(files)]>>
        => \A k \in DOMAIN form :
               /\ k.to = "claim" /\ k.product \in wanted[r] =>
                    k.product \in DOMAIN entries[r]
               /\ IsUnknown(k) /\ k.product \in wanted[r] =>
                    Shows(entries[r][k.product].claims[k.claim], k, form[k])

(* The type "int" is documented as a "64-bit integer (base 10)"            *)
(* (docs/license-ca-and-signing.md:86), so that the answer should have the *)
(* integer the form gave; the float64 that JSON makes of it need not.      *)
IntegersAreServed ==
    \A r \in Request :
        pc[r] = "done" /\ Len(files) > Len(Issued) /\ lists[list[r]] = <<files[Len(files)]>> =>
            \A k \in DOMAIN form :
                IsUnknown(k) /\ k.type = "int" /\ k.product \in wanted[r] =>
                    entries[r][k.product].claims[k.claim].n = Integer[form[k][1]]

(* What the documents promise of a license that is alone, that its product *)
(* claims are activated or at least that its integers are served in full:  *)
(* a counterexample breaks both promises at once (handlers.go:222,         *)
(* license/license.go:26).                                                 *)
ServedAsDocumented == OnlyLicenseIsActivated \/ IntegersAreServed
=============================================================================
