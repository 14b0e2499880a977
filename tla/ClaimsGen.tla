------------------------------ MODULE ClaimsGen ------------------------------
(***************************************************************************)
(* GenerateClaims (license/claims-gen.go): license claims from a form.     *)
(* The form is a Go map, so that its keys are read in any order.           *)
(*                                                                         *)
(* A key is a record: to says where it goes, "uid", "dn" or "sin" at the   *)
(* top, "claim" for "product.claim:type", "bad" for a key without a dot;   *)
(* product, claim and type are its parts, type being "" when absent.       *)
(***************************************************************************)
EXTENDS Naturals, Sequences, FiniteSets

CONSTANTS
    Key,        \* keys as above
    Value,      \* values as they are written in a form
    Parses,     \* [Value -> types of {"int", "bool", "float"} it parses as]
    NoJSON,     \* values that parse as a float JSON has not: NaN, infinite
    Form,       \* forms: non-empty sequences of values by key
    Generated   \* stands for a random uid or lid

(* A map has a key once: names at the top stand for themselves.            *)
ASSUME KeyAssumption ==
    \A f \in Form :
        /\ DOMAIN f \subseteq Key
        /\ \A j, k \in DOMAIN f : j.to = k.to /\ k.to \in {"uid", "dn", "sin"} => j = k

VARIABLES
    form,       \* params
    unread,     \* keys the loop has not visited
    made,       \* claims
    outcome     \* "idle", "reading", "ok", "unsent", "error" or "panic"

genVars == <<form, unread, made, outcome>>

ExclusiveClaim == "exclusive"

(* Claims with a place of their own, and the empty name that only makes    *)
(* sure the product is there.                                              *)
IsUnknown(k) == k.to = "claim" /\ k.claim \notin {"lid", ""}

Multi(k) == IsUnknown(k) /\ k.type = "[]string"

NoProduct == [lid |-> Generated, unknown |-> <<>>]

ProductOf(c, p) == IF p \in DOMAIN c.products THEN c.products[p] ELSE NoProduct

Put(f, x, y) == [z \in DOMAIN f \cup {x} |-> IF z = x THEN y ELSE f[z]]

---------------------------------------------------------------------------
(* A type the switch does not know leaves the string.                      *)
Typed(k, values) ==
    IF k.type = "[]string" THEN [type |-> "[]string", items |-> values]
    ELSE [type |-> IF k.type \in {"int", "bool", "float"} THEN k.type ELSE "string",
          value |-> values[1]]

(* Mutant: only a claim of type string may not be called "exclusive".      *)
RefusedUnlessString(k, values) ==
    \/ k.to = "bad"
    \/ k.to = "claim" /\ k.claim = ExclusiveClaim /\ k.type \in {"", "string"}
    \/ IsUnknown(k) /\ k.type \in {"int", "bool", "float"} \ Parses[values[1]]
    \/ ~Multi(k) /\ Len(values) > 1

(* What ends the function with an error.                                   *)
Refused(k, values) ==
    \/ k.to = "bad"
    \/ k.to = "claim" /\ k.claim = ExclusiveClaim /\ k.type # "[]string"
    \/ IsUnknown(k) /\ k.type \in {"int", "bool", "float"} \ Parses[values[1]]
    \/ ~Multi(k) /\ Len(values) > 1

(* Mutant: every type takes the value that is there to be its own.         *)
MismatchAnyType(k) ==
    /\ IsUnknown(k)
    /\ k.claim \in DOMAIN ProductOf(made, k.product).unknown
    /\ ProductOf(made, k.product).unknown[k.claim].type # k.type

(* The assertion cv.([]string) on what another key has put there.          *)
Mismatch(k) ==
    /\ Multi(k)
    /\ k.claim \in DOMAIN ProductOf(made, k.product).unknown
    /\ ProductOf(made, k.product).unknown[k.claim].type # "[]string"

---------------------------------------------------------------------------
GenInit ==
    /\ form = <<>>
    /\ unread = {}
    /\ made = [uid |-> Generated, dn |-> "", sin |-> "", products |-> <<>>]
    /\ outcome = "idle"

Generate ==
    /\ outcome = "idle"
    /\ form' \in Form
    /\ unread' = DOMAIN form'
    /\ outcome' = "reading"
    /\ UNCHANGED made

Visited(k) ==
    /\ outcome = "reading"
    /\ k \in unread
    /\ unread' = unread \ {k}
    /\ UNCHANGED form

TopClaim(k) ==
    /\ Visited(k)
    /\ k.to \in {"uid", "dn", "sin"}
    /\ ~Refused(k, form[k])
    /\ made' = [made EXCEPT ![k.to] = form[k][1]]
    /\ UNCHANGED outcome

(* Values of a []string are appended to those of another key with its      *)
(* name; any other type replaces what was there.                           *)
ProductClaim(k) ==
    /\ Visited(k)
    /\ k.to = "claim"
    /\ ~Refused(k, form[k]) /\ ~Mismatch(k)
    /\ LET old == ProductOf(made, k.product)
           have == IF k.claim \in DOMAIN old.unknown /\ Multi(k)
                   THEN old.unknown[k.claim].items ELSE <<>>
           new == IF k.claim = "lid" THEN [old EXCEPT !.lid = form[k][1]]
                  ELSE IF k.claim = "" THEN old
                  ELSE [old EXCEPT !.unknown = Put(@, k.claim, Typed(k, have \o form[k]))]
       IN  made' = [made EXCEPT !.products = Put(@, k.product, new)]
    /\ UNCHANGED outcome

(* Return nil and the error.                                               *)
RefuseKey(k) ==
    /\ Visited(k)
    /\ Refused(k, form[k])
    /\ outcome' = "error"
    /\ UNCHANGED made

Panic(k) ==
    /\ Visited(k)
    /\ ~Refused(k, form[k])
    /\ Mismatch(k)
    /\ outcome' = "panic"
    /\ UNCHANGED made

(* What encoding/json refuses to encode.                                   *)
Refuses(typed) == typed.type = "float" /\ typed.value \in NoJSON

EncodableClaims(claims) ==
    \A p \in DOMAIN claims.products : \A c \in DOMAIN claims.products[p].unknown :
        ~Refuses(claims.products[p].unknown[c])

(* GenerateClaims returns; the handler answers with the claims.            *)
Return ==
    /\ outcome = "reading"
    /\ unread = {}
    /\ EncodableClaims(made)
    /\ outcome' = "ok"
    /\ UNCHANGED <<form, unread, made>>

(* The error of the encoder is logged, the answer is 200 and empty.        *)
EncodeFails ==
    /\ outcome = "reading"
    /\ unread = {}
    /\ ~EncodableClaims(made)
    /\ outcome' = "unsent"
    /\ UNCHANGED <<form, unread, made>>

GenNext ==
    \/ Generate \/ Return \/ EncodeFails
    \/ \E k \in unread : TopClaim(k) \/ ProductClaim(k) \/ RefuseKey(k) \/ Panic(k)

---------------------------------------------------------------------------
SameClaim(j, k) ==
    j.to = "claim" /\ k.to = "claim" /\ j.product = k.product /\ j.claim = k.claim

NamedOnce(f) == \A j, k \in DOMAIN f : SameClaim(j, k) => j = k

Top(f, name, default) ==
    IF \E k \in DOMAIN f : k.to = name
    THEN f[CHOOSE k \in DOMAIN f : k.to = name][1] ELSE default

(* The claims a form asks for, if it names each once.                      *)
KeysOf(f, p) == {k \in DOMAIN f : k.to = "claim" /\ k.product = p}

KeyOf(f, p, c) == CHOOSE k \in KeysOf(f, p) : k.claim = c

NamesOf(f, p) == {k.claim : k \in {k \in KeysOf(f, p) : IsUnknown(k)}}

ProductAskedFor(f, p) ==
    [lid |-> IF \E k \in KeysOf(f, p) : k.claim = "lid" THEN f[KeyOf(f, p, "lid")][1]
             ELSE Generated,
     unknown |-> [c \in NamesOf(f, p) |-> Typed(KeyOf(f, p, c), f[KeyOf(f, p, c)])]]

AskedFor(f) ==
    [uid |-> Top(f, "uid", Generated), dn |-> Top(f, "dn", ""), sin |-> Top(f, "sin", ""),
     products |-> [p \in {k.product : k \in {k \in DOMAIN f : k.to = "claim"}} |->
                      ProductAskedFor(f, p)]]

(* The types and duplicates that docs/license-ca-and-signing.md:83-92      *)
(* allow, and the type of "exclusive".                                     *)
Allowed(k, values) ==
    /\ k.to # "bad"
    /\ k.type # "[]string" \/ ~IsUnknown(k) => Len(values) = 1
    /\ k.to = "claim" /\ k.claim = ExclusiveClaim => k.type = "[]string"
    /\ IsUnknown(k) /\ k.type \in {"int", "bool", "float"} => k.type \in Parses[values[1]]

(* The order of the keys does not matter as long as the form names each    *)
(* claim once: it is refused if one key is, and yields what it asks for    *)
(* if none is; that is answered unless it has a float without JSON         *)
(* (license/claims-gen.go:34-114, server/handlers.go:91-109).              *)
OrderIsIrrelevant ==
    NamedOnce(form) =>
        /\ outcome # "panic"
        /\ outcome \in {"ok", "unsent", "error"} =>
             (outcome = "error" <=> \E k \in DOMAIN form : ~Allowed(k, form[k]))
        /\ outcome \in {"ok", "unsent"} =>
             /\ made = AskedFor(form)
             /\ outcome = "unsent" <=> \E k \in DOMAIN form :
                    IsUnknown(k) /\ k.type = "float" /\ form[k][1] \in NoJSON

(* The type assertion fails only on two keys for one claim, one of them a  *)
(* []string and the other not (license/claims-gen.go:101-104).             *)
PanicNeedsMixedTypes ==
    outcome = "panic" =>
        \E j, k \in DOMAIN form : SameClaim(j, k) /\ Multi(j) /\ ~Multi(k)
=============================================================================
