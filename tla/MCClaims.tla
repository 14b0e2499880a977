------------------------------- MODULE MCClaims -------------------------------
(* Small instances of Claims for TLC. *)
EXTENDS Claims

Num(n) == [kind |-> "number", n |-> n]
Text(v) == [kind |-> "other", v |-> v]
Domains(items, spare) == [kind |-> "list", items |-> items, spare |-> spare]
Plain(claims) == [claims |-> claims, exclusive |-> FALSE]
With(exp, dn, products) == [exp |-> exp, dn |-> dn, products |-> products]

(* A number and a text by one name, lists with and without room, a product *)
(* that only one of them has; a generated license comes after them.        *)
MCIssued ==
    <<With(1, "x", [gw |-> Plain([users |-> Num(5), domains |-> Domains(<<"a", "b", "c">>, 1)]),
                    meet |-> Plain([users |-> Num(1)])]),
      With(2, "x", [gw |-> Plain([users |-> Text("t"), domains |-> Domains(<<"7", "7">>, 0)])])>>

ClaimKey(product, claim, type) ==
    [to |-> "claim", product |-> product, claim |-> claim, type |-> type]
TopKey(to) == [to |-> to, product |-> "", claim |-> "", type |-> ""]

Users(type) == ClaimKey("gw", "users", type)
Doms(type) == ClaimKey("gw", "domains", type)
MCKey == {TopKey("uid"), TopKey("dn"), TopKey("bad"), ClaimKey("gw", "lid", ""),
          ClaimKey("meet", "", ""), ClaimKey("meet", "users", "int"),
          Users("int"), Users("float"), Users(""),
          Doms("[]string"), Doms(""),
          ClaimKey("gw", ExclusiveClaim, "[]string"), ClaimKey("gw", ExclusiveClaim, "bool")}
MCValue == {"7", "2", "t", "inf"}
MCParses == [v \in MCValue |-> CASE v \in {"7", "2"} -> {"int", "float"}
                                 [] v = "t" -> {"bool"}
                                 [] v = "inf" -> {"float"}]
MCNoJSON == {"inf"}

(* A float type that has 1, 5, 6 and 9 and no number above: 7 is rounded   *)
(* down, 2 is rounded to 1, and what is nearer to 12 than to 9 is infinite. *)
CONSTANT Infinite
MCFinite == {1, 5, 6, 9}
MCFloat == MCFinite \cup {Infinite}
RoundedMC(i) == IF i > 10 THEN Infinite ELSE Nearest(i)
MCPlus == [x \in MCFloat \X MCFloat |->
              IF Infinite \in {x[1], x[2]} THEN Infinite ELSE RoundedMC(x[1] + x[2])]
MCInteger == [v \in MCValue |-> CASE v = "7" -> 7 [] v = "2" -> 2 [] OTHER -> 1]
MCDecimal == [v \in MCValue |-> CASE v = "7" -> 6 [] v = "inf" -> Infinite [] OTHER -> 1]
MCTruth == [v \in MCValue |-> "t"]

One(keys, v) == [k \in keys |-> <<v>>]
MCForm ==
    {[k \in {TopKey("dn"), ClaimKey("gw", "lid", ""), Users("int"), Doms("[]string")} |->
         IF k = Users("int") THEN <<"2">> ELSE <<"7">>],
     (* more than a number can be when it is added to the issued one *)
     One({Users("float")}, "7"),
     (* refused: no int, no dot, a name twice *)
     One({Users("int"), ClaimKey("meet", "", "")}, "t"),
     One({TopKey("uid"), TopKey("bad")}, "t"),
     [k \in {Users("")} |-> <<"t", "t">>],
     One({Users(""), ClaimKey("gw", ExclusiveClaim, "bool")}, "t"),
     (* a float that JSON has not *)
     One({Users("float"), Doms("")}, "inf"),
     (* one claim with two types *)
     One({Users("float"), Users("")}, "inf"),
     One({Doms(""), Doms("[]string")}, "7"),
     One({ClaimKey("gw", ExclusiveClaim, "[]string"), Users("int")}, "7"),
     [k \in {Doms("[]string"), ClaimKey("meet", "", "")} |->
         IF k.claim = "" THEN <<"t">> ELSE <<"t", "7", "t">>]}
MCSymmetry == Permutations(Request)

(* A product with an exclusive claim, and one with an integer that is rounded. *)
MCDocumentedForm ==
    {One({ClaimKey("gw", ExclusiveClaim, "[]string"), ClaimKey("meet", "users", "int")}, "7")}
NoLicense == <<>>
=============================================================================
