-------------------------- MODULE MCLicensesLoader --------------------------
(***************************************************************************)
(* Instances of LicensesLoader for TLC.                                     *)
(***************************************************************************)
EXTENDS LicensesLoader

L(jti, uid, iat, from, kid, cert) ==
    [jti |-> jti, uid |-> uid, iat |-> iat, from |-> from, until |-> 9, kid |-> kid,
     signed |-> TRUE, cert |-> cert, wellformed |-> TRUE]

(* Two licenses that replace each other, the newer one without "jti" and   *)
(* under a key that may be missing; and one without "uid", which is not    *)
(* valid at first and has the ID of the older one.                         *)
MCLicense ==
    {L("a", "u", 1, 0, "k1", TRUE), L(NoId, "u", 2, 0, "k2", TRUE),
     L("a", NoUid, 2, 2, "k1", FALSE)}

MCKeySets == {{"k1"}, {"k1", "k2"}}
=============================================================================
