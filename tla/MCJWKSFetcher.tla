--------------------------- MODULE MCJWKSFetcher ---------------------------
(* Instances of JWKSFetcher for TLC: the tags the servers give, which name *)
(* a version within one URI and may collide between two.                   *)
EXTENDS JWKSFetcher

(* The second server gives its first key set no tag, and then the tags     *)
(* that the others give to the key set before.                             *)
MixedTag == [x \in URIs \X Versions |->
    IF x[1] # 2 THEN x[2] ELSE IF x[2] = 1 THEN NoTag ELSE x[2] - 1]
=============================================================================
