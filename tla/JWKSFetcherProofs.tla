------------------------- MODULE JWKSFetcherProofs -------------------------
(***************************************************************************)
(* Theorems about JWKSFetcher, for any number of URIs and of retries.      *)
(***************************************************************************)
EXTENDS JWKSFetcher, TLAPS

(* Only a try that is not the last one is followed by a pause.             *)
TypeInv == TypeOK /\ (pc = "backoff" => attempt < MaxRetries)

LEMMA InitType == Init => TypeInv
<1> SUFFICES ASSUME Init PROVE TypeInv
  OBVIOUS
<1>1. 0 \in 0 .. MaxOutages /\ 1 \in 1 .. MaxRetries /\ 1 \in Versions
  BY SizeAssumption DEF Versions
<1>2. served \in [URIs -> Versions] /\ up \in [URIs -> BOOLEAN]
  BY <1>1 DEF Init
<1>3. pc # "backoff"
  BY DEF Init
<1> QED BY <1>1, <1>2, <1>3, Zenon DEF Init, TypeInv, TypeOK

LEMMA NextKeepsType == TypeInv /\ [Next]_vars => TypeInv'
<1> SUFFICES ASSUME TypeInv, [Next]_vars PROVE TypeInv'
  OBVIOUS
<1> USE SizeAssumption DEF TypeInv, TypeOK, serverVars, fetcherVars, ghostVars, Return
<1>1. ASSUME NEW u \in URIs, Replace(u) PROVE TypeInv'
  BY <1>1 DEF Replace
<1>2. ASSUME NEW u \in URIs, GoDown(u) PROVE TypeInv'
  BY <1>2 DEF GoDown
<1>3. ASSUME NEW u \in URIs, ComeUp(u) PROVE TypeInv'
  BY <1>3 DEF ComeUp
<1>4. CASE Cancel
  BY <1>4 DEF Cancel
<1>5. CASE Call
  BY <1>5 DEF Call
<1>6. CASE NotModified
  BY <1>6 DEF NotModified
<1>7. CASE Loaded
  <2>1. Asked \in URIs
    BY DEF Asked, URIs
  <2> QED BY <1>7, <2>1 DEF Loaded
<1>8. CASE TryFails
  BY <1>8 DEF TryFails, LastTry
<1>9. CASE Retry
  BY <1>9 DEF Retry
<1>10. CASE GiveUp
  BY <1>10 DEF GiveUp
<1>11. CASE UNCHANGED vars
  BY <1>11 DEF vars
<1> QED BY <1>1, <1>2, <1>3, <1>4, <1>5, <1>6, <1>7, <1>8, <1>9, <1>10, <1>11
        DEF Next, Update

LEMMA TypeInvHolds == Spec => []TypeInv
BY InitType, NextKeepsType, PTL DEF Spec

(* Every variable of the fetcher keeps its type: there are never more than *)
(* MaxRetries tries (jwks.go:44-108).                                      *)
THEOREM TypeCorrect == Spec => []TypeOK
<1>1. TypeInv => TypeOK
  BY DEF TypeInv
<1> QED BY <1>1, TypeInvHolds, PTL

---------------------------------------------------------------------------
(* The tries go up the list of URIs, so a server that was up all the time  *)
(* is still ahead of the try, unless the fetcher is cancelled.             *)
Ahead ==
    /\ steady \subseteq {u \in URIs : up[u]}
    /\ pc = "request" /\ ~cancelled => \A u \in steady : u >= attempt
    /\ pc = "backoff" /\ ~cancelled => \A u \in steady : u > attempt

LEMMA AheadStep == TypeInv /\ TypeInv' /\ Ahead /\ [Next]_vars => Ahead'
<1> SUFFICES ASSUME TypeInv, TypeInv', Ahead, [Next]_vars PROVE Ahead'
  OBVIOUS
<1>0. attempt \in Nat \ {0} /\ attempt' \in Nat \ {0} /\ URIs \subseteq Nat \ {0}
  BY SizeAssumption DEF TypeInv, TypeOK, URIs
<1> USE DEF Ahead, serverVars, fetcherVars, ghostVars, Return
<1>1. ASSUME NEW u \in URIs, Replace(u) \/ GoDown(u) \/ ComeUp(u) PROVE Ahead'
  BY <1>1 DEF Replace, GoDown, ComeUp, TypeInv, TypeOK
<1>2. CASE Cancel
  BY <1>2 DEF Cancel
<1>3. CASE Call
  BY <1>0, <1>3 DEF Call
<1>4. CASE NotModified \/ Loaded \/ GiveUp
  BY <1>4 DEF NotModified, Loaded, GiveUp
<1>5. CASE TryFails
  <2>1. CASE ~up[Asked] /\ ~cancelled
    <3>1. \A u \in steady : u >= attempt /\ u # Asked /\ u <= NumURIs
      BY <1>5, <2>1 DEF TryFails, URIs
    <3>2. \A u \in steady : u > attempt
      BY <1>0, <3>1, SizeAssumption DEF Asked
    <3> QED BY <1>5, <2>1, <3>2 DEF TryFails
  <2>2. CASE cancelled
    BY <1>5, <2>2 DEF TryFails
  <2> QED BY <1>5, <2>1, <2>2 DEF TryFails
<1>6. CASE Retry
  BY <1>0, <1>6 DEF Retry
<1>7. CASE UNCHANGED vars
  BY <1>7 DEF vars
<1> QED BY <1>1, <1>2, <1>3, <1>4, <1>5, <1>6, <1>7 DEF Next, Update

(* An Update does not fail while one of the servers it gets to try answers *)
(* all the time, unless it is cancelled (jwks.go:43-49, 97-108).           *)
THEOREM OneServerSuffices == Spec => OneServerIsEnough
<1>1. Init => Ahead
  BY DEF Init, Ahead
<1>2. ASSUME TypeInv, Ahead, Next, outcome' = "error", pc # "idle", pc' = "idle",
             ~cancelled, NEW u \in steady
      PROVE  u > MaxRetries
  <2>1. TryFails /\ attempt >= MaxRetries
    BY <1>2 DEF Next, Update, Replace, GoDown, ComeUp, Cancel, Call, NotModified, Loaded,
                TryFails, LastTry, Retry, GiveUp, Return, fetcherVars
  <2>2. ~up[Asked] /\ pc = "request"
    BY <1>2, <2>1 DEF TryFails
  <2>3. u >= attempt /\ u # Asked /\ u \in 1 .. NumURIs
    BY <1>2, <2>2 DEF Ahead, URIs
  <2>4. attempt \in Nat \ {0}
    BY <1>2 DEF TypeInv, TypeOK
  <2> QED BY <2>1, <2>3, <2>4, SizeAssumption DEF Asked
<1>3. TypeInv /\ Ahead /\ Next =>
        (outcome' = "error" /\ pc # "idle" /\ pc' = "idle" /\ ~cancelled =>
            \A u \in steady : u > MaxRetries)
  BY <1>2
<1>4. TypeInv /\ Ahead /\ [Next]_vars =>
        [outcome' = "error" /\ pc # "idle" /\ pc' = "idle" /\ ~cancelled =>
            \A u \in steady : u > MaxRetries]_vars
  BY <1>3, Zenon
<1> QED BY <1>1, <1>4, AheadStep, TypeInvHolds, PTL DEF Spec, OneServerIsEnough

---------------------------------------------------------------------------
(* The keys in use and the ETag come from one response of some URI.        *)
THEOREM TagsMatch == Spec => []TagMatchesKeys
<1>1. Init => TagMatchesKeys
  BY DEF Init, TagMatchesKeys
<1>2. TypeInv /\ TagMatchesKeys /\ [Next]_vars => TagMatchesKeys'
  <2> SUFFICES ASSUME TypeInv, TagMatchesKeys, [Next]_vars PROVE TagMatchesKeys'
    OBVIOUS
  <2>1. CASE Loaded
    <3>1. Asked \in URIs
      BY SizeAssumption DEF TypeInv, TypeOK, Asked, URIs
    <3>2. jwks' = served[Asked] /\ etag' = Tag(Asked, served[Asked])
      BY <2>1 DEF Loaded
    <3>3. jwks' # NoKeys /\ source' = Asked
      BY <2>1, <3>1, <3>2, SizeAssumption DEF TypeInv, TypeOK, Loaded
    <3> QED BY <3>1, <3>2, <3>3 DEF TagMatchesKeys
  <2>2. CASE UNCHANGED <<jwks, etag, source>>
    BY <2>2 DEF TagMatchesKeys
  <2>3. Loaded \/ UNCHANGED <<jwks, etag, source>>
    BY Zenon DEF Next, Update, Replace, GoDown, ComeUp, Cancel, Call, NotModified, TryFails,
                 Retry, GiveUp, fetcherVars, ghostVars, vars
  <2> QED BY <2>1, <2>2, <2>3
<1> QED BY <1>1, <1>2, TypeInvHolds, PTL DEF Spec

(* A fetch that reports no change has just seen a server that serves the   *)
(* keys in use, if these came from that server (jwks.go:59-72, 88-94),     *)
(* whatever tags the servers give: of these only TagAssumption is used.    *)
THEOREM UnchangedMeansCurrent == Spec => UnchangedIsCurrent
<1>1. ASSUME TypeInv, TagMatchesKeys, Next,
             pc = "request", pc' = "idle", outcome' = "unchanged", source = Asked
      PROVE  jwks = served[Asked]
  <2>1. NotModified
    BY <1>1 DEF Next, Update, Replace, GoDown, ComeUp, Cancel, Call, Loaded, TryFails, LastTry,
                Retry, GiveUp, Return, fetcherVars
  <2>2. Asked \in URIs /\ served[Asked] \in Versions
    BY <1>1, SizeAssumption DEF TypeInv, TypeOK, Asked, URIs
  <2>3. etag # NoTag /\ Tag(Asked, served[Asked]) = etag
    BY <2>1, Zenon DEF NotModified, Matching
  <2>4. jwks # NoKeys /\ etag = Tag(Asked, jwks)
    BY <1>1, <2>3 DEF TagMatchesKeys
  <2>5. jwks \in Versions
    BY <1>1, <2>4 DEF TypeInv, TypeOK
  <2> QED BY <2>2, <2>3, <2>4, <2>5, TagAssumption
<1>2. TypeInv /\ TagMatchesKeys /\ [Next]_vars =>
        [pc = "request" /\ pc' = "idle" /\ outcome' = "unchanged" /\ source = Asked =>
            jwks = served[Asked]]_vars
  BY <1>1, Zenon
<1> QED BY <1>2, TypeInvHolds, TagsMatch, PTL DEF Spec, UnchangedIsCurrent

---------------------------------------------------------------------------
(* The offline state tells how the last Update ended (jwks.go:88-108): a   *)
(* pause follows only a failed try.                                        *)
OfflineInv == OfflineIsLastOutcome /\ (pc = "backoff" => offline = TRUE)

THEOREM OfflineTellsOutcome == Spec => []OfflineIsLastOutcome
<1>1. Init => OfflineInv
  BY DEF Init, OfflineInv, OfflineIsLastOutcome
<1>2. OfflineInv /\ [Next]_vars => OfflineInv'
  <2> SUFFICES ASSUME OfflineInv, [Next]_vars PROVE OfflineInv'
    OBVIOUS
  <2> USE DEF OfflineInv, OfflineIsLastOutcome, Return
  <2>1. CASE NotModified \/ Loaded
    BY <2>1 DEF NotModified, Loaded
  <2>2. CASE TryFails
    BY <2>2 DEF TryFails
  <2>3. CASE Call \/ Retry \/ GiveUp
    BY <2>3 DEF Call, Retry, GiveUp
  <2>4. CASE UNCHANGED <<pc, offline, outcome>>
    BY <2>4
  <2>5. \/ NotModified \/ Loaded \/ TryFails \/ Call \/ Retry \/ GiveUp
        \/ UNCHANGED <<pc, offline, outcome>>
    BY Zenon DEF Next, Update, Replace, GoDown, ComeUp, Cancel, fetcherVars, vars
  <2> QED BY <2>1, <2>2, <2>3, <2>4, <2>5
<1>3. OfflineInv => OfflineIsLastOutcome
  BY DEF OfflineInv
<1> QED BY <1>1, <1>2, <1>3, PTL DEF Spec
=============================================================================
