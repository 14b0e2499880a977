---------------------------- MODULE JWKSFetcher ----------------------------
(***************************************************************************)
(* JWKSFetcher.Update (jwks.go:36-110): one fetch of the key set, with     *)
(* retries over the configured URIs, against servers that come and go and  *)
(* whose key sets are replaced.  A key set is a version number.            *)
(***************************************************************************)
EXTENDS Naturals

CONSTANTS
    NumURIs,        \* len(URIs); they are numbered from 1
    MaxRetries,     \* the fetcher's MaxRetries; the daemon sets 3
    MaxVersion,     \* bound: key sets that are ever served
    MaxOutages,     \* bound: times a server goes down
    TagOf,          \* [1..NumURIs \X 1..MaxVersion -> ETag a server gives]
    NoTag,          \* etag == ""
    NoKeys          \* jwks == nil

URIs == 1 .. NumURIs
Versions == 1 .. MaxVersion

ASSUME SizeAssumption ==
    /\ NumURIs \in Nat \ {0} /\ MaxRetries \in Nat \ {0}
    /\ MaxVersion \in Nat \ {0} /\ MaxOutages \in Nat
    /\ NoKeys \notin Versions

(* The ETag header in the response of u, if it serves version v.           *)
Tag(u, v) == TagOf[<<u, v>>]

(* What HTTP promises of an ETag: within one resource it names one content *)
(* (RFC 7232, 2.3).  Two URIs may well give the same one.                  *)
ASSUME TagAssumption ==
    \A u \in URIs : \A x, y \in Versions :
        Tag(u, x) = Tag(u, y) /\ Tag(u, x) # NoTag => x = y

VARIABLES
    served,     \* [URIs -> version that the server has now]
    up,         \* [URIs -> BOOLEAN]: the server answers with status 200 or 304
    outages,    \* how often a server went down
    cancelled,  \* the context of Update is cancelled
    pc,         \* "idle", "request" or "backoff"
    attempt,    \* the number of the try
    jwks,       \* jwksf.jwks
    etag,       \* jwksf.etag
    offline,    \* jwksf.offline
    outcome,    \* what the last Update returned
    steady,     \* ghost: servers that were up ever since Update was called
    source      \* ghost: the URI that jwks and etag come from, 0 if none

serverVars == <<served, up, outages, cancelled>>
fetcherVars == <<pc, attempt, jwks, etag, offline, outcome>>
ghostVars == <<steady, source>>
vars == <<serverVars, fetcherVars, ghostVars>>

(* Mutant: every try goes to the first URI.                                *)
AskedFirst == 1

(* Tries beyond the last URI go to the first one.                          *)
Asked == IF attempt > NumURIs THEN 1 ELSE attempt

Init ==
    /\ served = [u \in URIs |-> 1]
    /\ up \in [URIs -> BOOLEAN]
    /\ outages = 0
    /\ cancelled = FALSE
    /\ pc = "idle"
    /\ attempt = 1
    /\ jwks = NoKeys
    /\ etag = NoTag
    /\ offline = FALSE
    /\ outcome = "none"
    /\ steady = {}
    /\ source = 0

---------------------------------------------------------------------------
(* A server gets a newer key set than the one it has.                      *)
Replace(u) ==
    /\ \E v \in Versions : v > served[u] /\ served' = [served EXCEPT ![u] = v]
    /\ UNCHANGED <<up, outages, cancelled, fetcherVars, ghostVars>>

GoDown(u) ==
    /\ up[u]
    /\ outages < MaxOutages
    /\ up' = [up EXCEPT ![u] = FALSE]
    /\ outages' = outages + 1
    /\ steady' = steady \ {u}
    /\ UNCHANGED <<served, cancelled, fetcherVars, source>>

ComeUp(u) ==
    /\ ~up[u]
    /\ up' = [up EXCEPT ![u] = TRUE]
    /\ UNCHANGED <<served, outages, cancelled, fetcherVars, ghostVars>>

Cancel ==
    /\ ~cancelled
    /\ cancelled' = TRUE
    /\ UNCHANGED <<served, up, outages, fetcherVars, ghostVars>>

---------------------------------------------------------------------------
Call ==
    /\ pc = "idle"
    /\ ~cancelled
    /\ pc' = "request"
    /\ attempt' = 1
    /\ steady' = {u \in URIs : up[u]}
    /\ UNCHANGED <<serverVars, jwks, etag, offline, outcome, source>>

Return(result) ==
    /\ pc' = "idle"
    /\ outcome' = result
    /\ UNCHANGED <<serverVars, attempt, steady>>

(* The request carries the ETag of the key set that was loaded last, from  *)
(* whichever URI that came.                                                *)
Matching(u) == etag # NoTag /\ Tag(u, served[u]) = etag

(* Mutant: only a new key set ends the offline state.                      *)
NotModifiedOffline ==
    /\ pc = "request"
    /\ up[Asked]
    /\ ~cancelled
    /\ Matching(Asked)
    /\ Return("unchanged")
    /\ UNCHANGED <<jwks, etag, offline, source>>

NotModified ==
    /\ pc = "request"
    /\ up[Asked]
    /\ ~cancelled
    /\ Matching(Asked)
    /\ offline' = FALSE
    /\ Return("unchanged")
    /\ UNCHANGED <<jwks, etag, source>>

(* Mutant: a response without ETag leaves the last one in place.           *)
LoadedKeepsTag ==
    /\ pc = "request"
    /\ up[Asked]
    /\ ~cancelled
    /\ ~Matching(Asked)
    /\ jwks' = served[Asked]
    /\ source' = Asked
    /\ LET tag == Tag(Asked, served[Asked])
       IN  etag' = IF tag = NoTag THEN etag ELSE tag
    /\ offline' = FALSE
    /\ Return("keys")

Loaded ==
    /\ pc = "request"
    /\ up[Asked]
    /\ ~cancelled
    /\ ~Matching(Asked)
    /\ jwks' = served[Asked]
    /\ source' = Asked
    /\ etag' = Tag(Asked, served[Asked])
    /\ offline' = FALSE
    /\ Return("keys")

(* Mutant: one try too many.                                               *)
LastTryOffByOne == attempt > MaxRetries

LastTry == attempt >= MaxRetries

(* The server is down, answers with another status or sends what cannot be *)
(* decoded; or the cancelled context fails the request.                    *)
TryFails ==
    /\ pc = "request"
    /\ ~up[Asked] \/ cancelled
    /\ offline' = TRUE
    /\ IF LastTry
       THEN Return("error")
       ELSE pc' = "backoff" /\ UNCHANGED <<serverVars, attempt, outcome, steady>>
    /\ UNCHANGED <<jwks, etag, source>>

(* Mutant: the tries are not counted.                                      *)
RetryUncounted ==
    /\ pc = "backoff"
    /\ pc' = "request"
    /\ UNCHANGED <<serverVars, attempt, jwks, etag, offline, outcome, ghostVars>>

(* The timer of attempt * 5 seconds.                                       *)
Retry ==
    /\ pc = "backoff"
    /\ attempt' = attempt + 1
    /\ pc' = "request"
    /\ UNCHANGED <<serverVars, jwks, etag, offline, outcome, ghostVars>>

GiveUp ==
    /\ pc = "backoff"
    /\ cancelled
    /\ Return("cancelled")
    /\ UNCHANGED <<jwks, etag, offline, source>>

---------------------------------------------------------------------------
Update == NotModified \/ Loaded \/ TryFails \/ Retry \/ GiveUp

Next ==
    \/ Call
    \/ Update
    \/ \E u \in URIs : Replace(u) \/ GoDown(u) \/ ComeUp(u)
    \/ Cancel

Spec == Init /\ [][Next]_vars

(* A request ends by its timeout of 30 seconds, and timers fire.           *)
FairSpec == Spec /\ WF_vars(Update)

---------------------------------------------------------------------------
TypeOK ==
    /\ served \in [URIs -> Versions]
    /\ up \in [URIs -> BOOLEAN]
    /\ outages \in 0 .. MaxOutages
    /\ cancelled \in BOOLEAN
    /\ pc \in {"idle", "request", "backoff"}
    /\ attempt \in 1 .. MaxRetries
    /\ jwks \in {NoKeys} \cup Versions
    /\ offline \in BOOLEAN
    /\ outcome \in {"none", "keys", "unchanged", "error", "cancelled"}
    /\ steady \subseteq URIs
    /\ source \in {0} \cup URIs

(* The keys and the ETag in use come from the same response of one URI,    *)
(* whatever tries failed in between (jwks.go:88-94).                       *)
TagMatchesKeys ==
    IF jwks = NoKeys THEN etag = NoTag /\ source = 0
    ELSE source \in URIs /\ etag = Tag(source, jwks)

(* A fetch that reports no change has just seen a server that serves the   *)
(* keys in use, if it asked the server these keys came from, whatever      *)
(* other servers were asked before and failed (jwks.go:59-72, 88-94).      *)
UnchangedIsCurrent ==
    [][pc = "request" /\ pc' = "idle" /\ outcome' = "unchanged" /\ source = Asked =>
          jwks = served[Asked]]_vars

(* The offline state tells how the last Update ended, and stays what it    *)
(* was during one that has not failed yet (jwks.go:88-108).                *)
OfflineIsLastOutcome ==
    pc = "idle" => (offline <=> outcome \in {"error", "cancelled"})

(* An Update does not fail while one of the servers it gets to try answers *)
(* all the time, unless it is cancelled (jwks.go:43-49, 97-108).           *)
OneServerIsEnough ==
    [][outcome' = "error" /\ pc # "idle" /\ pc' = "idle" /\ ~cancelled =>
          \A u \in steady : u > MaxRetries]_vars

(* An Update comes to an end (jwks.go:44-109).                             *)
UpdateReturns == pc # "idle" ~> pc = "idle"
=============================================================================
