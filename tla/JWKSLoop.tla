------------------------------ MODULE JWKSLoop ------------------------------
(***************************************************************************)
(* The goroutine of Serve that fetches the JWKS (server.go:252-321).  What *)
(* a fetch does inside is module JWKSFetcher's; here it has one of three   *)
(* outcomes, which is picked when the goroutine takes the mutex.           *)
(***************************************************************************)
EXTENDS ServerState

VARIABLES
    fpc,        \* where the goroutine is
    fetcherOff, \* fetcher.Offline() of the last fetch
    fails,      \* ghost: failed fetches since the last good one, up to 3
    everOk      \* ghost: a fetch has succeeded

fetchVars == <<fpc, fetcherOff, fails, everOk>>

FetchInit ==
    /\ fpc = IF HasURIs THEN "fetch" ELSE "nouris"
    /\ fetcherOff = FALSE
    /\ fails = 0
    /\ everOk = FALSE

FetchTypeOK ==
    /\ fpc \in {"nouris", "fetch", "send", "finish", "ready", "sleep", "done"}
    /\ fetcherOff \in BOOLEAN
    /\ fails \in 0 .. OfflineThreshold
    /\ everOk \in BOOLEAN

(* Without URIs the daemon is ready at once and stays in offline mode.     *)
FetchNoURIs ==
    /\ fpc = "nouris"
    /\ fpc' = "done"
    /\ loaded' = TRUE
    /\ UNCHANGED <<mutex, jwks, kver, offline, trigger, fetcherOff, fails, everOk>>

FetchLock ==
    /\ fpc = "fetch"
    /\ Unlocked
    /\ mutex' = "fetcher"

(* Update returned a key set: it is stored, and after the first round the  *)
(* license goroutine has to be told.                                       *)
FetchNewKeys ==
    /\ FetchLock
    /\ kver < MaxRotations
    /\ jwks' \in KeySets
    /\ kver' = kver + 1
    /\ fetcherOff' = FALSE
    /\ fails' = 0
    /\ everOk' = TRUE
    /\ fpc' = IF loaded THEN "send" ELSE "finish"
    /\ UNCHANGED <<offline, loaded, trigger>>

(* The server answered 304: it does so only for an ETag it has given out.  *)
FetchUnchanged ==
    /\ FetchLock
    /\ jwks # NoKeys
    /\ fetcherOff' = FALSE
    /\ fails' = 0
    /\ everOk' = TRUE
    /\ fpc' = "finish"
    /\ UNCHANGED <<jwks, kver, offline, loaded, trigger>>

(* Every try failed, or serveCtx was cancelled while waiting for the next. *)
FetchFails ==
    /\ FetchLock
    /\ fetcherOff' = TRUE
    /\ fails' = IF fails < OfflineThreshold THEN fails + 1 ELSE fails
    /\ fpc' = "finish"
    /\ UNCHANGED <<jwks, kver, offline, loaded, trigger, everOk>>

FetchUpdate == FetchNewKeys \/ FetchUnchanged \/ FetchFails

(* Mutant: the license goroutine is not told.                              *)
FetchSendNothing ==
    /\ fpc = "send"
    /\ fpc' = "finish"
    /\ UNCHANGED <<keyVars, trigger, fetcherOff, fails, everOk>>

(* triggerCh <- true, in the critical section: it blocks while the channel *)
(* is full, and with it everyone who needs the mutex.                      *)
FetchSend ==
    /\ fpc = "send"
    /\ trigger = "none"
    /\ trigger' = "jwks"
    /\ fpc' = "finish"
    /\ UNCHANGED <<keyVars, fetcherOff, fails, everOk>>

(* Mutant: the counter has no cap.                                         *)
CountOfflineUncapped(o) == IF ~fetcherOff THEN 0 ELSE o + 1

(* Mutant: a success resets the counter only in offline mode.              *)
CountOfflineSticky(o) ==
    IF o < OfflineThreshold THEN IF fetcherOff THEN o + 1 ELSE o
    ELSE IF fetcherOff THEN o ELSE 0

CountOffline(o) ==
    IF ~fetcherOff THEN 0 ELSE IF o < OfflineThreshold THEN o + 1 ELSE o

FetchFinish ==
    /\ fpc = "finish"
    /\ offline' = CountOffline(offline)
    /\ mutex' = "free"
    /\ fpc' = IF loaded THEN "sleep" ELSE "ready"
    /\ UNCHANGED <<jwks, kver, loaded, trigger, fetcherOff, fails, everOk>>

FetchReady ==
    /\ fpc = "ready"
    /\ loaded' = TRUE
    /\ fpc' = "sleep"
    /\ UNCHANGED <<mutex, jwks, kver, offline, trigger, fetcherOff, fails, everOk>>

(* The next round is 60 minutes away.  By then the license goroutine has   *)
(* taken the trigger of the last round, if it can take steps at all.       *)
FetchWake ==
    /\ fpc = "sleep"
    /\ trigger # "jwks"
    /\ fpc' = "fetch"
    /\ UNCHANGED <<keyVars, trigger, fetcherOff, fails, everOk>>

FetchStop ==
    /\ fpc = "sleep"
    /\ ctxDone
    /\ fpc' = "done"
    /\ UNCHANGED <<keyVars, trigger, fetcherOff, fails, everOk>>

FetchNext ==
    /\ \/ FetchNoURIs \/ FetchUpdate \/ FetchSend \/ FetchFinish
       \/ FetchReady \/ FetchWake \/ FetchStop
    /\ UNCHANGED <<folderVars, claimVars, errorVars, replied, stopVars>>
=============================================================================
