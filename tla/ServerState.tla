---------------------------- MODULE ServerState ----------------------------
(***************************************************************************)
(* The state the goroutines of server/server.go share: the fields of the   *)
(* Server struct guarded by its mutex, the channels made in Serve, and the *)
(* license folder, which other programs edit while the daemon runs.        *)
(*                                                                         *)
(* A license is a natural number, numbered by its "iat" time, so that the  *)
(* oldest license of a set is its minimum.  Licenses have distinct IDs     *)
(* here; module LicensesLoader looks inside a scan, where they need not.   *)
(***************************************************************************)
EXTENDS Naturals, FiniteSets

CONSTANTS
    License,        \* the licenses that may be put into the folder
    Customer,       \* [License -> subject]: the "sub" claim of a license
    GlobalSub,      \* BOOLEAN: a subject is configured (s.sub # "")
    CertSigned,     \* the licenses a certificate of the CertPool verifies
    KeySets,        \* key sets the JWKS URIs serve: the licenses each verifies
    NoKeys,         \* s.jwks = nil
    Unreadable,     \* a folder that os.ReadDir fails on
    NoSub,          \* sub == "" in the license goroutine
    ConfiguredSub,  \* sub == s.sub in the license goroutine
    Watcher,        \* requests to /api/v1/claims/watch
    Reload,         \* requests to /reload
    Products,       \* requests to /api/v1/claims/kopano/products
    HasURIs,        \* BOOLEAN: JWKS URIs are configured
    Reporting,      \* bound, BOOLEAN: the reporting goroutine takes steps
    MayStop,        \* bound, BOOLEAN: signals and failures may end the daemon
    MaxEdits,       \* bound: edits of the license folder
    MaxRotations,   \* bound: key sets fetched with status 200
    MaxHups         \* bound: SIGHUP signals

(* A definition that stands before another one and whose comment begins    *)
(* with "Mutant" is that one with a plausible slip in the code; the runs   *)
(* have to notice it.  No other definition uses it.                        *)

OfflineThreshold == 3

(* Mutant: one error is expected.                                          *)
SmallErrChCapacity == 1

ErrChCapacity == 2

ASSUME LicenseAssumption == License \subseteq Nat /\ IsFiniteSet(License)
ASSUME KeysAssumption == /\ KeySets \subseteq SUBSET License
                         /\ NoKeys \notin KeySets
                         /\ CertSigned \subseteq License
(* A scan skips licenses with an empty "sub" (licenses.go).                *)
ASSUME CustomerAssumption == \A l \in License : Customer[l] # NoSub
ASSUME FolderAssumption == \A f \in SUBSET License : f # Unreadable
ASSUME BoundAssumption == MaxEdits \in Nat /\ MaxRotations \in Nat /\ MaxHups \in Nat
ASSUME FlagAssumption == /\ GlobalSub \in BOOLEAN /\ HasURIs \in BOOLEAN
                         /\ Reporting \in BOOLEAN /\ MayStop \in BOOLEAN

VARIABLES
    folder,     \* contents of the license folder, or Unreadable
    edits,      \* how many times the folder was edited
    mutex,      \* "fetcher" while the JWKS goroutine is in its critical section
    jwks,       \* s.jwks
    kver,       \* identity of the object s.jwks points to
    offline,    \* s.offline
    loaded,     \* readyCh of Serve is closed (the JWKS goroutine's started)
    claims,     \* s.claims without the configured subject
    gen,        \* identity of the channel in s.updateCh; its first is 0
    closed,     \* update channels that are closed
    ready,      \* s.readyCh is closed
    trigger,    \* content of triggerCh (capacity 1) and who put it there
    errs,       \* number of errors in errCh
    err,        \* err of Serve: "nil" or "error"
    replied,    \* reload requests whose callback channel is closed
    listener,   \* the goroutine of the HTTP listener (server.go:323-332)
    closing,    \* s.closeCh is closed
    ctxDone     \* serveCtx is cancelled

folderVars == <<folder, edits>>
keyVars    == <<mutex, jwks, kver, offline, loaded>>
claimVars  == <<claims, gen, closed, ready>>
errorVars  == <<errs, err>>
stopVars   == <<listener, closing, ctxDone>>
sharedVars == <<folderVars, keyVars, claimVars, trigger, errorVars, replied, stopVars>>

(* A key set verifies the licenses in it.  Without one, the CertPool is    *)
(* consulted, and only when the loader was told that it is offline.        *)
Usable(l, keys, off) ==
    IF keys = NoKeys THEN off /\ l \in CertSigned ELSE l \in keys

(* What a scan of the files in f finds active.                             *)
Active(f, keys, off) == {l \in f : Usable(l, keys, off)}

(* The subject the license goroutine takes from the first entry of a list  *)
(* of claims: the configured one is put in front, else the oldest license. *)
SubOf(c) ==
    IF GlobalSub THEN ConfiguredSub
    ELSE IF c = {} THEN NoSub
    ELSE Customer[CHOOSE l \in c : \A m \in c : l <= m]

(* A critical section without a blocking statement in it is one step, for  *)
(* which the mutex has to be free.                                         *)
Unlocked == mutex = "free"

SharedInit ==
    /\ folder \in SUBSET License
    /\ edits = 0
    /\ mutex = "free"
    /\ jwks = NoKeys
    /\ kver = 0
    /\ offline = OfflineThreshold
    /\ loaded = FALSE
    /\ claims = {}
    /\ gen = 0
    /\ closed = {}
    /\ ready = FALSE
    /\ trigger = "none"
    /\ errs = 0
    /\ err = "nil"
    /\ replied = {}
    /\ listener = "serving"
    /\ closing = FALSE
    /\ ctxDone = FALSE

SharedTypeOK ==
    /\ folder \in {Unreadable} \cup SUBSET License
    /\ edits \in Nat
    /\ mutex \in {"free", "fetcher"}
    /\ jwks \in KeySets \cup {NoKeys}
    /\ kver \in Nat
    /\ offline \in 0 .. OfflineThreshold
    /\ loaded \in BOOLEAN
    /\ claims \in SUBSET License
    /\ gen \in Nat
    /\ closed \in SUBSET Nat
    /\ ready \in BOOLEAN
    /\ trigger \in {"none", "hup", "jwks"}
    /\ errs \in 0 .. ErrChCapacity
    /\ err \in {"nil", "error"}
    /\ replied \in SUBSET Reload
    /\ listener \in {"serving", "stopped", "exited"}
    /\ closing \in BOOLEAN
    /\ ctxDone \in BOOLEAN
=============================================================================
