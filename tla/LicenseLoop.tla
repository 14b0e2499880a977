----------------------------- MODULE LicenseLoop -----------------------------
(***************************************************************************)
(* The goroutine of Serve that loads licenses and publishes the active     *)
(* claims (server.go:376-512).  The steps from "rlock" on are the function *)
(* f, which the goroutine runs at the start, for a reload request, for a   *)
(* trigger and every 60 seconds.                                           *)
(***************************************************************************)
EXTENDS ServerState

VARIABLES
    lpc,        \* where the goroutine is
    lkeys,      \* its copy of s.jwks
    lkver,      \* which object that is
    loff,       \* s.offline > 0 when it was last looked at
    lclaims,    \* claims found by the scan
    lhist,      \* activateHistory: what the last good scan found
    lsub,       \* lastSub
    first,      \* nothing was published yet
    lupd,       \* the update channel to close after publishing
    lcb,        \* the reload request being served, as a set of at most one
    scanEdits,  \* ghost: edits of the folder when it was last scanned
    scanOk      \* ghost: the last scan could read the folder

loopVars == <<lpc, lkeys, lkver, loff, lclaims, lhist, lsub, first, lupd, lcb,
              scanEdits, scanOk>>

LoopInit ==
    /\ lpc = "start"
    /\ lkeys = NoKeys
    /\ lkver = 0
    /\ loff = FALSE
    /\ lclaims = {}
    /\ lhist = {}
    /\ lsub = NoSub
    /\ first = TRUE
    /\ lupd = 0
    /\ lcb = {}
    /\ scanEdits = 0
    /\ scanOk = FALSE

LoopTypeOK ==
    /\ lpc \in {"start", "idle", "rlock", "scan", "publish", "ready",
                "announce", "reply", "done"}
    /\ lkeys \in KeySets \cup {NoKeys}
    /\ lkver \in Nat
    /\ loff \in BOOLEAN
    /\ lclaims \in SUBSET License
    /\ lhist \in SUBSET License
    /\ first \in BOOLEAN
    /\ lupd \in Nat
    /\ lcb \in SUBSET Reload
    /\ scanEdits \in Nat
    /\ scanOk \in BOOLEAN

(* select { case <-triggerCh: default: } and on to f.                      *)
DrainAndScan ==
    /\ trigger' = "none"
    /\ lpc' = "rlock"
    /\ UNCHANGED <<claimVars, replied, lkeys, lkver, loff, lclaims, lhist, lsub,
                   first, lupd, scanEdits, scanOk>>

LoopStart ==
    /\ lpc = "start"
    /\ loaded
    /\ DrainAndScan
    /\ UNCHANGED lcb

LoopTrigger ==
    /\ lpc = "idle"
    /\ trigger # "none"
    /\ DrainAndScan
    /\ UNCHANGED lcb

LoopTick ==
    /\ lpc = "idle"
    /\ DrainAndScan
    /\ UNCHANGED lcb

(* The receiving side of the unbuffered reloadCh; module Server joins it   *)
(* with the handler that sends its callback channel.                       *)
LoopReload(r) ==
    /\ lpc = "idle"
    /\ DrainAndScan
    /\ lcb' = {r}

(* Mutant: once claims are published the keys are not read again.          *)
LoopRLockOnce ==
    /\ lpc = "rlock"
    /\ Unlocked
    /\ lkeys' = IF first THEN jwks ELSE lkeys
    /\ lkver' = kver
    /\ loff' = (offline > 0)
    /\ lpc' = "scan"
    /\ UNCHANGED <<claimVars, trigger, replied, lclaims, lhist, lsub, first, lupd,
                   lcb, scanEdits, scanOk>>

LoopRLock ==
    /\ lpc = "rlock"
    /\ Unlocked
    /\ lkeys' = jwks
    /\ lkver' = kver
    /\ loff' = (offline > 0)
    /\ lpc' = "scan"
    /\ UNCHANGED <<claimVars, trigger, replied, lclaims, lhist, lsub, first, lupd,
                   lcb, scanEdits, scanOk>>

AfterScan == IF lcb = {} THEN "idle" ELSE "reply"

(* Mutant: the subject alone decides.                                      *)
DecideBySubject(c, changed) ==
    /\ lclaims' = c
    /\ IF ~first /\ SubOf(c) = lsub
       THEN lpc' = AfterScan /\ UNCHANGED lsub
       ELSE lpc' = "publish" /\ lsub' = SubOf(c)

(* What f does with the result of a scan: it is dropped when it is neither *)
(* the first nor reported as a change by the hooks, and the subject is     *)
(* still the same.                                                         *)
Decide(c, changed) ==
    /\ lclaims' = c
    /\ IF ~first /\ SubOf(c) = lsub /\ ~changed
       THEN lpc' = AfterScan /\ UNCHANGED lsub
       ELSE lpc' = "publish" /\ lsub' = SubOf(c)

LoopScan ==
    /\ lpc = "scan"
    /\ folder # Unreadable
    /\ LET found == Active(folder, lkeys, loff)
       IN  Decide(found, found # lhist) /\ lhist' = found
    /\ scanEdits' = edits
    /\ scanOk' = TRUE
    /\ UNCHANGED <<claimVars, trigger, replied, lkeys, lkver, loff, first, lupd, lcb>>

(* ReadDir failed: no claims are returned and no hook was called.          *)
LoopScanFails ==
    /\ lpc = "scan"
    /\ folder = Unreadable
    /\ Decide({}, FALSE)
    /\ scanEdits' = edits
    /\ scanOk' = FALSE
    /\ UNCHANGED <<claimVars, trigger, replied, lkeys, lkver, loff, lhist, first,
                   lupd, lcb>>

LoopPublish ==
    /\ lpc = "publish"
    /\ Unlocked
    /\ claims' = lclaims
    /\ lupd' = gen
    /\ gen' = gen + 1
    /\ lpc' = IF first THEN "ready" ELSE "announce"
    /\ UNCHANGED <<closed, ready, trigger, replied, lkeys, lkver, loff, lclaims,
                   lhist, lsub, first, lcb, scanEdits, scanOk>>

(* Mutant: "first" is not reset.                                           *)
LoopReadyAgain ==
    /\ lpc = "ready"
    /\ ready' = TRUE
    /\ lpc' = "announce"
    /\ UNCHANGED <<claims, gen, closed, trigger, replied, lkeys, lkver, loff,
                   lclaims, lhist, lsub, first, lupd, lcb, scanEdits, scanOk>>

(* Mutant: the server's readyCh is not closed.                             *)
LoopNeverReady ==
    /\ lpc = "ready"
    /\ first' = FALSE
    /\ lpc' = "announce"
    /\ UNCHANGED <<claimVars, trigger, replied, lkeys, lkver, loff, lclaims, lhist,
                   lsub, lupd, lcb, scanEdits, scanOk>>

LoopReady ==
    /\ lpc = "ready"
    /\ ready' = TRUE
    /\ first' = FALSE
    /\ lpc' = "announce"
    /\ UNCHANGED <<claims, gen, closed, trigger, replied, lkeys, lkver, loff,
                   lclaims, lhist, lsub, lupd, lcb, scanEdits, scanOk>>

(* Mutant: the new update channel is closed, not the replaced one.         *)
LoopAnnounceNew ==
    /\ lpc = "announce"
    /\ closed' = closed \cup {gen}
    /\ lpc' = AfterScan
    /\ UNCHANGED <<claims, gen, ready, trigger, replied, lkeys, lkver, loff,
                   lclaims, lhist, lsub, first, lupd, lcb, scanEdits, scanOk>>

LoopAnnounce ==
    /\ lpc = "announce"
    /\ closed' = closed \cup {lupd}
    /\ lpc' = AfterScan
    /\ UNCHANGED <<claims, gen, ready, trigger, replied, lkeys, lkver, loff,
                   lclaims, lhist, lsub, first, lupd, lcb, scanEdits, scanOk>>

(* Mutant: the trigger is drained after the scan once more.                *)
LoopReplyAndDrain ==
    /\ lpc = "reply"
    /\ replied' = replied \cup lcb
    /\ lcb' = {}
    /\ trigger' = "none"
    /\ lpc' = "idle"
    /\ UNCHANGED <<claimVars, lkeys, lkver, loff, lclaims, lhist, lsub, first, lupd,
                   scanEdits, scanOk>>

(* Mutant: the callback channel is not closed.                             *)
LoopReplyNothing ==
    /\ lpc = "reply"
    /\ lcb' = {}
    /\ lpc' = "idle"
    /\ UNCHANGED <<claimVars, trigger, replied, lkeys, lkver, loff, lclaims, lhist,
                   lsub, first, lupd, scanEdits, scanOk>>

LoopReply ==
    /\ lpc = "reply"
    /\ replied' = replied \cup lcb
    /\ lcb' = {}
    /\ lpc' = "idle"
    /\ UNCHANGED <<claimVars, trigger, lkeys, lkver, loff, lclaims, lhist, lsub,
                   first, lupd, scanEdits, scanOk>>

LoopStop ==
    /\ lpc \in {"start", "idle"}
    /\ ctxDone
    /\ lpc' = "done"
    /\ UNCHANGED <<claimVars, trigger, replied, lkeys, lkver, loff, lclaims, lhist,
                   lsub, first, lupd, lcb, scanEdits, scanOk>>

LoopNext ==
    /\ \/ LoopStart \/ LoopTrigger \/ LoopTick \/ LoopRLock
       \/ LoopScan \/ LoopScanFails \/ LoopPublish \/ LoopReady
       \/ LoopAnnounce \/ LoopReply \/ LoopStop
    /\ UNCHANGED <<folderVars, keyVars, errorVars, stopVars>>
=============================================================================
