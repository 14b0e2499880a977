----------------------------- MODULE ReportLoop -----------------------------
(***************************************************************************)
(* The goroutine of Serve that reports to the survey service               *)
(* (server.go:334-374).  The survey client itself is a library.            *)
(***************************************************************************)
EXTENDS ServerState

VARIABLES
    rpc,        \* where the goroutine is
    rgen,       \* the update channel it holds
    collector,  \* generation of the claims its Collector has; 0 is nil
    rfailed     \* autosurvey.Start returned an error

reportVars == <<rpc, rgen, collector, rfailed>>

ReportInit ==
    /\ rpc = IF Reporting THEN "capture" ELSE "done"
    /\ rgen = 0
    /\ collector = 0
    /\ rfailed = FALSE

ReportTypeOK ==
    /\ rpc \in {"capture", "select", "read", "check", "send", "done"}
    /\ rgen \in Nat
    /\ collector \in Nat
    /\ rfailed \in BOOLEAN

ReportCapture ==
    /\ rpc = "capture"
    /\ Unlocked
    /\ rgen' = gen
    /\ rpc' = "select"
    /\ UNCHANGED <<errorVars, collector, rfailed>>

ReportUpdated ==
    /\ rpc = "select"
    /\ rgen \in closed
    /\ rpc' = "read"
    /\ UNCHANGED <<errorVars, rgen, collector, rfailed>>

(* The list has an entry for a license or for the configured subject.      *)
SomeClaims == GlobalSub \/ claims # {}

ReportSetClaims ==
    /\ rpc = "read"
    /\ Unlocked
    /\ collector > 0
    /\ collector' = gen
    /\ rpc' = "capture"
    /\ UNCHANGED <<errorVars, rgen, rfailed>>

(* The Collector stays when the survey client fails to start, which is     *)
(* tried only once.  Its error goes to the variable that Serve returns.    *)
ReportActivate ==
    /\ rpc = "read"
    /\ Unlocked
    /\ collector = 0
    /\ SomeClaims
    /\ collector' = gen
    /\ rfailed' \in {FALSE, MayStop}
    /\ err' = IF rfailed' THEN "error" ELSE "nil"
    /\ rpc' = "check"
    /\ UNCHANGED <<errs, rgen>>

(* err != nil, after the main goroutine may have set it: either what is    *)
(* there now is compared, or the value that was just put there.            *)
ReportCheck ==
    /\ rpc = "check"
    /\ \E failed \in {rfailed, err = "error"} :
           rpc' = IF failed THEN "send" ELSE "capture"
    /\ UNCHANGED <<errorVars, rgen, collector, rfailed>>

ReportStandBy ==
    /\ rpc = "read"
    /\ Unlocked
    /\ collector = 0
    /\ ~SomeClaims
    /\ rpc' = "capture"
    /\ UNCHANGED <<errorVars, rgen, collector, rfailed>>

(* errCh <- err blocks while the channel is full.                          *)
ReportError ==
    /\ rpc = "send"
    /\ errs < ErrChCapacity
    /\ errs' = errs + 1
    /\ rpc' = "capture"
    /\ UNCHANGED <<err, rgen, collector, rfailed>>

ReportStop ==
    /\ rpc = "select"
    /\ ctxDone
    /\ rpc' = "done"
    /\ UNCHANGED <<errorVars, rgen, collector, rfailed>>

ReportNext ==
    /\ \/ ReportCapture \/ ReportUpdated \/ ReportSetClaims \/ ReportActivate
       \/ ReportCheck \/ ReportStandBy \/ ReportError \/ ReportStop
    /\ UNCHANGED <<folderVars, keyVars, claimVars, trigger, replied, stopVars>>
=============================================================================
