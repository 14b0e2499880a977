------------------------------- MODULE Server -------------------------------
(***************************************************************************)
(* kustomerd's Server.Serve: the goroutines of JWKSLoop, LicenseLoop and   *)
(* ReportLoop, the requests of Handlers, the HTTP listener and the main    *)
(* goroutine with its signals and the shutdown (server.go:323-332,         *)
(* 530-582), and the license folder, which is the environment's.           *)
(***************************************************************************)
EXTENDS JWKSLoop, LicenseLoop, ReportLoop, Handlers

VARIABLES
    main,       \* where the main goroutine is
    hups,       \* SIGHUP signals received
    hupEdits,   \* ghost: edits of the folder at the last SIGHUP
    cause,      \* ghost: what the main goroutine made the result of Serve
    activated   \* ghost: reporting was activated by then, if it ever is

endVars == <<cause, activated>>
mainVars == <<main, hups, hupEdits, endVars>>
actorVars == <<fetchVars, loopVars, reportVars, handlerVars>>
vars == <<sharedVars, fetchVars, loopVars, reportVars, handlerVars, mainVars>>

Init ==
    /\ SharedInit /\ FetchInit /\ LoopInit /\ ReportInit /\ HandlerInit
    /\ main = "run"
    /\ hups = 0
    /\ hupEdits = 0
    /\ cause = "none"
    /\ activated = FALSE

---------------------------------------------------------------------------
(* The environment: the folder, and the signals the main goroutine gets.   *)
EditFolder ==
    /\ edits < MaxEdits
    /\ folder' \in ({Unreadable} \cup SUBSET License) \ {folder}
    /\ edits' = edits + 1
    /\ UNCHANGED <<keyVars, claimVars, trigger, errorVars, replied, stopVars, actorVars,
                   mainVars>>

(* SIGHUP: a send on triggerCh that does nothing when the channel is full. *)
Hup ==
    /\ main = "run"
    /\ hups < MaxHups
    /\ hups' = hups + 1
    /\ hupEdits' = edits
    /\ trigger' = IF trigger = "none" THEN "hup" ELSE trigger
    /\ UNCHANGED <<folderVars, keyVars, claimVars, errorVars, replied, stopVars, actorVars,
                   main, endVars>>

(* Serve takes its result from the main goroutine.                         *)
Result(e) ==
    /\ err' = e
    /\ cause' = e
    /\ activated' = (collector > 0 \/ rpc = "done")

Terminate ==
    /\ main = "run"
    /\ MayStop
    /\ main' = "stopping"
    /\ Result("nil")
    /\ UNCHANGED <<folderVars, keyVars, claimVars, trigger, errs, replied, stopVars,
                   actorVars, hups, hupEdits>>

(* Mutant: the error is logged and then lost.                              *)
MainErrorLogged ==
    /\ main = "run"
    /\ errs > 0
    /\ errs' = errs - 1
    /\ main' = "stopping"
    /\ cause' = "error"
    /\ activated' = (collector > 0 \/ rpc = "done")
    /\ UNCHANGED <<folderVars, keyVars, claimVars, trigger, err, replied, stopVars,
                   actorVars, hups, hupEdits>>

MainError ==
    /\ main = "run"
    /\ errs > 0
    /\ errs' = errs - 1
    /\ main' = "stopping"
    /\ Result("error")
    /\ UNCHANGED <<folderVars, keyVars, claimVars, trigger, replied, stopVars, actorVars,
                   hups, hupEdits>>

MainClose ==
    /\ main = "stopping"
    /\ closing' = TRUE
    /\ main' = "shutdown"
    /\ UNCHANGED <<folderVars, keyVars, claimVars, trigger, errorVars, replied, listener,
                   ctxDone, actorVars, hups, hupEdits, endVars>>

(* srv.Shutdown returns when no request is left, or after 10 seconds.      *)
MainCancel ==
    /\ main = "shutdown"
    /\ ctxDone' = TRUE
    /\ main' = "draining"
    /\ UNCHANGED <<folderVars, keyVars, claimVars, trigger, errorVars, replied, listener,
                   closing, actorVars, hups, hupEdits, endVars>>

MainExit ==
    /\ main = "draining"
    /\ listener = "exited"
    /\ main' = "exited"
    /\ UNCHANGED <<sharedVars, actorVars, hups, hupEdits, endVars>>

(* A second signal ends the wait for the listener.                         *)
MainAbort ==
    /\ main = "draining"
    /\ main' = "exited"
    /\ UNCHANGED <<sharedVars, actorVars, hups, hupEdits, endVars>>

---------------------------------------------------------------------------
(* srv.Serve returns because of Shutdown, or because accepting failed.     *)
ListenerStop ==
    /\ listener = "serving"
    /\ MayStop
    /\ listener' = "stopped"
    /\ UNCHANGED <<folderVars, keyVars, claimVars, trigger, errorVars, replied, closing,
                   ctxDone, actorVars, mainVars>>

ListenerExit ==
    /\ listener = "stopped"
    /\ errs < ErrChCapacity
    /\ errs' = errs + 1
    /\ listener' = "exited"
    /\ UNCHANGED <<folderVars, keyVars, claimVars, trigger, err, replied, closing, ctxDone,
                   actorVars, mainVars>>

(* The rendezvous on reloadCh.                                             *)
ReloadAccept(r) ==
    /\ ReloadSend(r)
    /\ LoopReload(r)
    /\ UNCHANGED <<folderVars, keyVars, errorVars, stopVars, fetchVars, reportVars, mainVars>>

MainNext ==
    \/ Hup \/ Terminate \/ MainError \/ MainClose \/ MainCancel \/ MainExit \/ MainAbort

(* When main returns the process ends, and every goroutine with it.        *)
Next ==
    /\ main # "exited"
    /\ \/ FetchNext /\ UNCHANGED <<loopVars, reportVars, handlerVars, mainVars>>
       \/ LoopNext /\ UNCHANGED <<fetchVars, reportVars, handlerVars, mainVars>>
       \/ ReportNext /\ UNCHANGED <<fetchVars, loopVars, handlerVars, mainVars>>
       \/ HandlerNext /\ UNCHANGED <<fetchVars, loopVars, reportVars, mainVars>>
       \/ \E r \in Reload : ReloadAccept(r)
       \/ MainNext
       \/ ListenerStop
       \/ ListenerExit
       \/ EditFolder

Spec == Init /\ [][Next]_vars

(***************************************************************************)
(* Fairness.  The Go scheduler runs every goroutine that can go on, timers *)
(* fire, and sync.RWMutex lets nobody wait forever, which needs strong     *)
(* fairness because the JWKS goroutine takes the mutex again and again; so *)
(* does a select whose closeCh is ready beside other cases.  Nothing is    *)
(* assumed of signals, of edits of the folder, of clients, nor of what a   *)
(* fetch returns.                                                          *)
(***************************************************************************)
FetchFairness ==
    /\ WF_vars(FetchNoURIs /\ Next) /\ WF_vars(FetchUpdate /\ Next)
    /\ WF_vars(FetchSend /\ Next) /\ WF_vars(FetchFinish /\ Next)
    /\ WF_vars(FetchReady /\ Next) /\ WF_vars(FetchWake /\ Next)

LoopIdle == LoopTrigger \/ LoopTick \/ (\E r \in Reload : ReloadAccept(r))

LoopFairness ==
    /\ WF_vars(LoopStart /\ Next) /\ WF_vars(LoopIdle /\ Next)
    /\ SF_vars(LoopRLock /\ Next) /\ SF_vars(LoopPublish /\ Next)
    /\ WF_vars(LoopScan /\ Next) /\ WF_vars(LoopScanFails /\ Next)
    /\ WF_vars(LoopReady /\ Next) /\ WF_vars(LoopAnnounce /\ Next)
    /\ WF_vars(LoopReply /\ Next)

HandlerFairness ==
    /\ \A r \in Reload : WF_vars(ReloadTimeout(r) /\ Next) /\ WF_vars(ReloadComplete(r) /\ Next)
    /\ \A w \in Watcher : /\ SF_vars(WatchCapture(w) /\ Next)
                          /\ SF_vars(WatchUpdated(w) /\ Next)
                          /\ SF_vars(WatchStop(w) /\ Next)

(* Shutdown closes the listener and then waits for the requests to end.    *)
(* That it gives up after 10 seconds is not counted on.                    *)
RequestsDone ==
    /\ \A r \in Reload : reload[r] \notin {"offer", "wait"}
    /\ \A w \in Watcher : watch[w] \notin {"capture", "select"}
    /\ \A p \in Products : products[p] \notin {"wait", "read"}

MainFairness ==
    /\ WF_vars(MainError) /\ WF_vars(MainClose) /\ WF_vars(MainExit)
    /\ WF_vars(RequestsDone /\ ~Accepting /\ MainCancel)
    /\ WF_vars(main \in {"shutdown", "draining"} /\ ListenerStop)
    /\ WF_vars(ListenerExit /\ Next)

FairSpec == Spec /\ FetchFairness /\ LoopFairness /\ HandlerFairness /\ MainFairness

---------------------------------------------------------------------------
MainTypeOK ==
    /\ main \in {"run", "stopping", "shutdown", "draining", "exited"}
    /\ hups \in Nat
    /\ hupEdits \in Nat
    /\ cause \in {"none", "nil", "error"}
    /\ activated \in BOOLEAN

TypeOK ==
    /\ SharedTypeOK /\ FetchTypeOK /\ LoopTypeOK /\ ReportTypeOK /\ HandlerTypeOK
    /\ MainTypeOK

(* Closing a closed channel panics: readyCh of Serve, readyCh of the       *)
(* server, the update channel and a reload's callback channel are each     *)
(* open when the statement that closes them is next (server.go:308, 472,   *)
(* 478, 501).                                                              *)
NoDoubleClose ==
    /\ fpc \in {"nouris", "ready"} => ~loaded
    /\ lpc = "ready" => ~ready
    /\ lpc \in {"ready", "announce"} => lupd \notin closed
    /\ lpc = "reply" => lcb \cap replied = {}

(* Whoever holds a replaced update channel is woken, and nobody else: the  *)
(* channels ever replaced in s.updateCh are closed, but for the one that   *)
(* the license goroutine is about to close (server.go:465-478).            *)
NoStrandedWaiter ==
    {g \in 0 .. gen : g < gen} =
        closed \cup (IF lpc \in {"ready", "announce"} THEN {lupd} ELSE {})

(* A SIGHUP is never forgotten, although the send does nothing when        *)
(* triggerCh is full and several places drain it: as long as no scan has   *)
(* seen an edit made before the signal, there is a trigger in the channel  *)
(* or the license goroutine is on its way to read the folder.  That it     *)
(* gets there is another matter (server.go:482-511, 538-544).              *)
HupNotLost ==
    hupEdits > scanEdits => \/ trigger # "none"
                            \/ lpc \in {"start", "rlock", "scan", "done"}

(* New keys are never missed: if the license goroutine last worked with    *)
(* another key set, it is about to look again or will be told to           *)
(* (server.go:278-281, 385-391, 482-511).                                  *)
KeysNotLost ==
    lkver # kver => \/ trigger # "none"
                    \/ lpc \in {"start", "rlock", "done"}
                    \/ fpc = "send"

(* A reload that was answered with success has covered every edit made     *)
(* before it was requested (handlers.go:29-30, 61-81).                     *)
ReloadIsFresh ==
    \A r \in Reload : reload[r] = "ok" => scanEdits >= askEdits[r]

(* The hooks and the subject together miss no change: whenever f is        *)
(* through, what is published is what the last scan found active, if it    *)
(* could read the folder at all (server.go:422-469).                       *)
ClaimsMatchScan ==
    lpc \in {"idle", "rlock", "scan", "reply", "done"} /\ ~first /\ scanOk =>
        claims = lhist

(* The daemon calls itself offline exactly while it has never had a        *)
(* successful fetch, or the last three failed, however rounds, failures    *)
(* and the cap interleave (server.go:283-305, handlers.go:188).            *)
OfflineMeansThreeFailures ==
    Unlocked => (offline >= OfflineThreshold <=> ~everOk \/ fails >= OfflineThreshold)

(* A request for products is never answered from the empty claims of a     *)
(* daemon that has not loaded its licenses yet (handlers.go:166-184).      *)
AnswersHaveClaims ==
    \A p \in Products : products[p] = "done" => answer[p].gen > 0

(* A "claims-updated" event means that claims were replaced since the      *)
(* watch last looked: a client that reads on the event sees newer claims   *)
(* than the ones the watch started from (handlers.go:393-402).             *)
EventsAnnounceNewClaims ==
    [][\A w \in Watcher : watch[w] = "select" /\ told'[w] # told[w] => gen > wgen[w]]_vars

(* Nobody blocks on errCh for good: its capacity covers all the errors the *)
(* listener and the reporting goroutine can still send (server.go:182,     *)
(* 323-332, 363-366).                                                      *)
ErrorsToCome ==
    (IF listener = "stopped" THEN 1 ELSE 0) + (IF rpc = "send" THEN 1 ELSE 0)
ErrorsFit == errs + ErrorsToCome <= ErrChCapacity

(* Serve returns what ended it, nil for a signal and else the error, but   *)
(* when reporting is activated while it stops: the reporting goroutine     *)
(* writes to the same variable (server.go:364, 531, 582).                  *)
ServeTellsCause == main # "run" /\ activated => err = cause

(* The daemon implements the feed of claims its readers rely on            *)
(* (server.go:465-478).                                                    *)
Feed == INSTANCE ClaimsFeed WITH
            Value <- SUBSET License, NoValue <- {}, value <- claims, version <- gen
FeedSpec == Feed!Spec

---------------------------------------------------------------------------
(* A reload request is answered, by success or by the timeout, unless the  *)
(* client leaves (handlers.go:29-30).                                      *)
ReloadAnswered ==
    \A r \in Reload : reload[r] \in {"offer", "wait"} ~>
                          (reload[r] \notin {"offer", "wait"} \/ main # "run")

(* If the folder stays readable, the published claims end up being the     *)
(* licenses of the folder that the latest keys verify, whatever order      *)
(* edits, fetches, reloads and ticks came in (server.go:376-512).          *)
Converges ==
    <>[](main = "run" /\ folder # Unreadable) =>
        <>[](folder # Unreadable /\ claims = Active(folder, jwks, offline > 0))

(* When the daemon has begun to stop, it exits, without the timeout of     *)
(* Shutdown: no watch holds it up (server.go:552-582, handlers.go:397-398) *)
(* and no goroutine is blocked on errCh.                                   *)
StopExits == main = "stopping" ~> main = "exited"

---------------------------------------------------------------------------
(* What the code says and does not do.                                     *)

(* "Block until request is done, or other action worty to send event"      *)
(* (handlers.go:389): a watch that waits for the next update has sent an   *)
(* event for the last one.                                                 *)
WatchMissesNothing ==
    \A w \in Watcher : watch[w] = "select" /\ wgen[w] = gen => told[w] = gen

(* A customer ID "can be used to enable kustomerd reporting"               *)
(* (scripts/kustomerd.cfg:4-5): once claims with a subject are published   *)
(* and announced, the reporting goroutine does not wait without Collector. *)
ReportingEnabled ==
    rpc = "select" /\ rgen = gen /\ gen > 0 /\ SomeClaims => collector > 0

(* Each of the two implies this: of the subscribers that wait for another  *)
(* update, not all have missed the last one.                               *)
UpdateIsHeard == WatchMissesNothing \/ ReportingEnabled
=============================================================================
