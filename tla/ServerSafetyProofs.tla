------------------------- MODULE ServerSafetyProofs -------------------------
(***************************************************************************)
(* More theorems about Server, on top of the invariants of ServerProofs:   *)
(* the daemon implements ClaimsFeed, closes no channel twice, answers no   *)
(* request before it has claims, counts offline rounds exactly and never   *)
(* fills errCh.                                                            *)
(***************************************************************************)
EXTENDS ServerProofs

(* The daemon implements the feed of claims its readers rely on: each step *)
(* publishes, makes ready, announces or is a stutter (server.go:464-478).  *)
THEOREM ServerImplementsFeed == Spec => FeedSpec
<1> DEFINE FeedState == <<claims, gen, closed, ready>>
<1>1. Init => Feed!Init
  BY DEF Init, SharedInit, Feed!Init
<1>2. ASSUME TypeOK, PublishInv, [Next]_vars
      PROVE  Feed!Next \/ UNCHANGED FeedState
  <2>0. gen \in Nat /\ lupd \in Nat /\ first \in BOOLEAN /\ ready \in BOOLEAN
    BY <1>2 DEF TypeOK, SharedTypeOK, LoopTypeOK
  <2>1. CASE LoopPublish
    <3>1. Feed!Owed = {}
      BY <1>2, <2>0, <2>1 DEF LoopPublish, PublishInv, Announcing, Feed!Owed
    <3>2. claims' \in SUBSET License
      BY <1>2, <2>1 DEF LoopPublish, TypeOK, LoopTypeOK
    <3>3. gen' = gen + 1 /\ UNCHANGED <<closed, ready>>
      BY <2>1 DEF LoopPublish
    <3> QED BY <3>1, <3>2, <3>3 DEF Feed!Next, Feed!Publish
  <2>2. CASE LoopReady
    <3>1. ~ready /\ gen = 1
      BY <1>2, <2>0, <2>2 DEF LoopReady, PublishInv
    <3>2. ready' = TRUE /\ UNCHANGED <<claims, gen, closed>>
      BY <2>2 DEF LoopReady
    <3> QED BY <3>1, <3>2 DEF Feed!Next, Feed!BecomeReady
  <2>3. CASE LoopAnnounce
    <3>1. ready
      BY <1>2, <2>0, <2>3 DEF LoopAnnounce, PublishInv
    <3>2. Feed!Owed = {lupd}
      BY <1>2, <2>0, <2>3 DEF LoopAnnounce, PublishInv, Announcing, Feed!Owed
    <3>3. closed' = closed \cup {lupd} /\ UNCHANGED <<claims, gen, ready>>
      BY <2>3 DEF LoopAnnounce
    <3> QED BY <3>1, <3>2, <3>3 DEF Feed!Next, Feed!Announce
  <2>4. CASE LoopStart \/ LoopTrigger \/ LoopTick \/ LoopRLock \/ LoopScan \/ LoopScanFails
             \/ LoopReply \/ LoopStop \/ \E r \in Reload : ReloadAccept(r)
    BY <2>4, Zenon DEF LoopStart, LoopTrigger, LoopTick, LoopRLock, LoopScan, LoopScanFails,
                       LoopReply, LoopStop, ReloadAccept, LoopReload, DrainAndScan, claimVars
  <2>5. CASE OtherStep
    BY <2>5, OthersDoNotPublish
  <2> QED BY <1>2, <2>1, <2>2, <2>3, <2>4, <2>5, StepCases DEF LoopStep, LoopNext
<1>3. TypeOK /\ PublishInv /\ [Next]_vars => [Feed!Next]_(Feed!feedVars)
  BY <1>2 DEF Feed!feedVars
<1> QED BY <1>1, <1>3, TypeCorrect, PublishCorrect, PTL DEF Spec, FeedSpec, Feed!Spec

---------------------------------------------------------------------------
(* The ready channel of Serve is closed by one of two places, which are    *)
(* both behind the goroutine then.                                         *)
StartInv == fpc \in {"nouris", "ready"} => ~loaded

LEMMA StartStep == StartInv /\ [Next]_vars => StartInv'
<1> SUFFICES ASSUME StartInv, [Next]_vars PROVE StartInv'
  OBVIOUS
<1>1. CASE FetchNext
  BY <1>1 DEF StartInv, FetchNext, FetchNoURIs, FetchUpdate, FetchNewKeys, FetchUnchanged,
              FetchFails, FetchLock, FetchSend, FetchFinish, FetchReady, FetchWake, FetchStop,
              keyVars
<1>2. CASE UNCHANGED <<keyVars, fetchVars>>
  BY <1>2 DEF StartInv, keyVars, fetchVars
<1>3. FetchNext \/ UNCHANGED <<keyVars, fetchVars>>
  BY Zenon DEF Next, LoopNext, ReloadAccept, ReportNext, HandlerNext, MainNext, Hup,
               Terminate, MainError, MainClose, MainCancel, MainExit, MainAbort,
               ListenerStop, ListenerExit, EditFolder, vars, sharedVars, actorVars
<1> QED BY <1>1, <1>2, <1>3

(* No channel is closed twice, over any sequence of fetches, scans and     *)
(* reloads (server.go:308, 472, 478, 501).                                 *)
THEOREM ClosedOnce == Spec => []NoDoubleClose
<1>1. Init => StartInv /\ ReloadInv
  BY DEF Init, SharedInit, FetchInit, LoopInit, HandlerInit, StartInv, ReloadInv, Covered,
         Scanned
<1>2. StartInv /\ PublishInv /\ ReloadInv => NoDoubleClose
  BY DEF StartInv, PublishInv, Announcing, ReloadInv, NoDoubleClose
<1> QED BY <1>1, <1>2, StartStep, ReloadStep, PublishCorrect, TypeCorrect, PTL DEF Spec

---------------------------------------------------------------------------
(* Readers.  A request that got past readyCh finds it closed for good.     *)
ReaderInv ==
    /\ ready => gen > 0
    /\ \A p \in Products : products[p] = "read" => ready
    /\ \A p \in Products : products[p] = "done" => answer[p].gen > 0

LEMMA ReaderStep ==
    TypeOK /\ TypeOK' /\ PublishInv /\ ReaderInv /\ [Next]_vars => ReaderInv'
<1> SUFFICES ASSUME TypeOK, TypeOK', PublishInv, ReaderInv, [Next]_vars PROVE ReaderInv'
  OBVIOUS
<1>1. ready' => gen' > 0
  <2>1. gen \in Nat /\ first \in BOOLEAN /\ ready \in BOOLEAN
    BY DEF TypeOK, SharedTypeOK, LoopTypeOK
  <2>2. gen' = gen + 1 \/ UNCHANGED <<gen, ready>> \/ (LoopReady /\ UNCHANGED gen)
    <3>1. CASE LoopNext \/ \E r \in Reload : ReloadAccept(r)
      BY <3>1, Zenon DEF LoopNext, LoopStart, LoopTrigger, LoopTick, LoopRLock, LoopScan,
                  LoopScanFails, LoopPublish, LoopReady, LoopAnnounce, LoopReply, LoopStop,
                  ReloadAccept, LoopReload, DrainAndScan, claimVars
    <3>2. CASE OtherStep
      BY <3>2, OthersDoNotPublish
    <3> QED BY <3>1, <3>2, StepCases DEF LoopStep
  <2>3. CASE LoopReady /\ UNCHANGED gen
    <3>1. gen = 1
      BY <2>1, <2>3 DEF LoopReady, PublishInv
    <3> QED BY <2>3, <3>1
  <2>4. CASE UNCHANGED <<gen, ready>>
    BY <2>4 DEF ReaderInv
  <2>5. CASE gen' = gen + 1
    BY <2>1, <2>5
  <2> QED BY <2>2, <2>3, <2>4, <2>5
<1>2. ready => ready'
  <2>1. CASE LoopNext \/ \E r \in Reload : ReloadAccept(r)
    BY <2>1, Zenon DEF LoopNext, LoopStart, LoopTrigger, LoopTick, LoopRLock, LoopScan,
                LoopScanFails, LoopPublish, LoopReady, LoopAnnounce, LoopReply, LoopStop,
                ReloadAccept, LoopReload, DrainAndScan, claimVars
  <2>2. CASE OtherStep
    BY <2>2, OthersDoNotPublish
  <2> QED BY <2>1, <2>2, StepCases DEF LoopStep
<1>3. UNCHANGED <<products, answer>> \/ \E p \in Products :
         ProductsRequest(p) \/ ProductsReady(p) \/ ProductsGiveUp(p) \/ ProductsAnswer(p)
  BY Zenon DEF Next, FetchNext, LoopNext, ReloadAccept, ReloadSend, ReportNext, HandlerNext,
               ReloadRequest, ReloadTimeout, ReloadComplete, ReloadGone, WatchHello,
               WatchCapture, WatchUpdated, WatchHeartbeat, WatchStop, MainNext, Hup,
               Terminate, MainError, MainClose, MainCancel, MainExit, MainAbort,
               ListenerStop, ListenerExit, EditFolder, vars, actorVars, handlerVars
<1>4. CASE UNCHANGED <<products, answer>>
  BY <1>1, <1>2, <1>4 DEF ReaderInv
<1>5. ASSUME NEW p \in Products,
             ProductsRequest(p) \/ ProductsReady(p) \/ ProductsGiveUp(p) \/ ProductsAnswer(p)
      PROVE  ReaderInv'
  <2>1. CASE ProductsRequest(p) \/ ProductsGiveUp(p)
    BY <1>1, <1>2, <2>1 DEF ProductsRequest, ProductsGiveUp, ReaderInv, TypeOK, HandlerTypeOK
  <2>2. CASE ProductsReady(p)
    BY <1>1, <1>2, <2>2 DEF ProductsReady, ReaderInv, TypeOK, HandlerTypeOK
  <2>3. CASE ProductsAnswer(p)
    <3>1. answer' = [answer EXCEPT ![p] = [gen |-> gen,
                                           offline |-> offline >= OfflineThreshold]]
          /\ products' = [products EXCEPT ![p] = "done"] /\ gen > 0
      BY <2>3 DEF ProductsAnswer, ReaderInv
    <3> QED BY <1>1, <1>2, <3>1 DEF ReaderInv, TypeOK, HandlerTypeOK
  <2> QED BY <1>5, <2>1, <2>2, <2>3
<1> QED BY <1>3, <1>4, <1>5

(* A request for products is never answered from the empty claims of a     *)
(* daemon that has not loaded its licenses yet (handlers.go:166-184).      *)
THEOREM AnswersAreLoaded == Spec => []AnswersHaveClaims
<1>1. Init => ReaderInv
  BY DEF Init, SharedInit, HandlerInit, ReaderInv
<1>2. ReaderInv => AnswersHaveClaims
  BY DEF ReaderInv, AnswersHaveClaims
<1> QED BY <1>1, <1>2, ReaderStep, PublishCorrect, TypeCorrect, PTL DEF Spec
---------------------------------------------------------------------------
(* The offline state.  Outside the critical section the counter is the     *)
(* number of failures since the last success, up to the threshold, where   *)
(* it stays until the first one; inside, the count is one fetch behind.    *)
Capped(n) == IF n < OfflineThreshold THEN n + 1 ELSE n

OfflineInv ==
    /\ mutex = "fetcher" <=> fpc \in {"send", "finish"}
    /\ mutex = "free" => offline = IF everOk THEN fails ELSE OfflineThreshold
    /\ mutex = "fetcher" =>
         IF ~fetcherOff THEN everOk /\ fails = 0
         ELSE IF everOk THEN fails = Capped(offline) ELSE offline = OfflineThreshold

LEMMA OfflineStep == TypeOK /\ OfflineInv /\ [Next]_vars => OfflineInv'
<1> SUFFICES ASSUME TypeOK, OfflineInv, [Next]_vars PROVE OfflineInv'
  OBVIOUS
<1>0. /\ offline \in 0 .. OfflineThreshold /\ fails \in 0 .. OfflineThreshold
      /\ everOk \in BOOLEAN /\ fetcherOff \in BOOLEAN /\ mutex \in {"free", "fetcher"}
  BY DEF TypeOK, SharedTypeOK, FetchTypeOK
<1> USE DEF OfflineInv, Capped, OfflineThreshold
<1>1. CASE FetchNoURIs \/ FetchReady \/ FetchWake \/ FetchStop
  BY <1>0, <1>1 DEF FetchNoURIs, FetchReady, FetchWake, FetchStop, keyVars
<1>2. CASE FetchNewKeys \/ FetchUnchanged
  <2>1. mutex' = "fetcher" /\ fpc' \in {"send", "finish"} /\ ~fetcherOff' /\ everOk' /\ fails' = 0
    BY <1>2 DEF FetchNewKeys, FetchUnchanged, FetchLock
  <2> QED BY <2>1
<1>3. CASE FetchFails
  <2>1. /\ mutex = "free" /\ mutex' = "fetcher" /\ fpc' = "finish" /\ fetcherOff'
        /\ fails' = Capped(fails) /\ UNCHANGED <<offline, everOk>>
    BY <1>3 DEF FetchFails, FetchLock, Unlocked
  <2> QED BY <1>0, <2>1
<1>4. CASE FetchSend
  BY <1>0, <1>4 DEF FetchSend, keyVars
<1>5. CASE FetchFinish
  <2>1. /\ mutex = "fetcher" /\ mutex' = "free" /\ fpc' \in {"sleep", "ready"}
        /\ offline' = CountOffline(offline) /\ UNCHANGED <<fetcherOff, fails, everOk>>
    BY <1>5 DEF FetchFinish
  <2> QED BY <1>0, <2>1 DEF CountOffline
<1>6. CASE UNCHANGED <<keyVars, fetchVars>>
  BY <1>6 DEF keyVars, fetchVars
<1>7. FetchNext \/ UNCHANGED <<keyVars, fetchVars>>
  BY Zenon DEF Next, LoopNext, ReloadAccept, ReportNext, HandlerNext, MainNext, Hup,
               Terminate, MainError, MainClose, MainCancel, MainExit, MainAbort,
               ListenerStop, ListenerExit, EditFolder, vars, sharedVars, actorVars
<1> QED BY <1>1, <1>2, <1>3, <1>4, <1>5, <1>6, <1>7 DEF FetchNext, FetchUpdate

(* The daemon calls itself offline exactly while it has never had a        *)
(* successful fetch, or the last three failed (server.go:283-305).         *)
THEOREM OfflineIsExact == Spec => []OfflineMeansThreeFailures
<1>1. Init => OfflineInv
  BY DEF Init, SharedInit, FetchInit, OfflineInv
<1>2. TypeOK /\ OfflineInv => OfflineMeansThreeFailures
  BY DEF TypeOK, SharedTypeOK, FetchTypeOK, OfflineInv, OfflineMeansThreeFailures, Unlocked,
         OfflineThreshold
<1> QED BY <1>1, <1>2, OfflineStep, TypeCorrect, PTL DEF Spec

---------------------------------------------------------------------------
(* Errors.  The listener stops once, and the reporting goroutine starts    *)
(* the survey client once: only without a Collector, which it has from     *)
(* then on because there are claims by the time it reads them.             *)
ErrorsInv ==
    /\ errs + (IF listener # "exited" THEN 1 ELSE 0)
            + (IF rpc \in {"check", "send"} \/ collector = 0 THEN 1 ELSE 0)
         <= ErrChCapacity
    /\ rpc \in {"check", "send"} => collector > 0
    /\ rpc = "read" => gen > 0

LEMMA ErrorsStep == TypeOK /\ TypeOK' /\ PublishInv /\ ErrorsInv /\ [Next]_vars => ErrorsInv'
<1> SUFFICES ASSUME TypeOK, TypeOK', PublishInv, ErrorsInv, [Next]_vars PROVE ErrorsInv'
  OBVIOUS
<1>0. /\ errs \in Nat /\ gen \in Nat /\ gen' \in Nat /\ rgen \in Nat /\ collector \in Nat
      /\ rpc \in {"capture", "select", "read", "check", "send", "done"}
      /\ listener \in {"serving", "stopped", "exited"}
  BY DEF TypeOK, SharedTypeOK, ReportTypeOK, ErrChCapacity
<1> USE DEF ErrorsInv, ErrChCapacity
<1>1. gen' = gen \/ gen' = gen + 1
  <2>1. CASE LoopNext \/ \E r \in Reload : ReloadAccept(r)
    BY <2>1, Zenon DEF LoopNext, LoopStart, LoopTrigger, LoopTick, LoopRLock, LoopScan,
                LoopScanFails, LoopPublish, LoopReady, LoopAnnounce, LoopReply, LoopStop,
                ReloadAccept, LoopReload, DrainAndScan, claimVars
  <2>2. CASE OtherStep
    BY <2>2, OthersDoNotPublish
  <2> QED BY <2>1, <2>2, StepCases DEF LoopStep
<1>2. CASE ReportNext /\ UNCHANGED stopVars
  <2>1. UNCHANGED <<gen, listener>>
    BY <1>2, Zenon DEF ReportNext, claimVars, stopVars
  <2>2. CASE ReportCapture \/ ReportStandBy \/ ReportStop
    BY <1>0, <2>1, <2>2 DEF ReportCapture, ReportStandBy, ReportStop, errorVars
  <2>3. CASE ReportUpdated
    <3>1. gen > 0
      BY <1>0, <2>3 DEF ReportUpdated, PublishInv
    <3> QED BY <1>0, <2>1, <2>3, <3>1 DEF ReportUpdated, errorVars
  <2>4. CASE ReportSetClaims
    BY <1>0, <2>1, <2>4 DEF ReportSetClaims, errorVars
  <2>5. CASE ReportActivate
    <3>1. collector' > 0 /\ collector = 0 /\ rpc' = "check" /\ errs' = errs
      BY <1>0, <2>5 DEF ReportActivate
    <3> QED BY <1>0, <2>1, <3>1
  <2>6. CASE ReportError
    BY <1>0, <2>1, <2>6 DEF ReportError
  <2>7. CASE ReportCheck
    <3>1. rpc = "check" /\ rpc' \in {"capture", "send"} /\ UNCHANGED <<errs, collector>>
      BY <2>7 DEF ReportCheck, errorVars
    <3> QED BY <1>0, <2>1, <3>1
  <2> QED BY <1>2, <2>2, <2>3, <2>4, <2>5, <2>6, <2>7 DEF ReportNext
<1>3. CASE UNCHANGED reportVars
  <2>1. CASE MainError
    BY <1>0, <1>1, <1>3, <2>1 DEF MainError, reportVars, stopVars
  <2>2. CASE ListenerStop \/ ListenerExit
    <3>1. /\ listener # "exited"
          /\ errs' = errs \/ (errs' = errs + 1 /\ listener' = "exited")
      BY <2>2, Zenon DEF ListenerStop, ListenerExit, errorVars
    <3>2. rpc' = rpc /\ collector' = collector
      BY <1>3, Zenon DEF reportVars
    <3> QED BY <1>0, <1>1, <3>1, <3>2
  <2>3. CASE UNCHANGED <<errs, listener>>
    BY <1>0, <1>1, <1>3, <2>3 DEF reportVars
  <2>4. MainError \/ ListenerStop \/ ListenerExit \/ ReportNext \/ UNCHANGED <<errs, listener>>
    <3>1. CASE FetchNext \/ LoopNext \/ \E r \in Reload : ReloadAccept(r)
      BY <3>1, Zenon DEF FetchNext, LoopNext, ReloadAccept, errorVars, stopVars
    <3>2. CASE HandlerNext \/ UNCHANGED vars
      BY <3>2, Zenon DEF HandlerNext, vars, sharedVars, errorVars, stopVars
    <3>3. CASE Hup \/ Terminate \/ EditFolder
      BY <3>3, Zenon DEF Hup, Terminate, EditFolder, errorVars, stopVars
    <3>4. CASE MainClose \/ MainCancel \/ MainExit \/ MainAbort
      BY <3>4, Zenon DEF MainClose, MainCancel, MainExit, MainAbort, sharedVars, errorVars,
                         stopVars
    <3> QED BY <3>1, <3>2, <3>3, <3>4, Zenon DEF Next, MainNext
  <2>5. CASE ReportNext
    <3>1. rfailed' = rfailed /\ rpc' = rpc /\ rgen' = rgen /\ collector' = collector
      BY <1>3, Zenon DEF reportVars
    <3>2. UNCHANGED <<gen, listener>>
      BY <2>5, Zenon DEF ReportNext, claimVars, stopVars
    <3>3. errs' = errs
      BY <2>5, <3>1 DEF ReportNext, ReportCapture, ReportUpdated, ReportSetClaims,
                        ReportActivate, ReportCheck, ReportStandBy, ReportError,
                        ReportStop, errorVars
    <3> QED BY <3>1, <3>2, <3>3
  <2> QED BY <2>1, <2>2, <2>3, <2>4, <2>5
<1>4. (ReportNext /\ UNCHANGED stopVars) \/ UNCHANGED reportVars
  BY Zenon DEF Next, ReloadAccept, ReportNext, MainNext, Hup, Terminate, MainError,
               MainClose, MainCancel, MainExit, MainAbort, ListenerStop, ListenerExit,
               EditFolder, vars, actorVars
<1> QED BY <1>2, <1>3, <1>4

(* Nobody blocks on errCh for good: its capacity covers every error that   *)
(* can still be sent (server.go:182, 323-332, 363-366).                    *)
THEOREM ErrorsAlwaysFit == Spec => []ErrorsFit
<1>1. Init => ErrorsInv
  BY DEF Init, SharedInit, ReportInit, ErrorsInv, ErrChCapacity
<1>2. TypeOK /\ ErrorsInv => ErrorsFit
  BY DEF TypeOK, SharedTypeOK, ReportTypeOK, ErrorsInv, ErrorsFit, ErrorsToCome, ErrChCapacity
<1> QED BY <1>1, <1>2, ErrorsStep, PublishCorrect, TypeCorrect, PTL DEF Spec

---------------------------------------------------------------------------
(* The result.  Once the main goroutine has set it, only a first           *)
(* activation of reporting writes to it again.                             *)
CauseInv == main # "run" /\ activated => err = cause /\ (collector > 0 \/ rpc = "done")

LEMMA CauseStep ==
    TypeOK /\ TypeOK' /\ PublishInv /\ ErrorsInv /\ CauseInv /\ [Next]_vars => CauseInv'
<1> SUFFICES ASSUME TypeOK, TypeOK', PublishInv, ErrorsInv, CauseInv, [Next]_vars
             PROVE  CauseInv'
  OBVIOUS
<1>0. gen \in Nat /\ collector \in Nat
  BY DEF TypeOK, SharedTypeOK, ReportTypeOK
<1>1. CASE ReportNext /\ UNCHANGED mainVars
  <2>1. UNCHANGED <<main, cause, activated, gen>>
    BY <1>1, Zenon DEF ReportNext, mainVars, endVars, claimVars
  <2>2. CASE ReportActivate
    <3>1. collector = 0 /\ rpc = "read"
      BY <2>2 DEF ReportActivate
    <3> QED BY <2>1, <3>1 DEF CauseInv
  <2>3. CASE ReportSetClaims
    <3>1. gen > 0 /\ collector' = gen /\ err' = err
      BY <2>3, Zenon DEF ReportSetClaims, ErrorsInv, errorVars
    <3> QED BY <1>0, <2>1, <3>1 DEF CauseInv
  <2>4. CASE ~ReportActivate /\ ~ReportSetClaims
    <3>1. err' = err /\ collector' = collector /\ (rpc = "done" => rpc' = "done")
      BY <1>1, <2>4 DEF ReportNext, ReportCapture, ReportUpdated, ReportStandBy, ReportCheck,
                        ReportError, ReportStop, errorVars
    <3> QED BY <2>1, <3>1, Zenon DEF CauseInv
  <2> QED BY <2>2, <2>3, <2>4
<1>2. CASE Terminate \/ MainError
  <2>1. /\ err' = cause'
        /\ activated' = (collector > 0 \/ rpc = "done")
        /\ collector' = collector /\ rpc' = rpc
    BY <1>2, Zenon DEF Terminate, MainError, Result, actorVars, reportVars
  <2> QED BY <2>1, Zenon DEF CauseInv
<1>3. CASE UNCHANGED <<err, cause, activated, reportVars>> /\ (main = "run" => main' = "run")
  BY <1>3, Zenon DEF CauseInv, reportVars
<1>4. \/ ReportNext /\ UNCHANGED mainVars
      \/ Terminate \/ MainError
      \/ UNCHANGED <<err, cause, activated, reportVars>> /\ (main = "run" => main' = "run")
  <2>1. CASE FetchNext /\ UNCHANGED <<loopVars, reportVars, handlerVars, mainVars>>
    BY <2>1, Zenon DEF FetchNext, errorVars, mainVars, endVars
  <2>2. CASE LoopNext /\ UNCHANGED <<fetchVars, reportVars, handlerVars, mainVars>>
    BY <2>2, Zenon DEF LoopNext, errorVars, mainVars, endVars
  <2>3. CASE HandlerNext /\ UNCHANGED <<fetchVars, loopVars, reportVars, mainVars>>
    BY <2>3, Zenon DEF HandlerNext, sharedVars, errorVars, mainVars, endVars
  <2>4. CASE \E r \in Reload : ReloadAccept(r)
    BY <2>4, Zenon DEF ReloadAccept, errorVars, mainVars, endVars
  <2>5. CASE Hup \/ MainClose \/ MainCancel \/ MainExit \/ MainAbort
    <3>1. UNCHANGED <<err, cause, activated, reportVars>>
      BY <2>5, Zenon DEF Hup, MainClose, MainCancel, MainExit, MainAbort, sharedVars,
                         errorVars, actorVars, endVars
    <3>2. main = "run" => main' = "run"
      BY <2>5 DEF Hup, MainClose, MainCancel, MainExit, MainAbort
    <3> QED BY <3>1, <3>2
  <2>6. CASE ListenerStop \/ ListenerExit \/ EditFolder
    BY <2>6, Zenon DEF ListenerStop, ListenerExit, EditFolder, errorVars, actorVars, mainVars,
                       endVars
  <2>7. CASE UNCHANGED vars
    BY <2>7, Zenon DEF vars, sharedVars, errorVars, mainVars, endVars
  <2> QED BY <2>1, <2>2, <2>3, <2>4, <2>5, <2>6, <2>7, Zenon DEF Next, MainNext
<1> QED BY <1>1, <1>2, <1>3, <1>4

(* Serve returns nil for a signal and else the error that ended it, but    *)
(* when reporting is activated while it stops (server.go:364, 531, 582).   *)
THEOREM ResultIsCause == Spec => []ServeTellsCause
<1>1. Init => ErrorsInv /\ CauseInv
  BY DEF Init, SharedInit, ReportInit, ErrorsInv, ErrChCapacity, CauseInv
<1>2. CauseInv => ServeTellsCause
  BY DEF CauseInv, ServeTellsCause
<1> QED BY <1>1, <1>2, CauseStep, ErrorsStep, PublishCorrect, TypeCorrect, PTL DEF Spec
=============================================================================
