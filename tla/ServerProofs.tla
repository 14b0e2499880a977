---------------------------- MODULE ServerProofs ----------------------------
(***************************************************************************)
(* Theorems about Server, for every value of its constants.                *)
(***************************************************************************)
EXTENDS Server, FiniteSetTheorems, WellFoundedInduction, TLAPS

---------------------------------------------------------------------------
LEMMA FetchKeepsType ==
    ASSUME TypeOK, FetchNext, UNCHANGED <<loopVars, reportVars, handlerVars, mainVars>>
    PROVE  TypeOK'
<1>1. LoopTypeOK' /\ ReportTypeOK' /\ HandlerTypeOK'
  BY DEF TypeOK, LoopTypeOK, ReportTypeOK, HandlerTypeOK, loopVars, reportVars, handlerVars
<1>2. MainTypeOK'
  BY DEF TypeOK, MainTypeOK, mainVars, endVars
<1>3. SharedTypeOK' /\ FetchTypeOK'
  <2>0. UNCHANGED <<folderVars, claimVars, errorVars, replied, stopVars>>
    BY DEF FetchNext
  <2> USE <2>0 DEF TypeOK, SharedTypeOK, FetchTypeOK, folderVars, claimVars, errorVars, stopVars
  <2>1. CASE FetchNoURIs
    BY <2>1 DEF FetchNoURIs
  <2>2. CASE FetchNewKeys
    <3>0. 0 \in 0 .. OfflineThreshold
      BY DEF OfflineThreshold
    <3>1. FetchTypeOK'
      BY <2>2, <3>0, Zenon DEF FetchNewKeys
    <3>2. kver' \in Nat
      BY <2>2 DEF FetchNewKeys
    <3>3. SharedTypeOK'
      BY <2>2, <3>2, Zenon DEF FetchNewKeys, FetchLock
    <3> QED BY <3>1, <3>3
  <2>3. CASE FetchUnchanged
    <3>0. 0 \in 0 .. OfflineThreshold
      BY DEF OfflineThreshold
    <3>1. FetchTypeOK'
      BY <2>3, <3>0, Zenon DEF FetchUnchanged
    <3>2. SharedTypeOK'
      BY <2>3, Zenon DEF FetchUnchanged, FetchLock
    <3> QED BY <3>1, <3>2
  <2>4. CASE FetchFails
    <3>0. fails' \in 0 .. OfflineThreshold
      BY <2>4, SMTT(30) DEF FetchFails, OfflineThreshold
    <3>1. FetchTypeOK'
      BY <2>4, <3>0, Zenon DEF FetchFails
    <3>2. SharedTypeOK'
      BY <2>4, Zenon DEF FetchFails, FetchLock
    <3> QED BY <3>1, <3>2
  <2>5. CASE FetchSend
    BY <2>5 DEF FetchSend, keyVars
  <2>6. CASE FetchFinish
    BY <2>6 DEF FetchFinish, CountOffline, OfflineThreshold
  <2>7. CASE FetchReady
    BY <2>7 DEF FetchReady
  <2>8. CASE FetchWake
    BY <2>8 DEF FetchWake, keyVars
  <2>9. CASE FetchStop
    BY <2>9 DEF FetchStop, keyVars
  <2> QED BY <2>1, <2>2, <2>3, <2>4, <2>5, <2>6, <2>7, <2>8, <2>9 DEF FetchNext, FetchUpdate
<1> QED BY <1>1, <1>2, <1>3 DEF TypeOK

LEMMA LoopKeepsType ==
    ASSUME TypeOK, LoopNext, UNCHANGED <<fetchVars, reportVars, handlerVars, mainVars>>
    PROVE  TypeOK'
<1>1. FetchTypeOK' /\ ReportTypeOK' /\ HandlerTypeOK'
  BY DEF TypeOK, FetchTypeOK, ReportTypeOK, HandlerTypeOK, fetchVars, reportVars, handlerVars
<1>2. MainTypeOK'
  BY DEF TypeOK, MainTypeOK, mainVars, endVars
<1>3. SharedTypeOK' /\ LoopTypeOK'
  <2>0. UNCHANGED <<folderVars, keyVars, errorVars, stopVars>>
    BY DEF LoopNext
  <2> USE <2>0 DEF TypeOK, SharedTypeOK, LoopTypeOK, folderVars, keyVars, errorVars, stopVars
  <2>1. CASE LoopStart
    BY <2>1 DEF LoopStart, DrainAndScan, claimVars
  <2>2. CASE LoopTrigger
    BY <2>2 DEF LoopTrigger, DrainAndScan, claimVars
  <2>3. CASE LoopTick
    BY <2>3 DEF LoopTick, DrainAndScan, claimVars
  <2>4. CASE LoopRLock
    BY <2>4 DEF LoopRLock, claimVars
  <2>5. CASE LoopScan
    <3>1. Active(folder, lkeys, loff) \in SUBSET License
      BY <2>5 DEF LoopScan, Active
    <3> QED BY <2>5, <3>1 DEF LoopScan, Decide, AfterScan, claimVars
  <2>6. CASE LoopScanFails
    <3>1. lclaims' \in SUBSET License /\ lpc' \in {"idle", "reply", "publish"}
      BY <2>6 DEF LoopScanFails, Decide, AfterScan
    <3>2. scanEdits' \in Nat /\ scanOk' \in BOOLEAN
      BY <2>6 DEF LoopScanFails
    <3>3. /\ UNCHANGED <<claimVars, trigger, replied>>
          /\ UNCHANGED <<lkeys, lkver, loff, lhist, first, lupd, lcb>>
      BY <2>6, Zenon DEF LoopScanFails
    <3>4. LoopTypeOK'
      BY <3>1, <3>2, <3>3, ZenonT(40)
    <3>5. SharedTypeOK'
      BY <3>3, ZenonT(40) DEF claimVars
    <3> QED BY <3>4, <3>5
  <2>7. CASE LoopPublish
    <3>1. /\ claims' \in SUBSET License /\ gen' \in Nat
          /\ UNCHANGED <<closed, ready, trigger, replied>>
      BY <2>7 DEF LoopPublish
    <3>2. SharedTypeOK'
      BY <3>1, ZenonT(40)
    <3>3. LoopTypeOK'
      BY <2>7 DEF LoopPublish
    <3> QED BY <3>2, <3>3
  <2>8. CASE LoopReady
    <3>1. ready' = TRUE /\ UNCHANGED <<claims, gen, closed, trigger, replied>>
      BY <2>8 DEF LoopReady
    <3>2. SharedTypeOK'
      BY <3>1, ZenonT(40)
    <3>3. LoopTypeOK'
      BY <2>8 DEF LoopReady
    <3> QED BY <3>2, <3>3
  <2>9. CASE LoopAnnounce
    BY <2>9 DEF LoopAnnounce, AfterScan
  <2>10. CASE LoopReply
    BY <2>10 DEF LoopReply, claimVars
  <2>11. CASE LoopStop
    BY <2>11 DEF LoopStop, claimVars
  <2> QED BY <2>1, <2>2, <2>3, <2>4, <2>5, <2>6, <2>7, <2>8, <2>9, <2>10, <2>11 DEF LoopNext
<1> QED BY <1>1, <1>2, <1>3 DEF TypeOK

LEMMA ReportKeepsType ==
    ASSUME TypeOK, ReportNext, UNCHANGED <<fetchVars, loopVars, handlerVars, mainVars>>
    PROVE  TypeOK'
<1>1. FetchTypeOK' /\ LoopTypeOK' /\ HandlerTypeOK'
  BY DEF TypeOK, FetchTypeOK, LoopTypeOK, HandlerTypeOK, fetchVars, loopVars, handlerVars
<1>2. MainTypeOK'
  BY DEF TypeOK, MainTypeOK, mainVars, endVars
<1>3. SharedTypeOK'
  <2>1. /\ errs' = errs \/ (errs < ErrChCapacity /\ errs' = errs + 1)
        /\ err' = err \/ err' = (IF rfailed' THEN "error" ELSE "nil")
    BY Zenon DEF ReportNext, ReportCapture, ReportUpdated, ReportSetClaims, ReportActivate,
                 ReportCheck, ReportStandBy, ReportError, ReportStop, errorVars
  <2>2. UNCHANGED <<folderVars, keyVars, claimVars, trigger, replied, stopVars>>
    BY DEF ReportNext
  <2>3. errs' \in 0 .. ErrChCapacity
    BY <2>1 DEF TypeOK, SharedTypeOK, ErrChCapacity
  <2>4. err' \in {"nil", "error"}
    BY <2>1 DEF TypeOK, SharedTypeOK
  <2> QED BY <2>2, <2>3, <2>4, ZenonT(30) DEF TypeOK, SharedTypeOK, folderVars, keyVars, claimVars, errorVars,
                                         stopVars
<1>4. ReportTypeOK'
  BY FlagAssumption
     DEF TypeOK, SharedTypeOK, ReportTypeOK, ReportNext, ReportCapture, ReportUpdated,
         ReportSetClaims, ReportActivate, ReportCheck, ReportStandBy, ReportError, ReportStop
<1> QED BY <1>1, <1>2, <1>3, <1>4 DEF TypeOK

LEMMA HandlersKeepType ==
    ASSUME TypeOK, HandlerNext, UNCHANGED <<fetchVars, loopVars, reportVars, mainVars>>
    PROVE  TypeOK'
<1>1. FetchTypeOK' /\ LoopTypeOK' /\ ReportTypeOK'
  BY DEF TypeOK, FetchTypeOK, LoopTypeOK, ReportTypeOK, fetchVars, loopVars, reportVars
<1>2. MainTypeOK'
  BY DEF TypeOK, MainTypeOK, mainVars, endVars
<1>3. SharedTypeOK'
  BY DEF TypeOK, SharedTypeOK, HandlerNext, sharedVars, folderVars, keyVars, claimVars,
         errorVars, stopVars
<1>4. HandlerTypeOK'
  <2> USE DEF TypeOK, SharedTypeOK, HandlerTypeOK
  <2>1. ASSUME NEW r \in Reload,
               ReloadRequest(r) \/ ReloadTimeout(r) \/ ReloadComplete(r) \/ ReloadGone(r)
        PROVE  HandlerTypeOK'
    BY <2>1 DEF ReloadRequest, ReloadTimeout, ReloadComplete, ReloadGone
  <2>2. ASSUME NEW w \in Watcher,
               \/ WatchHello(w) \/ WatchCapture(w) \/ WatchUpdated(w)
               \/ WatchHeartbeat(w) \/ WatchStop(w)
        PROVE  HandlerTypeOK'
    BY <2>2 DEF WatchHello, WatchCapture, WatchUpdated, WatchHeartbeat, WatchStop, SendEvent
  <2>3. ASSUME NEW p \in Products,
               \/ ProductsRequest(p) \/ ProductsReady(p) \/ ProductsGiveUp(p)
               \/ ProductsAnswer(p)
        PROVE  HandlerTypeOK'
    <3>1. CASE ProductsAnswer(p)
      <4>1. [gen |-> gen, offline |-> offline >= OfflineThreshold]
               \in [gen : Nat, offline : BOOLEAN]
        BY DEF OfflineThreshold
      <4> QED BY <3>1, <4>1 DEF ProductsAnswer
    <3>2. CASE ProductsRequest(p) \/ ProductsReady(p) \/ ProductsGiveUp(p)
      BY <3>2 DEF ProductsRequest, ProductsReady, ProductsGiveUp
    <3> QED BY <2>3, <3>1, <3>2
  <2> QED BY <2>1, <2>2, <2>3 DEF HandlerNext
<1> QED BY <1>1, <1>2, <1>3, <1>4 DEF TypeOK

LEMMA AcceptKeepsType ==
    ASSUME TypeOK, NEW r \in Reload, ReloadAccept(r)
    PROVE  TypeOK'
<1>1. FetchTypeOK' /\ ReportTypeOK'
  BY DEF TypeOK, FetchTypeOK, ReportTypeOK, ReloadAccept, fetchVars, reportVars
<1>2. MainTypeOK'
  BY DEF TypeOK, MainTypeOK, ReloadAccept, mainVars, endVars
<1>3. SharedTypeOK' /\ LoopTypeOK'
  BY DEF TypeOK, SharedTypeOK, LoopTypeOK, ReloadAccept, LoopReload, DrainAndScan,
         folderVars, keyVars, claimVars, errorVars, stopVars
<1>4. HandlerTypeOK'
  BY DEF TypeOK, HandlerTypeOK, ReloadAccept, ReloadSend
<1> QED BY <1>1, <1>2, <1>3, <1>4 DEF TypeOK

LEMMA MainKeepsType ==
    ASSUME TypeOK, MainNext \/ ListenerStop \/ ListenerExit \/ EditFolder
    PROVE  TypeOK'
<1>1. UNCHANGED <<fetchVars, loopVars, reportVars, handlerVars>>
  BY DEF MainNext, Hup, Terminate, MainError, MainClose, MainCancel, MainExit, MainAbort,
         ListenerStop, ListenerExit, EditFolder, actorVars
<1>2. FetchTypeOK' /\ LoopTypeOK' /\ ReportTypeOK' /\ HandlerTypeOK'
  BY <1>1 DEF TypeOK, FetchTypeOK, LoopTypeOK, ReportTypeOK, HandlerTypeOK, fetchVars,
              loopVars, reportVars, handlerVars
<1>3. SharedTypeOK' /\ MainTypeOK'
  <2> USE DEF TypeOK, SharedTypeOK, MainTypeOK, sharedVars, folderVars, keyVars, claimVars,
              errorVars, stopVars, mainVars, endVars, Result
  <2>1. CASE Hup
    BY <2>1 DEF Hup
  <2>2. CASE MainExit \/ MainAbort
    <3>1. main' = "exited" /\ UNCHANGED <<sharedVars, hups, hupEdits, endVars>>
      BY <2>2, Zenon DEF MainExit, MainAbort
    <3>2. SharedTypeOK'
      BY <3>1, ZenonT(40)
    <3> QED BY <3>1, <3>2, Zenon
  <2>8. CASE Terminate
    BY <2>8 DEF Terminate
  <2>3. CASE MainError
    BY <2>3 DEF MainError, ErrChCapacity
  <2>4. CASE MainClose
    BY <2>4 DEF MainClose
  <2>9. CASE MainCancel
    BY <2>9 DEF MainCancel
  <2>5. CASE ListenerStop
    BY <2>5 DEF ListenerStop
  <2>6. CASE ListenerExit
    BY <2>6 DEF ListenerExit, ErrChCapacity
  <2>7. CASE EditFolder
    BY <2>7 DEF EditFolder
  <2> QED BY <2>1, <2>2, <2>3, <2>4, <2>5, <2>6, <2>7, <2>8, <2>9 DEF MainNext
<1> QED BY <1>2, <1>3 DEF TypeOK

LEMMA InitType == Init => TypeOK
<1> SUFFICES ASSUME Init PROVE TypeOK
  OBVIOUS
<1>1. SharedTypeOK
  <2>1. /\ 0 \in 0 .. ErrChCapacity /\ OfflineThreshold \in 0 .. OfflineThreshold /\ 0 \in Nat
        /\ {} \in SUBSET License /\ {} \in SUBSET Nat /\ {} \in SUBSET Reload
    BY DEF OfflineThreshold, ErrChCapacity
  <2> QED BY <2>1, Zenon DEF Init, SharedInit, SharedTypeOK
<1>2. FetchTypeOK
  <2>1. 0 \in 0 .. OfflineThreshold
    BY DEF OfflineThreshold
  <2>2. fpc \in {"fetch", "nouris"}
    BY Zenon DEF Init, FetchInit
  <2> QED BY <2>1, <2>2, Zenon DEF Init, FetchInit, FetchTypeOK
<1>5. LoopTypeOK
  <2>1. 0 \in Nat /\ {} \in SUBSET License /\ {} \in SUBSET Reload
    OBVIOUS
  <2> QED BY <2>1, Zenon DEF Init, LoopInit, LoopTypeOK
<1>3. ReportTypeOK
  BY FlagAssumption DEF Init, ReportInit, ReportTypeOK
<1>4. HandlerTypeOK
  BY DEF Init, HandlerInit, HandlerTypeOK
<1> QED BY <1>1, <1>2, <1>3, <1>4, <1>5 DEF Init, TypeOK, MainTypeOK

LEMMA NextKeepsType == TypeOK /\ [Next]_vars => TypeOK'
<1> SUFFICES ASSUME TypeOK, [Next]_vars PROVE TypeOK'
  OBVIOUS
<1>1. CASE UNCHANGED vars
  BY <1>1 DEF TypeOK, SharedTypeOK, FetchTypeOK, LoopTypeOK, ReportTypeOK, HandlerTypeOK,
              MainTypeOK, vars, sharedVars, folderVars, keyVars, claimVars, errorVars,
              stopVars, fetchVars, loopVars, reportVars, handlerVars, mainVars, endVars
<1>2. CASE Next
  BY <1>2, FetchKeepsType, LoopKeepsType, ReportKeepsType, HandlersKeepType,
     AcceptKeepsType, MainKeepsType DEF Next
<1> QED BY <1>1, <1>2

(* Every variable of the daemon keeps its type.                            *)
THEOREM TypeCorrect == Spec => []TypeOK
BY InitType, NextKeepsType, PTL DEF Spec

---------------------------------------------------------------------------
(* Who changes what: the frame of the invariants below.                    *)

LoopStep == LoopNext /\ UNCHANGED <<fetchVars, reportVars, handlerVars, mainVars>>

OtherStep ==
    \/ FetchNext /\ UNCHANGED <<loopVars, reportVars, handlerVars, mainVars>>
    \/ ReportNext /\ UNCHANGED <<fetchVars, loopVars, handlerVars, mainVars>>
    \/ HandlerNext /\ UNCHANGED <<fetchVars, loopVars, reportVars, mainVars>>
    \/ MainNext
    \/ ListenerStop
    \/ ListenerExit
    \/ EditFolder
    \/ UNCHANGED vars

LEMMA StepCases ==
    ASSUME [Next]_vars
    PROVE  LoopStep \/ (\E r \in Reload : ReloadAccept(r)) \/ OtherStep
BY Zenon DEF Next, LoopStep, OtherStep

(* Only the license goroutine publishes, closes channels and replies.      *)
LEMMA OthersDoNotPublish ==
    ASSUME OtherStep
    PROVE  /\ UNCHANGED <<claims, gen, closed, ready, replied>>
           /\ UNCHANGED <<lpc, lkeys, lkver, loff, lclaims, lhist, lsub, first, lupd, lcb>>
           /\ UNCHANGED <<scanEdits, scanOk>>
<1>1. UNCHANGED <<claimVars, replied, loopVars>>
  <2>1. CASE FetchNext /\ UNCHANGED <<loopVars, reportVars, handlerVars, mainVars>>
    BY <2>1, Zenon DEF FetchNext
  <2>2. CASE ReportNext /\ UNCHANGED <<fetchVars, loopVars, handlerVars, mainVars>>
    BY <2>2, Zenon DEF ReportNext
  <2>3. CASE HandlerNext /\ UNCHANGED <<fetchVars, loopVars, reportVars, mainVars>>
    BY <2>3, Zenon DEF HandlerNext, sharedVars
  <2>4. CASE MainNext
    BY <2>4, Zenon DEF MainNext, Hup, Terminate, MainError, MainClose, MainCancel, MainExit,
                       MainAbort, sharedVars, actorVars
  <2>5. CASE ListenerStop \/ ListenerExit \/ EditFolder
    BY <2>5, Zenon DEF ListenerStop, ListenerExit, EditFolder, actorVars
  <2>6. CASE UNCHANGED vars
    BY <2>6, Zenon DEF vars, sharedVars
  <2> QED BY <2>1, <2>2, <2>3, <2>4, <2>5, <2>6 DEF OtherStep
<1> QED BY <1>1, Zenon DEF claimVars, loopVars

(* Nobody else takes a trigger out of triggerCh.                           *)
LEMMA OthersKeepTrigger ==
    ASSUME OtherStep
    PROVE  trigger' = trigger \/ trigger' # "none"
<1>1. CASE FetchNext
  BY <1>1, Zenon DEF FetchNext, FetchNoURIs, FetchUpdate, FetchNewKeys, FetchUnchanged,
                     FetchFails, FetchSend, FetchFinish, FetchReady, FetchWake, FetchStop
<1>2. CASE ReportNext
  BY <1>2, Zenon DEF ReportNext
<1>3. CASE HandlerNext
  BY <1>3, Zenon DEF HandlerNext, sharedVars
<1>4. CASE MainNext
  BY <1>4, Zenon DEF MainNext, Hup, Terminate, MainError, MainClose, MainCancel, MainExit,
                     MainAbort, sharedVars
<1>5. CASE ListenerStop \/ ListenerExit \/ EditFolder
  BY <1>5, Zenon DEF ListenerStop, ListenerExit, EditFolder
<1>6. CASE UNCHANGED vars
  BY <1>6, Zenon DEF vars, sharedVars
<1> QED BY <1>1, <1>2, <1>3, <1>4, <1>5, <1>6 DEF OtherStep

(* What the license goroutine and a rendezvous leave alone.                *)
LEMMA LoopFrame ==
    ASSUME LoopStep \/ \E r \in Reload : ReloadAccept(r)
    PROVE  /\ UNCHANGED <<folder, edits, mutex, jwks, kver, offline, loaded>>
           /\ UNCHANGED <<fpc, main, hups, hupEdits>>
BY Zenon DEF LoopStep, LoopNext, ReloadAccept, folderVars, keyVars, fetchVars, mainVars

(* The folder is only ever edited forward.                                 *)
LEMMA OthersEdit ==
    ASSUME TypeOK, OtherStep
    PROVE  /\ edits' >= edits /\ edits' \in Nat
           /\ hupEdits' = hupEdits \/ (hupEdits' = edits /\ trigger' # "none")
<1>1. edits' = edits \/ edits' = edits + 1
  BY Zenon DEF OtherStep, FetchNext, ReportNext, HandlerNext, MainNext, Hup, Terminate,
               MainError, MainClose, MainCancel, MainExit, MainAbort, ListenerStop,
               ListenerExit, EditFolder, vars, sharedVars, folderVars
<1>2. hupEdits' = hupEdits \/ (hupEdits' = edits /\ trigger' # "none")
  <2>1. Hup \/ UNCHANGED hupEdits
    BY Zenon DEF OtherStep, FetchNext, ReportNext, HandlerNext, MainNext, Terminate,
                 MainError, MainClose, MainCancel, MainExit, MainAbort, ListenerStop,
                 ListenerExit, EditFolder, vars, mainVars
  <2>2. Hup => hupEdits' = edits /\ trigger' # "none"
    BY DEF Hup
  <2> QED BY <2>1, <2>2, Zenon
<1> QED BY <1>1, <1>2 DEF TypeOK, SharedTypeOK

---------------------------------------------------------------------------
(* Signals.  HupNotLost is inductive once the ghosts are known not to run  *)
(* ahead of the folder.                                                    *)
HupInv ==
    /\ HupNotLost
    /\ hupEdits <= edits
    /\ scanEdits <= edits

LEMMA HupStep == TypeOK /\ TypeOK' /\ HupInv /\ [Next]_vars => HupInv'
<1> SUFFICES ASSUME TypeOK, TypeOK', HupInv, [Next]_vars PROVE HupInv'
  OBVIOUS
<1>0. /\ edits \in Nat /\ hupEdits \in Nat /\ scanEdits \in Nat
      /\ edits' \in Nat /\ hupEdits' \in Nat /\ scanEdits' \in Nat
  BY DEF TypeOK, SharedTypeOK, LoopTypeOK, MainTypeOK
<1>1. CASE LoopStep \/ \E r \in Reload : ReloadAccept(r)
  <2>1. UNCHANGED <<edits, hupEdits>>
    BY <1>1, LoopFrame
  <2>2. CASE LoopStart \/ LoopTrigger \/ LoopTick \/ \E r \in Reload : ReloadAccept(r)
    BY <1>0, <2>1, <2>2
       DEF LoopStart, LoopTrigger, LoopTick, ReloadAccept, LoopReload, DrainAndScan,
           HupInv, HupNotLost
  <2>3. CASE LoopScan \/ LoopScanFails
    <3>1. scanEdits' = edits
      BY <2>3 DEF LoopScan, LoopScanFails
    <3> QED BY <1>0, <2>1, <3>1 DEF HupInv, HupNotLost
  <2>4. CASE LoopRLock \/ LoopStop
    BY <1>0, <2>1, <2>4 DEF LoopRLock, LoopStop, HupInv, HupNotLost
  <2>5. CASE LoopPublish \/ LoopReady \/ LoopAnnounce \/ LoopReply
    BY <1>0, <2>1, <2>5 DEF LoopPublish, LoopReady, LoopAnnounce, LoopReply, AfterScan,
                            HupInv, HupNotLost
  <2> QED BY <1>1, <2>2, <2>3, <2>4, <2>5 DEF LoopStep, LoopNext
<1>2. CASE OtherStep
  <2>1. UNCHANGED <<lpc, scanEdits>>
    BY <1>2, OthersDoNotPublish
  <2>2. /\ trigger' = trigger \/ trigger' # "none"
        /\ edits' >= edits
        /\ hupEdits' = hupEdits \/ (hupEdits' = edits /\ trigger' # "none")
    BY <1>2, OthersKeepTrigger, OthersEdit
  <2> QED BY <1>0, <2>1, <2>2 DEF HupInv, HupNotLost
<1> QED BY <1>1, <1>2, StepCases

(* A SIGHUP is never lost (server.go:482-511, 538-544).                    *)
THEOREM HupsAreServed == Spec => []HupNotLost
<1>1. Init => HupInv
  BY DEF Init, SharedInit, LoopInit, HupInv, HupNotLost
<1>2. HupInv => HupNotLost
  BY DEF HupInv
<1> QED BY <1>1, <1>2, HupStep, TypeCorrect, PTL DEF Spec

---------------------------------------------------------------------------
(* Keys.  Before the first round is over the license goroutine waits, and  *)
(* from then on every new key set comes with a trigger.                    *)
KeysInv ==
    /\ KeysNotLost
    /\ ~loaded => lpc \in {"start", "done"}

(* A step of anyone else replaces s.jwks only on the way to a trigger.     *)
LEMMA OthersAnnounceKeys ==
    ASSUME OtherStep
    PROVE  /\ loaded => loaded'
           /\ \/ kver' = kver /\ (fpc = "send" => fpc' = "send" \/ trigger' # "none")
              \/ ~loaded /\ ~loaded'
              \/ fpc' = "send"
<1>1. CASE FetchNext
  <2>1. CASE FetchNewKeys
    BY <2>1, Zenon DEF FetchNewKeys
  <2>2. CASE FetchSend
    BY <2>2 DEF FetchSend, keyVars
  <2>3. CASE FetchNoURIs \/ FetchUnchanged \/ FetchFails \/ FetchFinish \/ FetchReady
             \/ FetchWake \/ FetchStop
    BY <2>3 DEF FetchNoURIs, FetchUnchanged, FetchFails, FetchLock, FetchFinish, FetchReady,
                FetchWake, FetchStop, keyVars
  <2> QED BY <1>1, <2>1, <2>2, <2>3 DEF FetchNext, FetchUpdate
<1>2. CASE UNCHANGED <<keyVars, fetchVars>>
  BY <1>2 DEF keyVars, fetchVars
<1>3. FetchNext \/ UNCHANGED <<keyVars, fetchVars>>
  BY Zenon DEF OtherStep, ReportNext, HandlerNext, MainNext, Hup, Terminate, MainError,
               MainClose, MainCancel, MainExit, MainAbort, ListenerStop, ListenerExit,
               EditFolder, vars, sharedVars, actorVars
<1> QED BY <1>1, <1>2, <1>3

LEMMA KeysStep == TypeOK /\ KeysInv /\ [Next]_vars => KeysInv'
<1> SUFFICES ASSUME TypeOK, KeysInv, [Next]_vars PROVE KeysInv'
  OBVIOUS
<1>1. CASE LoopStep \/ \E r \in Reload : ReloadAccept(r)
  <2>1. UNCHANGED <<kver, loaded, fpc>>
    BY <1>1, LoopFrame
  <2>2. CASE LoopStart \/ LoopTrigger \/ LoopTick \/ \E r \in Reload : ReloadAccept(r)
    BY <2>1, <2>2 DEF LoopStart, LoopTrigger, LoopTick, ReloadAccept, LoopReload,
                      DrainAndScan, KeysInv, KeysNotLost
  <2>3. CASE LoopScan \/ LoopScanFails
    BY <2>1, <2>3 DEF LoopScan, LoopScanFails, KeysInv, KeysNotLost
  <2>4. CASE LoopRLock \/ LoopStop
    BY <2>1, <2>4 DEF LoopRLock, LoopStop, KeysInv, KeysNotLost
  <2>5. CASE LoopPublish \/ LoopReady \/ LoopAnnounce \/ LoopReply
    BY <2>1, <2>5 DEF LoopPublish, LoopReady, LoopAnnounce, LoopReply, KeysInv, KeysNotLost
  <2> QED BY <1>1, <2>2, <2>3, <2>4, <2>5 DEF LoopStep, LoopNext
<1>2. CASE OtherStep
  <2>1. UNCHANGED <<lpc, lkver>>
    BY <1>2, OthersDoNotPublish
  <2>2. trigger' = trigger \/ trigger' # "none"
    BY <1>2, OthersKeepTrigger
  <2> QED BY <1>2, <2>1, <2>2, OthersAnnounceKeys DEF KeysInv, KeysNotLost
<1> QED BY <1>1, <1>2, StepCases

(* New keys are never missed (server.go:278-281, 385-391, 482-511).        *)
THEOREM KeysAreUsed == Spec => []KeysNotLost
<1>1. Init => KeysInv
  BY DEF Init, SharedInit, LoopInit, KeysInv, KeysNotLost
<1>2. KeysInv => KeysNotLost
  BY DEF KeysInv
<1> QED BY <1>1, <1>2, KeysStep, TypeCorrect, PTL DEF Spec

---------------------------------------------------------------------------
(* Update channels.  first and readyCh change together, and the channel    *)
(* that is about to be closed is the newest replaced one.                  *)
Announcing == lpc \in {"ready", "announce"}

PublishInv ==
    /\ first <=> ~ready
    /\ lpc \in {"start", "ready"} => first
    /\ first => lpc \in {"start", "rlock", "scan", "publish", "ready", "done"}
    /\ first => gen = IF lpc = "ready" THEN 1 ELSE 0
    /\ \A g \in Nat : g < gen <=> g \in closed \/ (Announcing /\ g = lupd)
    /\ Announcing => lupd \notin closed

LEMMA PublishStep == TypeOK /\ PublishInv /\ [Next]_vars => PublishInv'
<1> SUFFICES ASSUME TypeOK, PublishInv, [Next]_vars PROVE PublishInv'
  OBVIOUS
<1>0. gen \in Nat /\ lupd \in Nat /\ first \in BOOLEAN /\ ready \in BOOLEAN
  BY DEF TypeOK, SharedTypeOK, LoopTypeOK
<1> USE DEF PublishInv, Announcing
<1>1. CASE LoopStart \/ LoopTrigger \/ LoopTick \/ \E r \in Reload : ReloadAccept(r)
  BY <1>1 DEF LoopStart, LoopTrigger, LoopTick, ReloadAccept, LoopReload, DrainAndScan,
              claimVars
<1>2. CASE LoopRLock \/ LoopStop
  BY <1>2 DEF LoopRLock, LoopStop, claimVars
<1>3. CASE LoopScan \/ LoopScanFails
  <2>1. lpc = "scan" /\ lpc' \in {"idle", "reply", "publish"} /\ (first => lpc' = "publish")
    BY <1>3 DEF LoopScan, LoopScanFails, Decide, AfterScan
  <2>2. UNCHANGED <<first, lupd, gen, closed, ready>>
    BY <1>3 DEF LoopScan, LoopScanFails, claimVars
  <2> QED BY <2>1, <2>2
<1>4. CASE LoopPublish
  <2>1. lpc' \in {"ready", "announce"} /\ (lpc' = "ready" <=> first)
    BY <1>4 DEF LoopPublish
  <2>2. lupd' = gen /\ gen' = gen + 1 /\ UNCHANGED <<closed, ready, first>>
    BY <1>4 DEF LoopPublish
  <2>3. \A g \in Nat : g < gen <=> g \in closed
    BY <1>4 DEF LoopPublish
  <2>4. \A g \in Nat : g < gen + 1 <=> g < gen \/ g = gen
    BY <1>0
  <2>5. gen \notin closed
    BY <1>0, <2>3
  <2> QED BY <1>0, <2>1, <2>2, <2>3, <2>4, <2>5
<1>5. CASE LoopReady
  BY <1>0, <1>5 DEF LoopReady
<1>6. CASE LoopAnnounce
  <2>1. lpc = "announce" /\ lpc' \in {"idle", "reply"} /\ closed' = closed \cup {lupd}
    BY <1>6 DEF LoopAnnounce, AfterScan
  <2>2. UNCHANGED <<gen, ready, first, lupd>>
    BY <1>6 DEF LoopAnnounce
  <2> QED BY <1>0, <2>1, <2>2
<1>7. CASE LoopReply
  BY <1>7 DEF LoopReply, claimVars
<1>8. CASE OtherStep
  BY <1>8, OthersDoNotPublish
<1> QED BY <1>1, <1>2, <1>3, <1>4, <1>5, <1>6, <1>7, <1>8, StepCases DEF LoopStep, LoopNext

LEMMA PublishCorrect == Spec => []PublishInv
<1>1. Init => PublishInv
  BY DEF Init, SharedInit, LoopInit, PublishInv, Announcing
<1> QED BY <1>1, PublishStep, TypeCorrect, PTL DEF Spec

(* Whoever holds a replaced update channel is woken, and nobody else       *)
(* (server.go:465-478).                                                    *)
THEOREM WaitersAreWoken == Spec => []NoStrandedWaiter
<1>1. ASSUME TypeOK, PublishInv PROVE NoStrandedWaiter
  <2>1. closed \subseteq Nat /\ gen \in Nat /\ lupd \in Nat
    BY <1>1 DEF TypeOK, SharedTypeOK, LoopTypeOK
  <2>2. {g \in 0 .. gen : g < gen} = {g \in Nat : g < gen}
    BY <2>1
  <2> QED BY <1>1, <2>1, <2>2 DEF PublishInv, Announcing, NoStrandedWaiter
<1> QED BY <1>1, TypeCorrect, PublishCorrect, PTL

(* An event is sent only for claims newer than the watch started from      *)
(* (handlers.go:393-402).                                                  *)
THEOREM EventsAreNews == Spec => EventsAnnounceNewClaims
<1>1. ASSUME TypeOK, PublishInv, Next,
             NEW w \in Watcher, watch[w] = "select", told'[w] # told[w]
      PROVE  gen > wgen[w]
  <2>1. HandlerNext
    BY <1>1, Zenon DEF Next, FetchNext, LoopNext, ReportNext, ReloadAccept, ReloadSend,
                       MainNext, Hup, Terminate, MainError, MainClose, MainCancel, MainExit,
                       MainAbort, ListenerStop, ListenerExit, EditFolder, handlerVars,
                       actorVars
  <2>2. wgen[w] \in Nat /\ gen \in Nat
    BY <1>1 DEF TypeOK, SharedTypeOK, HandlerTypeOK
  <2>3. wgen[w] \in closed
    BY <1>1, <2>1 DEF HandlerNext, ReloadRequest, ReloadTimeout, ReloadComplete, ReloadGone,
                      WatchHello, WatchCapture, WatchUpdated, WatchHeartbeat, WatchStop,
                      SendEvent, ProductsRequest, ProductsReady, ProductsGiveUp,
                      ProductsAnswer, TypeOK, HandlerTypeOK
  <2> QED BY <1>1, <2>2, <2>3 DEF PublishInv
<1>2. TypeOK /\ PublishInv /\ [Next]_vars =>
        [\A w \in Watcher : watch[w] = "select" /\ told'[w] # told[w] => gen > wgen[w]]_vars
  BY <1>1, Zenon
<1> QED BY <1>2, TypeCorrect, PublishCorrect, PTL DEF Spec, EventsAnnounceNewClaims

---------------------------------------------------------------------------
(* Reloads.  From the scan on, the request that is being served is covered *)
(* and so is every request whose callback channel was closed; a request    *)
(* that was not yet taken is neither.                                      *)
Scanned == lpc \in {"publish", "ready", "announce", "reply"}
Covered(r) == scanEdits >= askEdits[r]

ReloadInv ==
    /\ scanEdits <= edits
    /\ \A r \in Reload : askEdits[r] <= edits
    /\ \A r \in Reload : reload[r] = "ok" \/ r \in replied => Covered(r)
    /\ \A r \in Reload : r \in lcb /\ Scanned => Covered(r)
    /\ \A r \in Reload : r \in lcb \cup replied => reload[r] \notin {"off", "offer"}
    /\ lcb \cap replied = {}

(* What a step of anyone but the license goroutine does to one request.    *)
LEMMA OthersAndReload ==
    ASSUME TypeOK, OtherStep, NEW r \in Reload
    PROVE  \/ reload'[r] = reload[r] /\ askEdits'[r] = askEdits[r]
           \/ reload[r] = "off" /\ reload'[r] \in {"offer", "refused"} /\ askEdits'[r] = edits
           \/ reload[r] # "off" /\ reload'[r] \in {"timeout", "gone"} /\ askEdits'[r] = askEdits[r]
           \/ r \in replied /\ reload'[r] = "ok" /\ askEdits'[r] = askEdits[r]
<1>1. UNCHANGED <<reload, askEdits>> \/ HandlerNext
  BY Zenon DEF OtherStep, FetchNext, ReportNext, MainNext, Hup, Terminate, MainError,
               MainClose, MainCancel, MainExit, MainAbort, ListenerStop, ListenerExit,
               EditFolder, vars, handlerVars, actorVars
<1>2. CASE HandlerNext
  <2>2. ASSUME NEW q \in Reload,
               ReloadRequest(q) \/ ReloadTimeout(q) \/ ReloadComplete(q) \/ ReloadGone(q)
        PROVE  \/ reload'[r] = reload[r] /\ askEdits'[r] = askEdits[r]
               \/ reload[r] = "off" /\ reload'[r] \in {"offer", "refused"} /\ askEdits'[r] = edits
               \/ /\ reload[r] # "off" /\ reload'[r] \in {"timeout", "gone"}
                  /\ askEdits'[r] = askEdits[r]
               \/ r \in replied /\ reload'[r] = "ok" /\ askEdits'[r] = askEdits[r]
    BY <2>2 DEF ReloadRequest, ReloadTimeout, ReloadComplete, ReloadGone, TypeOK, HandlerTypeOK
  <2>3. (\E q \in Reload : \/ ReloadRequest(q) \/ ReloadTimeout(q)
                           \/ ReloadComplete(q) \/ ReloadGone(q))
        \/ UNCHANGED <<reload, askEdits>>
    BY <1>2, Zenon DEF HandlerNext, WatchHello, WatchCapture, WatchUpdated, WatchHeartbeat,
                       WatchStop, SendEvent, ProductsRequest, ProductsReady, ProductsGiveUp,
                       ProductsAnswer
  <2> QED BY <2>2, <2>3
<1> QED BY <1>1, <1>2

LEMMA ReloadStep == TypeOK /\ TypeOK' /\ ReloadInv /\ [Next]_vars => ReloadInv'
<1> SUFFICES ASSUME TypeOK, TypeOK', ReloadInv, [Next]_vars PROVE ReloadInv'
  OBVIOUS
<1>0. /\ edits \in Nat /\ edits' \in Nat /\ scanEdits \in Nat /\ scanEdits' \in Nat
      /\ \A r \in Reload : askEdits[r] \in Nat /\ askEdits'[r] \in Nat
  BY DEF TypeOK, SharedTypeOK, LoopTypeOK, HandlerTypeOK
<1> USE DEF ReloadInv, Covered, Scanned
<1>1. CASE LoopStep
  <2>0. UNCHANGED <<edits, reload, askEdits>>
    BY <1>1, LoopFrame DEF LoopStep, handlerVars
  <2>1. CASE LoopStart \/ LoopTrigger \/ LoopTick \/ LoopRLock \/ LoopStop
    <3>1. lpc' \in {"rlock", "scan", "done"} /\ UNCHANGED <<scanEdits, lcb, replied>>
      BY <2>1 DEF LoopStart, LoopTrigger, LoopTick, DrainAndScan, LoopRLock, LoopStop
    <3> QED BY <2>0, <3>1
  <2>2. CASE LoopScan \/ LoopScanFails
    <3>1. scanEdits' = edits /\ UNCHANGED <<lcb, replied>>
      BY <2>2 DEF LoopScan, LoopScanFails
    <3> QED BY <1>0, <2>0, <3>1
  <2>3. CASE LoopPublish \/ LoopReady \/ LoopAnnounce
    <3>1. Scanned /\ UNCHANGED <<scanEdits, lcb, replied>>
      BY <2>3 DEF LoopPublish, LoopReady, LoopAnnounce
    <3> QED BY <2>0, <3>1
  <2>4. CASE LoopReply
    <3>1. Scanned /\ UNCHANGED scanEdits /\ lcb' = {} /\ replied' = replied \cup lcb
      BY <2>4 DEF LoopReply
    <3> QED BY <2>0, <3>1
  <2> QED BY <1>1, <2>1, <2>2, <2>3, <2>4 DEF LoopStep, LoopNext
<1>2. ASSUME NEW r \in Reload, ReloadAccept(r) PROVE ReloadInv'
  <2>1. edits' = edits /\ askEdits' = askEdits /\ scanEdits' = scanEdits /\ replied' = replied
    BY <1>2, LoopFrame DEF ReloadAccept, ReloadSend, LoopReload, DrainAndScan
  <2>2. lpc' = "rlock" /\ lcb' = {r} /\ reload' = [reload EXCEPT ![r] = "wait"]
    BY <1>2 DEF ReloadAccept, ReloadSend, LoopReload, DrainAndScan
  <2>3. reload[r] = "offer"
    BY <1>2 DEF ReloadAccept, ReloadSend
  <2> QED BY <2>1, <2>2, <2>3 DEF TypeOK, HandlerTypeOK
<1>3. CASE OtherStep
  <2>1. UNCHANGED <<lpc, lcb, replied, scanEdits>> /\ edits' >= edits
    BY <1>3, OthersDoNotPublish, OthersEdit
  <2> QED BY <1>0, <1>3, <2>1, OthersAndReload
<1> QED BY <1>1, <1>2, <1>3, StepCases

(* A reload answered with success has covered every edit made before it    *)
(* was requested (handlers.go:29-30, 61-81).                               *)
THEOREM ReloadsAreFresh == Spec => []ReloadIsFresh
<1>1. Init => ReloadInv
  BY DEF Init, SharedInit, LoopInit, HandlerInit, ReloadInv, Covered, Scanned
<1>2. ReloadInv => ReloadIsFresh
  BY DEF ReloadInv, ReloadIsFresh, Covered
<1> QED BY <1>1, <1>2, ReloadStep, TypeCorrect, PTL DEF Spec

---------------------------------------------------------------------------
(* Claims.  A set of licenses that are all there has an oldest one, so     *)
(* only the empty list of claims has no subject.                           *)
LEMMA OldestExists ==
    ASSUME NEW c \in SUBSET License, c # {}
    PROVE  \E l \in c : \A m \in c : l <= m
<1>1. c \subseteq Nat
  BY LicenseAssumption
<1>2. PICK l \in c : \A m \in c : ~(<<m, l>> \in OpToRel(<, Nat))
  BY <1>1, NatLessThanWellFounded, WFMin
<1>3. ASSUME NEW m \in c PROVE l <= m
  <2>1. <<m, l>> \in Nat \X Nat /\ <<m, l>>[1] = m /\ <<m, l>>[2] = l
    BY <1>1
  <2>2. m < l => <<m, l>> \in OpToRel(<, Nat)
    BY <2>1, Zenon DEF OpToRel
  <2>3. ~(m < l)
    BY <1>2, <2>2, Zenon
  <2> QED BY <1>1, <2>3
<1> QED BY <1>3

LEMMA OnlyEmptyHasNoSub ==
    ASSUME NEW c \in SUBSET License, ~GlobalSub, SubOf(c) = NoSub
    PROVE  c = {}
<1> SUFFICES ASSUME c # {} PROVE FALSE
  OBVIOUS
<1> DEFINE oldest == CHOOSE l \in c : \A m \in c : l <= m
<1>1. oldest \in c
  BY OldestExists
<1>2. SubOf(c) = Customer[oldest]
  BY DEF SubOf
<1> QED BY <1>1, <1>2, CustomerAssumption

(* Where f is not running or has not yet scanned.                          *)
Quiet == lpc \in {"idle", "rlock", "scan", "reply", "done"}

(* How the claims c, published or about to be, relate to the last scan.    *)
Matches(c) ==
    /\ lsub = SubOf(c)
    /\ scanOk => c = lhist
    /\ ~scanOk => c = lhist \/ (c = {} /\ ~GlobalSub)

ScanInv ==
    /\ Quiet /\ ~first => Matches(claims)
    /\ lpc = "publish" => Matches(lclaims)
    /\ lpc \in {"ready", "announce"} => Matches(claims)
    /\ first /\ lpc \notin {"publish", "ready"} => lhist = {}

LEMMA ScanStep == TypeOK /\ PublishInv /\ ScanInv /\ [Next]_vars => ScanInv'
<1> SUFFICES ASSUME TypeOK, PublishInv, ScanInv, [Next]_vars PROVE ScanInv'
  OBVIOUS
<1>0. claims \in SUBSET License /\ first \in BOOLEAN /\ scanOk \in BOOLEAN
  BY DEF TypeOK, SharedTypeOK, LoopTypeOK
<1> USE DEF Quiet, Matches
<1>1. CASE LoopStart \/ LoopTrigger \/ LoopTick \/ LoopRLock \/ LoopStop
           \/ \E r \in Reload : ReloadAccept(r)
  <2>1. UNCHANGED <<claims, lsub, scanOk, lhist, first>>
    BY <1>1 DEF LoopStart, LoopTrigger, LoopTick, LoopRLock, LoopStop, ReloadAccept,
                LoopReload, DrainAndScan, claimVars
  <2>2. /\ lpc \in {"start", "idle", "rlock"} /\ lpc' \in {"rlock", "scan", "done"}
        /\ lpc = "start" => first
    <3>1. lpc \in {"start", "idle", "rlock"} /\ lpc' \in {"rlock", "scan", "done"}
      BY <1>1 DEF LoopStart, LoopTrigger, LoopTick, LoopRLock, LoopStop, ReloadAccept,
                  LoopReload, DrainAndScan
    <3> QED BY <3>1 DEF PublishInv
  <2> QED BY <2>1, <2>2 DEF ScanInv
<1>2. CASE LoopScan
  <2> DEFINE found == Active(folder, lkeys, loff)
  <2>1. found \in SUBSET License
    BY <1>2 DEF LoopScan, Active, TypeOK, SharedTypeOK
  <2>2. /\ lpc = "scan" /\ lhist' = found /\ scanOk' = TRUE /\ lclaims' = found
        /\ UNCHANGED <<claims, first>>
    BY <1>2 DEF LoopScan, Decide, claimVars
  <2>3. CASE ~first /\ SubOf(found) = lsub /\ found = lhist
    <3>1. lsub' = lsub /\ lpc' \in {"idle", "reply"}
      BY <1>2, <2>3 DEF LoopScan, Decide, AfterScan
    <3>2. claims = found
      BY <2>1, <2>2, <2>3, <1>0, OnlyEmptyHasNoSub DEF ScanInv, SubOf
    <3> QED BY <2>2, <2>3, <3>1, <3>2 DEF ScanInv
  <2>4. CASE ~(~first /\ SubOf(found) = lsub /\ found = lhist)
    <3>1. lsub' = SubOf(found) /\ lpc' = "publish"
      BY <1>2, <2>4 DEF LoopScan, Decide
    <3> QED BY <2>2, <3>1 DEF ScanInv
  <2> QED BY <2>3, <2>4
<1>3. CASE LoopScanFails
  <2>1. /\ lpc = "scan" /\ lclaims' = {} /\ scanOk' = FALSE
        /\ UNCHANGED <<claims, first, lhist>>
    BY <1>3 DEF LoopScanFails, Decide, claimVars
  <2>2. first => lhist = {}
    BY <2>1 DEF ScanInv
  <2>3. CASE ~first /\ SubOf({}) = lsub
    <3>1. lsub' = lsub /\ lpc' \in {"idle", "reply"}
      BY <1>3, <2>3 DEF LoopScanFails, Decide, AfterScan
    <3>2. claims = lhist \/ (claims = {} /\ ~GlobalSub)
      BY <1>0, <2>1, <2>3, OnlyEmptyHasNoSub DEF ScanInv
    <3> QED BY <2>1, <2>3, <3>1, <3>2 DEF ScanInv
  <2>4. CASE first \/ SubOf({}) # lsub
    <3>1. lsub' = SubOf({}) /\ lpc' = "publish"
      BY <1>0, <1>3, <2>4 DEF LoopScanFails, Decide
    <3>2. GlobalSub => lhist = {}
      BY <2>1, <2>2, <2>4 DEF ScanInv, SubOf
    <3> QED BY <2>1, <3>1, <3>2 DEF ScanInv
  <2> QED BY <2>3, <2>4, <1>0
<1>4. CASE LoopPublish
  <2>1. /\ lpc = "publish" /\ lpc' \in {"ready", "announce"} /\ claims' = lclaims
        /\ UNCHANGED <<lsub, scanOk, lhist, first>> /\ (first => lpc' = "ready")
    BY <1>4 DEF LoopPublish
  <2> QED BY <2>1 DEF ScanInv
<1>5. CASE LoopReady
  <2>1. /\ lpc = "ready" /\ lpc' = "announce" /\ first' = FALSE
        /\ UNCHANGED <<claims, lsub, scanOk, lhist>>
    BY <1>5 DEF LoopReady
  <2> QED BY <2>1 DEF ScanInv
<1>6. CASE LoopAnnounce
  <2>1. /\ lpc = "announce" /\ lpc' \in {"idle", "reply"}
        /\ UNCHANGED <<claims, lsub, scanOk, lhist, first>>
    BY <1>6 DEF LoopAnnounce, AfterScan
  <2> QED BY <2>1 DEF ScanInv, PublishInv
<1>7. CASE LoopReply
  <2>1. /\ lpc = "reply" /\ lpc' = "idle"
        /\ UNCHANGED <<claims, lsub, scanOk, lhist, first>>
    BY <1>7 DEF LoopReply, claimVars
  <2> QED BY <2>1 DEF ScanInv
<1>8. CASE OtherStep
  BY <1>8, OthersDoNotPublish DEF ScanInv, SubOf
<1> QED BY <1>1, <1>2, <1>3, <1>4, <1>5, <1>6, <1>7, <1>8, StepCases DEF LoopStep, LoopNext

(* The hooks and the subject together miss no change: what is published is *)
(* what the last readable scan found active (server.go:422-469).           *)
THEOREM NothingMissed == Spec => []ClaimsMatchScan
<1>1. Init => ScanInv
  BY DEF Init, SharedInit, LoopInit, ScanInv, Quiet, Matches
<1>2. ScanInv => ClaimsMatchScan
  BY DEF ScanInv, ClaimsMatchScan, Quiet, Matches
<1> QED BY <1>1, <1>2, ScanStep, PublishCorrect, TypeCorrect, PTL DEF Spec
=============================================================================
