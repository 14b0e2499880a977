------------------------------ MODULE Handlers ------------------------------
(***************************************************************************)
(* The HTTP handlers that take more than one step (server/handlers.go):    *)
(* reload, claims watch and claims of products.  A handler is one request. *)
(* An action that also ends when the client goes away says so by "gone".   *)
(***************************************************************************)
EXTENDS ServerState

VARIABLES
    reload,     \* [Reload -> where the request is]
    askEdits,   \* ghost: edits of the folder when the reload was requested
    watch,      \* [Watcher -> where the request is]
    wgen,       \* [Watcher -> update channel the handler holds]
    told,       \* ghost: generation of the claims when an event was last sent
    products,   \* [Products -> where the request is]
    answer      \* [Products -> what the handler read under the lock]

handlerVars == <<reload, askEdits, watch, wgen, told, products, answer>>

HandlerInit ==
    /\ reload = [r \in Reload |-> "off"]
    /\ askEdits = [r \in Reload |-> 0]
    /\ watch = [w \in Watcher |-> "off"]
    /\ wgen = [w \in Watcher |-> 0]
    /\ told = [w \in Watcher |-> 0]
    /\ products = [p \in Products |-> "off"]
    /\ answer = [p \in Products |-> [gen |-> 0, offline |-> FALSE]]

HandlerTypeOK ==
    /\ reload \in [Reload -> {"off", "offer", "wait", "ok", "timeout", "refused", "gone"}]
    /\ askEdits \in [Reload -> Nat]
    /\ watch \in [Watcher -> {"off", "capture", "select", "closed"}]
    /\ wgen \in [Watcher -> Nat]
    /\ told \in [Watcher -> Nat]
    /\ products \in [Products -> {"off", "wait", "read", "done", "unavailable", "gone"}]
    /\ answer \in [Products -> [gen : Nat, offline : BOOLEAN]]

(* New requests come in while the listener serves.                         *)
Accepting == listener = "serving"

---------------------------------------------------------------------------
(* A POST by root is served, any other request is refused.                 *)
ReloadRequest(r) ==
    /\ Accepting
    /\ reload[r] = "off"
    /\ \E to \in {"offer", "refused"} : reload' = [reload EXCEPT ![r] = to]
    /\ askEdits' = [askEdits EXCEPT ![r] = edits]
    /\ UNCHANGED <<watch, wgen, told, products, answer>>

(* The sending side of reloadCh, joined with LoopReload in module Server.  *)
ReloadSend(r) ==
    /\ reload[r] = "offer"
    /\ reload' = [reload EXCEPT ![r] = "wait"]
    /\ UNCHANGED <<askEdits, watch, wgen, told, products, answer>>

ReloadTimeout(r) ==
    /\ reload[r] = "offer"
    /\ reload' = [reload EXCEPT ![r] = "timeout"]
    /\ UNCHANGED <<askEdits, watch, wgen, told, products, answer>>

(* Mutant: success is sent when the license goroutine took the request.    *)
ReloadCompleteAtOnce(r) ==
    /\ reload[r] = "wait"
    /\ reload' = [reload EXCEPT ![r] = "ok"]
    /\ UNCHANGED <<askEdits, watch, wgen, told, products, answer>>

ReloadComplete(r) ==
    /\ reload[r] = "wait"
    /\ r \in replied
    /\ reload' = [reload EXCEPT ![r] = "ok"]
    /\ UNCHANGED <<askEdits, watch, wgen, told, products, answer>>

(* The client has left, or serveCtx, the parent of the request's context,  *)
(* was cancelled.                                                          *)
ReloadGone(r) ==
    /\ reload[r] \in {"offer", "wait"}
    /\ reload' = [reload EXCEPT ![r] = "gone"]
    /\ UNCHANGED <<askEdits, watch, wgen, told, products, answer>>

---------------------------------------------------------------------------
(* Writing an event fails when the client has gone, which ends the handler *)
SendEvent(w) ==
    /\ told' = [told EXCEPT ![w] = gen]
    /\ \E to \in {"capture", "closed"} : watch' = [watch EXCEPT ![w] = to]

WatchHello(w) ==
    /\ Accepting
    /\ watch[w] = "off"
    /\ SendEvent(w)
    /\ UNCHANGED <<reload, askEdits, wgen, products, answer>>

WatchCapture(w) ==
    /\ watch[w] = "capture"
    /\ Unlocked
    /\ wgen' = [wgen EXCEPT ![w] = gen]
    /\ watch' = [watch EXCEPT ![w] = "select"]
    /\ UNCHANGED <<reload, askEdits, told, products, answer>>

WatchUpdated(w) ==
    /\ watch[w] = "select"
    /\ wgen[w] \in closed
    /\ SendEvent(w)
    /\ UNCHANGED <<reload, askEdits, wgen, products, answer>>

(* Mutant: the heartbeat sends "claims-updated".                           *)
WatchHeartbeatUpdate(w) ==
    /\ watch[w] = "select"
    /\ SendEvent(w)
    /\ UNCHANGED <<reload, askEdits, wgen, products, answer>>

(* Every 60 seconds a "hello", which says nothing about the claims.        *)
WatchHeartbeat(w) ==
    /\ watch[w] = "select"
    /\ \E to \in {"capture", "closed"} : watch' = [watch EXCEPT ![w] = to]
    /\ UNCHANGED <<reload, askEdits, wgen, told, products, answer>>

(* Mutant: "break" leaves the select, and the loop goes on.                *)
WatchStopBreaks(w) ==
    /\ watch[w] = "select"
    /\ closing \/ ctxDone
    /\ watch' = [watch EXCEPT ![w] = "capture"]
    /\ UNCHANGED <<reload, askEdits, wgen, told, products, answer>>

WatchStop(w) ==
    /\ watch[w] = "select"
    /\ closing \/ ctxDone
    /\ watch' = [watch EXCEPT ![w] = "closed"]
    /\ UNCHANGED <<reload, askEdits, wgen, told, products, answer>>

---------------------------------------------------------------------------
ProductsRequest(p) ==
    /\ Accepting
    /\ products[p] = "off"
    /\ products' = [products EXCEPT ![p] = "wait"]
    /\ UNCHANGED <<reload, askEdits, watch, wgen, told, answer>>

(* Mutant: the wait is for the ready channel of Serve, not of the server.  *)
ProductsLoaded(p) ==
    /\ products[p] = "wait"
    /\ loaded
    /\ products' = [products EXCEPT ![p] = "read"]
    /\ UNCHANGED <<reload, askEdits, watch, wgen, told, answer>>

ProductsReady(p) ==
    /\ products[p] = "wait"
    /\ ready
    /\ products' = [products EXCEPT ![p] = "read"]
    /\ UNCHANGED <<reload, askEdits, watch, wgen, told, answer>>

(* 30 seconds without ready, a client that left, or cancellation.          *)
ProductsGiveUp(p) ==
    /\ products[p] = "wait"
    /\ \E to \in {"unavailable", "gone"} : products' = [products EXCEPT ![p] = to]
    /\ UNCHANGED <<reload, askEdits, watch, wgen, told, answer>>

(* Claims and offline state are read in one critical section.  From there  *)
(* on the handler works on its own references.                             *)
ProductsAnswer(p) ==
    /\ products[p] = "read"
    /\ Unlocked
    /\ answer' = [answer EXCEPT ![p] = [gen |-> gen,
                                        offline |-> offline >= OfflineThreshold]]
    /\ products' = [products EXCEPT ![p] = "done"]
    /\ UNCHANGED <<reload, askEdits, watch, wgen, told>>

HandlerNext ==
    /\ \/ \E r \in Reload : \/ ReloadRequest(r) \/ ReloadTimeout(r)
                            \/ ReloadComplete(r) \/ ReloadGone(r)
       \/ \E w \in Watcher : \/ WatchHello(w) \/ WatchCapture(w) \/ WatchUpdated(w)
                             \/ WatchHeartbeat(w) \/ WatchStop(w)
       \/ \E p \in Products : \/ ProductsRequest(p) \/ ProductsReady(p)
                              \/ ProductsGiveUp(p) \/ ProductsAnswer(p)
    /\ UNCHANGED sharedVars
=============================================================================
