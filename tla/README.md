# kustomerd in TLA+

kustomerd is the daemon of Kopano that watches a folder of license files,
verifies them with keys fetched from the web (or with built-in certificates),
and tells other services over a unix socket which license claims are active.
This directory holds its specification: modules translated from the Go code,
TLC runs on small instances, and theorems checked with TLAPS. Line numbers refer
to the sources under `src/`; `PROJECT.json` maps every definition to its lines.

## 1. The system

| Component | State | Operations | Interacts by |
|---|---|---|---|
| JWKS goroutine, `server/server.go:252-321` | its fetcher, `started` | a fetch at the start and every 60 minutes; stores keys, counts failures, opens the daemon for the first scan | `s.mutex`, `s.jwks`, `s.offline`, `readyCh`, `triggerCh` |
| License goroutine, `server/server.go:376-512` | key set copy, load and activate history, `lastSub`, `first` | `f`: scan, decide, publish, announce; run at the start, on a reload, on a trigger, every 60 s | `s.mutex`, `s.claims`, `s.updateCh`, `s.readyCh`, `reloadCh`, `triggerCh` |
| Reporting goroutine, `server/server.go:334-374` | its `Collector` | waits for updates, starts the survey client once, hands claims on | `s.updateCh`, `errCh` |
| HTTP handlers, `server/handlers.go` | one request each | reload, claims, products, watch, claims-gen, health-check | `reloadCh`, `s.claims`, `s.updateCh`, `s.readyCh`, `s.closeCh` |
| Main goroutine and listener, `server/server.go:323-332, 530-582` | exit state | signals, errors, shutdown | `signalCh`, `errCh`, `triggerCh`, `s.closeCh`, `serveCtx`, `exitCh` |
| JWKS fetcher, `jwks.go` | keys, ETag, offline | `Update`: tries over the URIs with backoff | called by the JWKS goroutine |
| License loader, `licenses.go` | the two histories | `ScanFolder`: read, verify, validate, deduplicate, call hooks | called by `f` |
| Products aggregation, `server/handlers.go:186-330` | `response` of a request | folds active claims into one entry per product | reads `s.claims`; appends to arrays it shares with it |
| Claims generator, `license/claims-gen.go` | none | makes claims from a form, key by key | a handler; what it makes is signed by hand |
| License format, `license/license.go` | none | encodes and decodes claims | between generator, files and aggregation |
| Listen path, `server/server.go:188-238` | socket and lock file | clean-up of a stale socket, bind, listen | the file system, other daemons |
| Collector, command line | small or none | one fold, flags, one request each | |

What is hard here:

- *Interleavings.* Five goroutines and any number of handlers share one mutex,
  two conditions that are "closed channels" and one channel of capacity 1 that
  merges signals. The update channel is replaced on every publication, and each
  reader looks it up again before it waits.
- *Blocking.* `triggerCh <- true` happens inside the critical section, `errCh`
  has two places, `reloadCh` none.
- *Stale state.* `f` scans with a copy of the keys; a folder scan takes time
  while others edit; hooks compare with the last scan.
- *Failure.* Fetches fail and recover, ReadDir fails, the survey client and the
  listener fail, clients leave.
- *Time.* Timers of 5 s to 60 min race everything above; licenses become valid
  and expire between scans.
- *Shared memory without locks.* Requests append to slices of the published
  claims; the reporting goroutine writes the variable that Serve returns.
- *Processes.* Daemons on one path share nothing but the file system, and may
  crash between any two calls.

What makes the components correct: no waiter is left on a replaced channel; no
channel is closed twice; no SIGHUP, key set or reload is lost; published claims
are those the last good scan found and converge to the folder; the offline flag
counts failures exactly; readers before the first publication wait; the loader
keeps the newest license per uid, in order, and reports every change; the
fetcher keeps keys, ETag and their server together and succeeds if a server it
tries answers;
the daemon exits when told and returns why; an answer is the aggregate of one
list of licenses, and aggregating changes nothing others can see; the generator
gives what the form asks for, in whatever order it reads the form; a daemon
that came up stays reachable, and a crash leaves nothing that keeps the next
one from coming up.

## 2. The modules

| Module | Models | Lines |
|---|---|---|
| `ServerState` | shared fields, channels and the folder; what a scan finds | `server.go:51-99, 182-186`, `licenses.go:121-176` |
| `JWKSLoop` | JWKS goroutine | `server.go:252-321` |
| `LicenseLoop` | license goroutine | `server.go:376-512` |
| `ReportLoop` | reporting goroutine | `server.go:334-374` |
| `Handlers` | reload, watch, products (waiting and reading) | `handlers.go:31-82, 138-190, 342-413` |
| `Server` | composition, main goroutine, listener, environment, fairness, properties | `server.go:174-582` |
| `ClaimsFeed` | abstract: what the license goroutine promises its readers | `server.go:464-478` |
| `JWKSFetcher` | `Update` and the servers it asks | `jwks.go:36-110` |
| `LicensesLoader` | `ScanFolder`, file by file, and the folder | `licenses.go:60-311` |
| `Products` | requests that aggregate published licenses over shared arrays | `handlers.go:138-340` |
| `ClaimsGen` | `GenerateClaims`, key by key, and the encoding of what it made | `claims-gen.go:18-117`, `handlers.go:86-110` |
| `Claims` | composition of the two: form, claims, license file, answer | `license.go:24-66` |
| `ListenPath` | daemons on one socket path | `server.go:174-238, 554-559` |
| `MCServer`, `MCJWKSFetcher`, `MCLicensesLoader`, `MCClaims` | values of the constants for TLC | |
| `ServerProofs`, `ServerSafetyProofs`, `JWKSFetcherProofs`, `LicensesLoaderProofs`, `ListenPathProofs`, `ClaimsProofs`, `ClaimsAnswerProofs`, `ClaimsServedProofs` | theorems | |

`Server` extends the four actor modules, which extend `ServerState`; an actor's
`...Next` says what its steps leave alone of the shared variables, and `Server`
adds what they leave alone of the other actors. `JWKSFetcher` and
`LicensesLoader` take apart what `JWKSLoop` and `LicenseLoop` do in one step, and
`Products` what a request of `Handlers` does between reading the claims and its
answer. `ListenPath` comes before all of that: `Server` begins when the listener
is there.

### Correspondence

- *Steps.* A critical section of `s.mutex` without a blocking statement is one
  step that needs `Unlocked`. Only the JWKS goroutine blocks inside one, so
  `mutex` records just that. Reads under RLock are single steps as well.
- *Closed channels.* An update channel is the number of publications before it
  was made (`gen`); closed ones are in `closed`. `s.readyCh` is `ready`, the
  local `readyCh` of Serve is `loaded`, which also stands for the JWKS
  goroutine's `started`: they change together, and nobody acts between.
- *triggerCh* is `trigger`, with the sender as its content. *errCh* is a
  counter. The unbuffered `reloadCh` is the joint action `ReloadAccept`.
- *Licenses* are natural numbers ordered by `iat`. Their IDs are distinct in
  `Server`; `LicensesLoader` has records whose IDs and uids may coincide.
- *Scan.* `LoopScan` uses `Active`, the licenses of the folder the keys verify.
  The hooks report a change exactly when that set differs from the last good
  scan's (`lhist`). That a real scan reads file by file is in `LicensesLoader`.
  uid deduplication is there as well and not in `Server`.
- *Failed ReadDir* is `folder = Unreadable`: no claims, no hooks, and the history
  stays (`LoopScanFails`), as in `server.go:438` and `licenses.go:238`.
- *Fetch.* `FetchNewKeys`, `FetchUnchanged` and `FetchFails` are the outcomes of
  `Update`; the 304 outcome needs a key set to be loaded, since only then is an
  ETag sent. The network time lies outside the mutex, so the outcome is picked at
  the lock. A cancelled `Update` returns neither keys nor error and is offline,
  which for the loop is the same as a failure.
- *ETags.* `Tag(u, v)` is what server u gives with key set v, possibly `NoTag`.
  Within one URI a tag names one key set, as HTTP has it; two URIs may give one tag
  to different key sets. `source` is the URI that the keys in use came from, which
  the code does not remember.
- *Survey client.* Starting it may fail (`rfailed`) only where `MayStop` holds.
- *The result of Serve* is `err`. Serve assigns what ended the main loop
  (`Result`), and the reporting goroutine what `autosurvey.Start` returned
  (`ReportActivate`), then compares `err` with nil again: either it sees the
  variable as it is now or the value it has just written (`ReportCheck`). Values
  are nil or not; a torn interface value is not modelled. `cause` keeps what the
  main goroutine found and `activated` whether the other write was over by then.
- *Scan, file by file.* `accepted` is a set of files with their claims. The stable
  sort and the loop that keeps and prepends become an order (`Before`), what is
  kept of it (`Kept`) and a position (`Place`); `AddedIds` is what is left in
  `added` with TRUE.
- *Slices.* A decoded list has an array, named `<<list, license, product, claim>>`
  after where it was decoded, with free slots at its end (`Spare`: encoding/json
  appends items one by one, which doubles the array). A slice in an entry is an
  array and a length. `append` writes to free slots in place and otherwise moves
  to an array of its own; both outcomes of one step are in `Appended` and `Slots`.
  Two requests may write one slot; they write the same value, so the data race
  has one outcome.
- *Products* of a license are visited in any order, as a map iteration does; the
  claims of one product do not influence each other and are one step.
  `haveValue` and `nextValue` come from JSON, where a number is a float64 and a
  list a []interface{}; hence the branch for integers is never taken, and an
  "exclusive" claim always ends in `continue` (`SkipExclusive`). The code behind it
  (`handlers.go:227-249, 323-328`) is unreachable for decoded licenses and not
  modelled. Lists in lists and objects are not modelled.
- *Numbers.* `Float` are the float64 values, `Finite` those that JSON can carry, and
  `Plus` is any total function on them: rounded, and infinite where it overflows.
  An int64 is written in full and read as the nearest float64 (`Nearest`), a float
  comes back as itself. `Finite` is taken to be a set of integers, since all
  finite float64s are multiples of the smallest one; this gives them an order and
  distances. Texts and bools are `Item`s.
- *Forms.* A key is a record of its parts, `Parses` tells which types a value
  parses as, `Integer`, `Decimal` and `Truth` as what. A type assertion that fails is
  `outcome = "panic"`.
- *Answers without a body.* ParseFloat accepts NaN and infinite floats, which
  encoding/json does not. The handler has no way back then: it logs the error and
  the answer is empty, with status 200 (`EncodeFails`, `outcome = "unsent"`; for sums
  `RespondFails`, `pc = "failed"`). Such claims are never signed.
- *Socket path.* `sock` names the process that bound the socket there, or
  `Stale` when it ended without removing it. A socket whose process has not
  called listen refuses connections as a stale one does. A lock is on the file,
  not on the name, so `lockFile` says which file the name stands for.
- *Ghosts* (marked in the modules): counts of edits, which a scan, a signal or a
  request has seen; `fails` and `everOk`; what a watch was told; `steady`, `source`
  and `touched`. They guard no step.

A definition whose comment begins with "Mutant" is its successor with a
plausible slip. Nothing uses it; it stands for the bug that a property must be
able to notice.

## 3. The runs

Sizes are from `tlc -workers 2`.

| Run | Instance | Checks | States |
|---|---|---|---|
| `ServerReload` | 2 licenses, key sets {1} and {1,2} fetched twice, 1 edit, 1 SIGHUP, 1 reload | `TypeOK`, `HupNotLost`, `KeysNotLost`, `ReloadIsFresh`, `OfflineMeansThreeFailures` | 3.4 M |
| `ServerSubscribers` | 2 licenses of certificates, 2 edits, offline mode, 1 watch, 1 products request, reporting | `NoStrandedWaiter`, `NoDoubleClose`, `AnswersHaveClaims`, `ClaimsMatchScan`, `EventsAnnounceNewClaims`, `FeedSpec` | 750 k |
| `ServerLive` | configured subject, 1 license, a key set with it and one without it, 1 edit, 1 reload, no SIGHUP | `ReloadAnswered`, `Converges` | 94 k |
| `ServerStop` | 1 license of certificates, no URIs, 1 watch, reporting, SIGTERM, failures of the listener and the survey client, no SIGHUP | `ErrorsFit`, `ServeTellsCause`, `StopExits` | 28 k |
| `Fetcher` | 3 servers, 2 tries, 3 key sets, 3 outages, tags that name different key sets at different servers | `TypeOK`, `TagMatchesKeys`, `OfflineIsLastOutcome`, `UnchangedIsCurrent`, `OneServerIsEnough`, `UpdateReturns` | 236 k |
| `Loader` | 3 files, 3 licenses (two with one uid, two with one ID, one that becomes valid), 2 edits | `TypeOK`, `NewestPerUid`, `OldestFirst`, `UntouchedAreExact`, `ChangesAreReported` | 3.9 M |
| `Claims` | 2 licenses and a generated one, 11 forms, 2 publications, 2 requests | `TypeOK`, `AnswerIsAggregate`, `PublishedStays`, `OrderIsIrrelevant`, `PanicNeedsMixedTypes`, `GeneratedIsServed` | 1.2 M |
| `Listen` | 3 daemons, 3 starts, stops and crashes at any step | `TypeOK`, `SettledIsReachable`, `AloneComesUp`, `StartEnds` | 54 k |

Four more runs state what a doc or a comment says and end in a counterexample:

| Run | Property | What happens |
|---|---|---|
| `ServerWedge` | `ReloadAnswered` | SIGHUP fills `triggerCh`; the JWKS goroutine blocks on it with the mutex held; the license goroutine has drained before and now waits for the mutex. All of it stands still. |
| `ServerUnheard` | `UpdateIsHeard` | claims are replaced after the hello and before the watch reads `s.updateCh`; the first publication comes before the reporting goroutine reads it |
| `ClaimsDocumented` | `ServedAsDocumented` | a license with an exclusive claim is the only one, and its claims are skipped: the decoded list is no []string (`handlers.go:222`); an integer of it between two float64s is served as the nearer one (`license.go:26`) |
| `ListenTwice` | `NeverDeletesTwice` | two daemons find one stale socket; the first removes the lock file and the socket and serves; the second makes a new lock file, gets its lock, and removes the socket of the first |

`UpdateIsHeard` holds as long as one of two readers hears of the claims, so that
its counterexample shows both misses at once; likewise `ServedAsDocumented` as
long as one of `OnlyLicenseIsActivated` and `IntegersAreServed` does.

`ServerLive` is the same property as `ServerWedge` without SIGHUP: what is left
then does hold, so the signal is what the deadlock needs.

### Bounds and why they suffice

- Two licenses give an older and a newer one, changes that keep the subject and
  changes that do not. Two edits let a change come back. Two fetched key sets
  give one before and one after the daemon is ready.
- One SIGHUP is enough for the channel of capacity 1 to be full when another
  sender comes. One watch, one reload and one products request: handlers of one
  kind never touch each other's state, and the theorems below hold for any
  number of them.
- Failed fetches, 304s, ticks of timers, heartbeats and scans are not bounded.
  `fails` stops at 3 because only "three or more" matters.
- `MayStop` and `Reporting` switch parts off: stopping is checked in
  `ServerStop`, and the other runs need not repeat their states in every stage
  of a shutdown. All of them together fire every action.
- `ServerStop` has no SIGHUP and no URIs. The deadlock of `ServerWedge` needs both;
  where it occurs, the license goroutine does not end and neither does Serve, so
  `StopExits` is about a daemon without it.
- `ServerSubscribers` has no reload and no URIs, so that of `NoDoubleClose` only the
  update channels and `s.readyCh` are at stake in it; for the callbacks and the
  `readyCh` of Serve there is the theorem `ClosedOnce`. With its one edit
  `ServerLive` has no folder that becomes unreadable and readable again; that is
  in `ServerSubscribers`, under `ClaimsMatchScan`.
- Three servers and two tries give a server that is never tried; 2 < 3 is the
  daemon's situation with four URIs. The second server gives its first key set no
  ETag and then those that the others give to other key sets. Key sets are only
  replaced by newer ones, as an issuer does.
- In `Loader` one license has the ID of another and none of its uid, so that a
  file replaced in place keeps its ID.
- `Claims` has a number that meets a text under one name, a list with a free slot
  and one that has an item twice, a product only one license has, and forms
  that are refused for each reason, that give a claim two types in both orders,
  and that ask for every type. Its float type has the numbers 1, 5, 6, 9 and one that
  is infinite: it rounds 7 and 2, 5 + 6 overflows, and "inf" is a value of a form.
  Two requests are enough for one to append while
  another reads; two publications for one to come during a request.
- Three starts give a daemon that cleans up, one that found the same socket, and
  one that starts when a path is free again; a crash may come at any step of
  each.
- Three files are needed for two equal uids and one file that is edited or not
  acceptable between them. Two edits during one scan give replacement and removal.

CHECK_DEADLOCK is FALSE because the daemon does stop: `main = "exited"` ends the
process, and in the instances without timers left nothing may be enabled.
Requests, forms and starts are bounded, so those models come to an end as well.

### Exceptions a property names

- `ServeTellsCause` is about the case that reporting had been activated, or was
  stopped, when the main loop ended. Otherwise a late activation overwrites the
  result: SIGTERM and then a survey client that does not start make Serve return
  an error, and an error of the listener and then one that does start make it
  return nil.
- `ChangesAreReported` leaves out what the hooks cannot tell apart (`Blurred`):
  two files with one ID, of which the second resets the mark of the first; a
  license replaced under the ID it has; licenses of one uid and one time. In
  these cases new claims may not be published until something else changes. The
  code does go wrong there, and no run shows it: a file without `jti` that gets a
  newer license has the ID of the file again and counts as known
  (`licenses.go:88, 265`), so neither hook is called and the daemon stays with the
  claims of the old license; and of a new license that is in two files the second
  finds the ID in the history and resets the mark of the first (`licenses.go:266`).
- `UnchangedIsCurrent` is about an answer of the server that the keys in use came
  from. The tag is sent to any URI (`jwks.go:61`); when the first server fails and
  the second gave the same tag to another key set, its 304 leaves the daemon with
  keys that it does not serve. Nothing in the code prevents that.
- `GeneratedIsServed` and `OrderIsIrrelevant` are about forms that name each
  claim once. `PanicNeedsMixedTypes` says what a form that does not can do.
  `GeneratedIsServed` has an integer served as a nearest float64, as the code does it;
  `IntegersAreServed` is what the documentation says.
- `HupNotLost` and `KeysNotLost` are safety: a trigger is not forgotten. Whether it
  leads to a scan is liveness, and `ServerWedge` shows when it does not.
- `SettledIsReachable` and `AloneComesUp` are about daemons that were alone when
  they came up or until they refused. `ListenTwice` shows that two that start
  together may lose a socket.

### Assumptions

- *FetchWake.* The next fetch is 60 minutes after the last, so a trigger of the
  JWKS goroutine is taken by then if the license goroutine can take steps. Two
  triggers of that goroutine never meet in the channel.
- *Fairness* (`FairSpec` in `Server`): weak for every goroutine's own step that
  is enabled for good, strong where the mutex is needed (`LoopRLock`,
  `LoopPublish`, `WatchCapture`) since sync.RWMutex starves nobody while the JWKS
  goroutine takes it again and again, and strong where a `select` has to pick
  one of several ready cases. Nothing is assumed of signals, edits, clients, or
  of what a fetch returns, and the 10 s timeout of Shutdown is not counted on.
  In `JWKSFetcher` a request ends (30 s timeout) and timers fire. In `ListenPath`
  a start goes on by itself, and flock is strong: it serves whoever waits while
  others come and go. Nobody has to stop, crash or start.
- `srv.Shutdown` closes the listener at once and waits for open requests, as
  net/http documents.
- Signals before `signal.Notify` (`server.go:532`) end the process and are left
  out.

## 4. What is proved

All theorems hold for any set of licenses, key sets and requests and for any
bounds; the assumptions are the named `ASSUME`s of `ServerState` (licenses are a
finite set of numbers, their subjects are not empty, the special values are no
licenses and no key sets), of `JWKSFetcher` (sizes are positive numbers, and one
URI does not give one tag to two key sets), of
`LicensesLoader` (sizes and times are numbers), of `ListenPath` (the special
values are no daemons), of `Claims` and `ClaimsGen` (licenses and forms have the
shape their comments give: a form is a map, so it has a name once; an int64 has a
nearest float64, and a value parses as a finite one unless JSON has it not) and of
`Products` (finite numbers are numbers and so is every sum, the mark of a free slot
is no item, the mark of a slice with an array of its own names no published array).

`ServerProofs`

- `TypeCorrect`: `Spec => []TypeOK`. `StepCases` splits a step of the daemon into
  those of the license goroutine, the reload rendezvous and everything else; the
  lemmas after it say what everything else leaves alone.
- `HupsAreServed` (`HupInv`) and `KeysAreUsed` (`KeysInv`): the properties are
  inductive once the ghosts do not run ahead of the folder, and once nothing but
  the start or the end of the license goroutine precedes the first fetch. The
  drains of `triggerCh` are harmless because each is followed by the read it
  drained for.
- `WaitersAreWoken`, `EventsAreNews`: `PublishInv` ties `gen` and `closed` to the
  place of the license goroutine. Every earlier channel is closed but for the
  one in `lupd` while `lpc` is "ready" or "announce", `lupd` is not closed then,
  and `first` is the negation of `ready`. `NoStrandedWaiter` alone does not know
  that `lupd` is still open.
- `ReloadsAreFresh`: `ReloadInv` says that a request in service is covered from
  the scan on (`Scanned`), and that a request not yet taken is neither in service
  nor answered.
- `NothingMissed`: `f` drops a result only if it equals what is published. The
  invariant has to know what is published after a failed scan: the empty list
  with its subject. `OldestExists` and `OnlyEmptyHasNoSub` show that a non-empty
  list always has another subject, and this is where `CustomerAssumption` is
  used: with a license without subject the theorem is false.

`ServerSafetyProofs`

- `ServerImplementsFeed`: `Spec => FeedSpec`. `LoopPublish`, `LoopReady` and
  `LoopAnnounce` are the three actions of the feed; `PublishInv` gives their
  guards, the rest stutters.
- `ClosedOnce` adds `StartInv` for the ready channel of Serve to `PublishInv` and
  `ReloadInv`.
- `AnswersAreLoaded`: a request that got past `readyCh` finds it closed for good,
  and a closed `readyCh` comes with claims (`ReaderInv`).
- `OfflineIsExact`: `OfflineInv` gives the counter outside the critical section,
  and inside it, where the count is one fetch behind.
- `ErrorsAlwaysFit`: `ErrorsInv` counts what the listener and the reporting
  goroutine may still send. The latter starts the survey client once, because
  its Collector stays whether or not the client starts.
- `ResultIsCause`: `CauseInv` says that once `activated` is set the reporting
  goroutine is never again before its write, again because the Collector stays.

`JWKSFetcherProofs`

- `TypeCorrect`, with `pc = "backoff" => attempt < MaxRetries` as strengthening.
- `OneServerSuffices`: `Ahead` says that a server that was up all the time is at
  or ahead of the current try. A server beyond `MaxRetries` is never asked.
- `TagsMatch`: keys, ETag and `source` are those of one response. From it
  `UnchangedMeansCurrent`: the server that the keys came from answers 304 to its own
  tag, which names one of its key sets (`TagAssumption`). Nothing is assumed of
  tags of different servers.
- `OfflineTellsOutcome`.

`LicensesLoaderProofs`

- `TypeCorrect`, with that the sets of the scan are finite: `Reversed` counts them.
- `NewestWins`, `OldestComesFirst`: `Before` is a strict total order on claims of
  distinct files, so that `Place` is a bijection from the kept claims to the
  positions and is monotone in it; every accepted license with a uid has a first
  one in this order. `result` is then known to be `Deduplicated(accepted)`
  whenever the last scan was good.
- `ScansAreExact`: a file is either still to be read or what was made of it is
  what would be made of it now, unless it was touched since.
- `ChangesAreTold`: `history` is the IDs of `prior`. If the IDs are the same and
  no two coincide, each license has its ID to itself in both scans, and if none
  was replaced under its ID, what `Kept` leaves is the same as well.

`ListenPathProofs`

- `TypeCorrect`, which includes who holds a lock.
- `SettledStaysReachable`, `AloneSucceeds`: a daemon that is alone has a path that
  is free, stale or its own at each of its steps; and once it listens nobody
  else gets past `Dial`, so that nobody is at a step that removes or binds.

`ClaimsProofs`

- `PanicIsMixedTypes`: whatever was made so far was made by a key that has been
  read (`MadeFrom`), so what the assertion finds comes from a key of the same
  name and another type.
- `PublishedIsKept`: `HeldInv` says that a slice of a request whose array is that
  of a published list is never shorter than this list. Hence `append` writes
  behind it (`AggregateKeeps`). It takes the types of generated claims
  (`MadeInv`), of licenses (`LicensesInv`) and the places of requests
  (`RequestInv`).

`ClaimsAnswerProofs`

- `AnswersAreAggregates`: what a request has at any time is the aggregate of the
  licenses it has passed, each wanted product of them has its entry
  (`AnswerInv`). At the end it has passed them all.
- The hard part is the arrays. `append` writes into a published array when it has
  room, and two requests may append to the same array between two steps of each
  other (`handlers.go:295`). `AnswerInv` therefore also says whose array a slice
  may have: that of the first license that counts for the claim (`HeldFits`). So
  two requests that write to one array go through the same values of the same
  list of licenses, and what both have of the array is a beginning of the same
  union. The one behind writes again what is there (`AppendIsShared`), the one
  ahead finds what it wrote (`AppendFits`). It takes `PublishedIsKept`'s
  invariants (`ArrayInv`).
- Unions are stated by cardinality (`IsUnion`, `Nth`) and not by folds: an appended
  list adds what was missing (`FreshItems`). A sum of floats depends on the order,
  so `IsSum` has the sums on the way as a function from the licenses; one more
  license extends it (`SumGrows`). Nothing is assumed of `Plus` but its type.

`ClaimsServedProofs`

- `TypeCorrect`: the invariants of the two modules above give all of `TypeOK` but
  three parts, for which it has `ListInv`, `SlotsInv` and `OutcomeInv`.
- `OrderDoesNotMatter`: `Yields` says what a set of keys makes of a form, without
  an order. What is made so far is what the keys read so far yield, unless
  one of them is refused (`OrderInv`). Two keys that give the same claim are
  what a form that names each claim once does not have. What was made cannot be
  encoded exactly if one of its keys asked for a float without JSON (`UnsentAsked`).
- `GeneratedClaimsAreServed`: the signed file is the generated license (`SignInv`), a
  request that reads it alone answers its aggregate (`AnswersAreAggregates`), and
  the aggregate of one value is that value (`OneIsAggregate`), as the decoder
  made it (`FromJSONShows`). Only what could be encoded is signed (`GenInv`), so
  that every number in a license is finite.

Only model-checked: liveness (`ReloadAnswered`, `Converges`, `StopExits`,
`UpdateReturns`, `StartEnds`), which is out of the prover's reach.

## 5. Not modelled

- Logging, HTTP and JSON formats, TLS, sizes of files; the leeway's length (the
  loader uses 24 hours where `docs/kopano-licenses.md` rule 1 has none).
- `/health-check` and `/api/v1/claims`, which read and change nothing. The `Trusted`
  and `Offline` fields of a products answer are read with the claims under one
  lock.
- `UnsafeScanFolderWithoutVerification` and `LoadHistory` of the loader: the
  daemon does not call the one and uses the other for log levels only.
- The Collector's metrics, which fold the claims it was given (`setClaims` is a
  step of `ReportLoop`) and change nothing.
- The command line: flags, environment variables, one random order of backup
  URIs chosen before Serve begins, and one request for each of `reload` and
  `healthcheck`; the request of `reload` is that of `Handlers`.
- Credentials of socket connections, systemd's notification (`OnFirstClaims`,
  which runs in a goroutine of its own and touches no state), packaging.

Two more remarks on documents and code, which no run states. With a key set
loaded, a license whose kid is not in it is dropped, offline or not
(`licenses.go:122-132`), although `licenses.go:41` speaks of a fallback to the
CertPool; `Verified` does as the code does. Rule 3 of `docs/kopano-licenses.md:17-20`
tells product entries apart by `lid`, which the aggregation never looks at.

What could be added: a refinement of `LicensesLoader` to a scan in one step, as
`LicenseLoop` sees it.
