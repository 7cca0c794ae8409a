# TLA+ models of the Postal Delivery Operations System

The repository is a backend (`backend/src`, Node, Express, Prisma on
PostgreSQL/PostGIS), an app for postmen that works offline (`PostmanApp/src`,
React Native) and an administration panel (`frontend/src`, React).  This
directory holds TLA+ modules translated from that code, TLC configurations that
check them on small instances, and TLAPS proofs.

`PROJECT.json` lists, for every definition, the source lines it stands for.

    tlc -workers 2 -config lifecycle_serial.cfg MCDeliveryChange
    tlapm DeliveryLifecycle_proofs.tla

## 1. Inventory

| Component | State it keeps | Operations | Meets | Module |
|---|---|---|---|---|
| Delivery status machine (`deliveryStatus.service`) | `Delivery.status`, history and attempt rows, an in-process event bus | read and check, write, record, attempt, publish | proofs (checked before DELIVERED), the route planner (events) | `DeliveryLifecycle`, `DeliveryStateMachine` |
| Proof of delivery (`deliveryProof.service`) | one proof row per delivery, files | upload, replace, remove the old file, audit | the status machine | `DeliveryLifecycle` |
| Offline queue (`syncService`, `offlineStore`, `useOfflineSync`, `useDeliveries`) | the queue in memory, its copy in the phone's storage, conflicts | queue, hydrate, drain, retry, dismiss, send directly | the two requests of the lifecycle, sessions | `OfflineSync` |
| Assignment (`assignment.service`, `postman.service`) | beat, postman, exceptions of a delivery; three records of who covers a beat | match, cover, release, postman status, override, resolve, ignore | imports, beats, notices | `Assignment` |
| Import (`import.service`) | the import, its rows | upload, map, confirm, cancel; repair at start | delivery creation, assignment | `ImportConfirm` |
| Route planner (`routePlanner.service`) | a lock per postman in memory, stored routes | get, refresh, recalculate | status machine (events), the pipeline | `RoutePlanner` |
| Optimization pipeline (`RoadRouteOptimizationService`, `routing`, `clustering`, `routeAlgorithms`, `alns`) | a cache of travel times and of lines | start point, travel times, DBSCAN, nearest neighbour, 2-opt, ALNS, line on the map | the route planner, the routing engine | `RoutePlan`, `RouteSearch`, `RouteCost`, `RoadMatrix` |
| Sessions (`auth.service`, `authStore`, `axiosClient`) | refresh tokens; the app's tokens, its shared renewal | sign in, renew, sign out, new password, start of the app | every request, the offline queue | `Sessions` |
| Beats of an office (`beats.routes`) | `Beat`, `BeatLocality`, territories | create, draw, rename, verify, activate, deactivate | directory, sweeps over the deliveries | `BeatOffice` |
| Beat directory (`beatDirectory.service`) | a 30 s cache per office | load, invalidate | matching, every write of a beat | `BeatOffice` |
| Beat list import (`beatImport.routes`, `beatListImport`) | the import row, a transaction over all beats | preview, map, confirm, cancel | directory, sweep | `BeatOffice`, `BeatList` |
| Address matching and decision (`beatMatcher`, `normalize`, `assignmentDecision`) | none | score, decide | the directory, assignment | `BeatMatching`, `AssignmentDecision` |
| Notices of the postmen (`postmanNotifications.service`) | batches in a Map, timers, stored rows | announce, flush | assignment commits | `Notices` |
| Geocoding (`services/geocoding`) | a database cache, memory, a pause between requests | look up, retry, pin, "Retry Geocode All" | two providers, learned locations | `Geocoding` |
| Address learning (`addressLearning.service`) | samples and their median | judge a fix, store a sample, look up | deliveries, geocoding | `AddressLearning` |
| Navigation (`useTurnByTurn`, `navigationProgress`, `directions.service`) | the hook's state and refs, requests under way | fix, mode, answer, reroute, arrive | routing engines, GPS | `Navigation`, `RouteProgress` |
| Staff (`postmen.routes`, `users.routes`, `imageStorage`) | the postman's row, picture, login | picture, status, account, sign-in, deletion | assignment | `Staff` |
| Beat list wizard (`UploadBeatListWizard`) | React state of a modal, requests under way | choose, upload, map, confirm, cancel, close, open | beat list import | `BeatListWizard`, `BeatFile` |
| Reports, dashboards, vehicles, maps, audit | rows | single reads and writes | - | not modelled |
| Other pages of the panel, screens of the app | React state | rendering, calls of the routes above | - | not modelled |

What makes each hard, and what would make it correct:

* **Status and proof.** No handler opens a transaction, so requests on the same
  delivery interleave at every `await` and may stop at any.  Correct: nothing is
  DELIVERED without the proof the office asks for, what is recorded was done, a
  proof row names a file and a file has a row.
* **Offline queue.** Storage answers late, requests and answers get lost, the app
  is killed, and a change made online does not wait for the queue.  Correct: what
  the postman was told is saved reaches the server once and in order, or is
  reported; the queue empties in the end.
* **Assignment.** Transactions write what was read before them; three relations
  say who covers a beat.  Correct: the relations agree, parcels follow the
  roster, a waiting parcel is in the administrator's list, automatic work leaves
  started and hand-placed parcels alone.
* **Import.** Long runs without a transaction, confirms that race, rows that
  fail, a server that stops.  Correct: one run at a time, every row accounted
  for, nothing reported imported that is not, every saved delivery matched.
* **Route planner.** A hand-made lock, a route that is reused, pruned or
  planned again while deliveries change.  Correct: one computation at a time, a
  served route is complete, remaining stops keep their order, everybody is
  answered.
* **Pipeline.** A chain of local searches that must neither lose a stop, split a
  neighbourhood nor return a dearer route; a matrix that is put together from a
  cache which other requests fill, expire and evict.
* **Sessions.** Several requests meet a 401 at once and share one renewal, an
  answer gets lost, another postman signs in on the same phone.  Correct: no
  request or saved change of one account is sent as another, every call settles.
* **Beats.** Writes, invalidation of the directory and sweep follow each other
  without a lock.  Correct: what is cached is current, no parcel waits although
  its beat can be told, overlaps are acknowledged, postmen hear what happened.
* **Geocoding and learning.** Calls overlap between cache, pause and write;
  samples are read before the transaction.  Correct: a precise place stays, a
  learned place is the median of its samples, no request is paid twice, every
  lookup ends.
* **Navigation.** Answers arrive for another mode or start, effects of one commit
  see each other's old state, a route passes twice where the postman stands.
* **Staff and wizard.** Pictures and rows are written one after the other; a status
  is read, then a token issued; a modal is closed or fed another file while an answer is awaited.

## 2. Modules

`DeliveryStatus` holds the enumeration, the allow-list and the groups of statuses;
it is shared by `DeliveryStateMachine` (what the status service promises),
`DeliveryLifecycle` (the handlers), `OfflineSync` (the app, with each request
one step of the server as in `DeliveryStateMachine`) and `Assignment`.
An `MC...` module adds model-checking constants; some also compose:
`MCDeliveryChange` runs either the handlers of one delivery or the phone,
`MCAdministration` either `BeatOffice` or `Staff`, which share no row; `MCPostOffice`
adds an office whose beats share a street, the same module with other parcels.

**DeliveryLifecycle.**  One delivery.  `req[r]` is a handler: `pc` names the
database or file call it is about to make, the other fields are its local
variables.  A status request goes read, checkProof, write, record, attempt,
publish; an upload readProof, saveFile, upsert, removeOld, audit.  Faults:
"abort" stops a handler anywhere (the process stops, or a call throws without a
catch), "database" refuses the proof upsert, "afterUpsert" fails a later call in
the same `try`.  `undone` is history: the files that the clean-up of that `try`
removes although the row names them.

**OfflineSync.**  `queue` is the app's memory, `disk` the storage, `ops` the
storage calls not yet answered (answered in order), `drain` the run of
`processQueue` with the entries of its snapshot, `direct` a change sent without
the queue.  `reopened` is history: applied changes that the office has moved the
delivery back for, so that they would be accepted again.  `world` is fixed in each behaviour and says which events it may
contain: one run then explores several situations.  The server's answer to a
request is the set `ProofReplies` or `StatusReplies`; a request whose answer is
lost has been carried out.

**Assignment.**  A request reads, plans and writes in separate steps; `job[s]`
holds what it read.  A statement that waits for a row lock is modelled as
starting after the lock's release, and a transaction writes all at once.  A
verdict of the matcher is an input: a beat or a reason.  An exception a person
ignores leaves the mark `Ignored` in `open`.  `Work` says which requests may
come.

**ImportConfirm.**  `handler[h]` runs an upload, a mapping or a confirm; rows
are written one by one.  A confirm claims the import, reads it once more, runs in
its `try` and, if that throws, gives the claim back in its `catch` (`RunFails`,
`ReleaseClaim`); `RequestFails` is an error that nothing catches: in an upload or a
re-map, between claim and `try`, in the `catch` itself.  `dropped` is history: imports
left by such an error.  `Crash` empties the handlers; `Restart` computes what
`repairUnassignedDeliveries` goes through.  `young` are the deliveries created
less than a minute ago, which the repair skips (`skipped`); in the world with
"quickRestart" the server is back before they are older.

**RoutePlanner.**  The chain of promises of one postman: `lock` is the entry in
the Map, `req[r].after` the request it waits for.  `ReadIds`, `LoadLatest`,
`PlanRoute` or `Prune`, `StoreRoute` and `Release` are the steps between the
awaits of `getOrPlanRoute` and `recalculateRoute`.  The optimizer is any order of
the stops it may visit.  Deliveries change status, postman or location between any two steps.

**RoutePlan** is that optimizer.  `RouteCost` holds the pure parts as functions
(cost of a route, the closed form for one insertion, nearest neighbour, DBSCAN)
with exact integers: a cost of the code times the common denominator.
`RouteSearch` is the search, one action for a pass of 2-opt or an iteration of
ALNS; the deadline may fall after any move, the wheel of operator weights and the
annealing temperature are choices.  `RoadMatrix` is the cache of travel times
with its order of insertion, expiry and eviction, and which rows, columns and
blocks are asked for.  `RoutePlan` composes them: requests wait for the engine
and share the cache, and one that has its matrix runs alone to its order.

**Sessions.**  The app (`phone`: tokens, account, calls and the one renewal they
share), its secure storage, the requests under way and the `RefreshToken` rows
of two accounts.  Renewals and answers may be lost after the server has acted;
the offline changes of an account are marked with it.  Registering the phone for
pushes and dropping it are calls like the others: a 401 makes them wait for the
renewal and go out again.  After a new password the app saves the tokens, asks who it is
and shows the answer, in three steps.  One sign-in, sign-out or new password
runs at a time, and one registration.

**BeatOffice.**  The rows of the beats, `directory` (the cache), one beat list,
one parcel, the requests.  A request reads and checks, writes, invalidates, then
sweeps; a match reads the directory (or loads it and stores it one step later),
decides and writes.  Where several territories contain the place, the beat
decides whose postman alone has a parcel close by (`Nearest`, `territoryPostmen`); which
parcels those are is read with the territories in one step, of one postman for each beat,
and without the limit of 200 parcels of `nearestActiveDeliveryDistanceM`.  `BeatMatching` scores words against a directory as
`beatMatcher.ts` does, in hundredths; `AssignmentDecision` is
`assignmentDecision.ts`; `BeatList` the check of a list's rows; `Notices` the
batches, their timers and what is lost when the server stops.  `lapse` and
`knowingly` are history: what the code is known not to look after (`lapse.moved`:
parcels whose neighbours changed hands after they were matched), and overlaps
somebody acknowledged.

**Geocoding.**  A job is one call of a geocoding service between its awaits:
memory, learned place, database cache, the wait for its turn, tiers of the
request (equal queries are asked once, as the first of them), refusals and back-off,
the write.  `AddressLearning` judges a fix and
stores a sample in the steps of `learnFromDelivery`.  Places are numbers of
metres on a line.

**Navigation.**  The hook's state is one record, its effects are functions of it
applied in the order React runs them, and `flights` are requests under way.
Fixes come or do not come.  `RouteProgress` is the pure part, over streets along two axes with whole metres.

**Staff.**  A postman's row, login and picture; a request's steps are its awaits.
A sign-in (or the choice of a new password) reads the status and issues a token
later, a renewal reads the old token and issues another later; one of them is under
way at a time.  `login.overtaken` is history: the tokens were revoked last while one was.

**BeatListWizard.**  What the modal shows, what it has asked for, and the import
rows of the server; `BeatFile` reads a file of rows as `beatListImport.ts` does.

## 3. Runs

| Run | Module | What it asks | Bounds |
|---|---|---|---|
| `lifecycle_concurrent` | `MCDeliveryLifecycle` | proof before DELIVERED; a proof row has its file; attempts are recorded as they happened, with every fault | 2 overlapping requests, 2 files, 1 change: three requests on one delivery add no new pair of steps that read and write the same row; all three are proved for any number |
| `lifecycle_serial` | `MCDeliveryChange` | handlers implement `DeliveryStateMachine`; files and rows match; nothing is stranded; events follow; in the app, the queue empties when the connection comes and goes | 1 request at a time, 5 changes (the longest way to RETURNED and back out of RESCHEDULED), 3 files; 2 changes of the phone, lost requests and answers, deliveries moved or given away |
| `offline_saved` | `MCOfflineSync` | kept, applied as told (in order, once, proof first), reported | 2 changes on 1 delivery in 5 worlds, in two of which the office moves it, back too: every property compares two changes at most; 2 attempts stand for MAX_PROOF_ATTEMPTS = 8 |
| `assign_serial` | `MCAssignment` | relations agree, parcels follow the roster, verdicts, waiting is visible, nothing pulled back | every kind of work, rolled back anywhere; 1 parcel, 2 postmen, 2 beats |
| `imports` | `MCImportConfirm` | one run, every row accounted for, confirmed is final, matched in the end | 2 imports of 2 rows that share a tracking id, 2 handlers, 1 stop (a short one too), 2 mappings, errors in and outside the `try`, in 5 worlds |
| `routes` | `MCRoutePlanner` | no needless planning, complete answers, no reshuffling, everybody answered | 2 requests, 3 deliveries (one cannot be driven to), 2 changes, failures and stops: the lock needs two requests at once and, since each slot is used again, a third behind them |
| `plan` | `MCRoutePlan` | clusters stay whole, no route gets dearer, the insertion formula is exact, converged means converged; estimates only where no road is, and said | rounds of 1 to 5 stops with every removal and repair, chosen so that 2-opt needs several passes and both levels improve; 2 requests over a cache that expires, evicts at 15 pairs and is asked in blocks of 2 |
| `sessions` | `MCSessions` | no data or change crosses accounts; every call settles | 2 accounts, 2 calls at once or one beside those for pushes, 2 tokens, in 3 worlds with lost answers or a restart; a renewal may hang in each |
| `administration` | `MCPostOffice` | cached and waiting follow the beats, neighbours decide, shared localities are not guessed, overlaps are decided, postmen are told; a postman's row, picture, login and names agree | 2 beats, 2 territories that overlap, a list of 3 rows, 1 parcel, 2 to 4 requests in 6 worlds; a street of 3 parcels, 300 m (as far as counts for close by), 310 m and 120 m apart, 5 requests one at a time: a neighbour on each side is what it takes to decide, to tie and to undo a decision; 2 requests about 1 postman, 2 pictures, in 4 worlds, with sign-ins and renewals where requests come one by one (overlapping ones undo the status of a login without them) |
| `geocode` | `MCGeocoding` | places are as good as they say, repeats are harmless, lookups end | 4 parcels at 2 addresses, 2 calls at once, both providers with every kind of match, 7 situations |
| `navigate` | `MCNavigation` | directions, mode and progress fit; progress does not jump; unguided is temporary while fixes come | 2 modes, an out-and-back street, places on and off it, 2 accuracies |
| `panel` | `MCBeatListWizard` | what is imported is what was shown; what is listed is found by a match | a directory of 8 rows and a file that cannot be read, one list with 2 changes of its columns or two lists, 2 calls at once, answers late or lost |

Each property of a run has a mutant in `PROJECT.json`: an operator named
`Slip...`, placed before the one it distorts, with which the run fails.

Several properties are stated with the condition under which the code can keep
them, written in the property: an order of sending in the worlds where no
change goes past the queue, "one request at a time" in the office, fixes that keep
coming, a start that did not come within the minute, or a history variable that
holds what the code is known to lose (`undone`, `reopened`, `dropped`, `skipped`,
`overtaken`, `lapse`).  Section 6 says what happens otherwise.

**Deadlock.**  Reported in the assignment run.  Elsewhere a bound (changes, files,
requests, stops) lets a behaviour come to rest, and the configuration switches it off.

**Fairness.**  Weak fairness of a handler's next step: Node runs every started
handler on, and a database call either answers or throws.  Restart, repair and
the passage of time are weakly fair.  In the app, storage answers, code that was
awaited goes on, and of the requests that a drain sends again and again not all are
lost (strong fairness; each ends within 15 seconds).  Nothing is assumed of when a drain
starts: `SavedIsSettled` is about a connection that comes and goes for ever, and
allows the queue to stay behind a change that the server keeps refusing.  A call of the
app ends or meets a 401; of a renewal's request nothing is assumed, since it has no
timeout, and `CallsSettle` says what it keeps waiting.  In navigation, requests are
answered or time out after 20 seconds; that fixes come is the hypothesis of
`UnguidedIsTemporary`, not an assumption.  A provider answers or refuses within 8
seconds.  Nothing is assumed of what users ask for.

## 4. Proofs

Eight modules hold the theorems.  Each is about every value of the constants:
any number of requests, deliveries, beats, accounts, files, and all the worlds and
faults the "Under" column leaves in.  A property that is stated by a theorem is
also checked by TLC in the run that lists it; the theorem says that the bounds of
the run did not matter.

| Module | Theorem | Under | Says |
|---|---|---|---|
| `DeliveryLifecycle_proofs` | `TypeCorrect` | - | `TypeOK` |
| | `ProofBeforeDelivered` | - | `DeliveredHasProof` with every fault |
| | `AttemptsAreBacked` | - | `AttemptsAreRecorded` with every fault |
| | `ProofRowHasFile` | - | `ProofFileStored`, with overlapping uploads and every fault |
| | `FinishedAreListed` | no "abort" | `FinishedIsListed`, requests overlapping |
| | `SerialStatusMovesAlongTable` | one request at a time | `StatusMovesAlongTable` |
| | `SerialImplementsMachine` | one at a time, no "abort" | `ImplementsMachine` |
| | `SerialStrandsNothing` | one at a time, neither fault | `NothingIsStranded` |
| `OfflineSync_proofs` | `SavedChangeIsKept` | - | `NothingSavedIsLost` |
| | `DroppedIsReported` | - | `RejectionIsReported` |
| | `RefusedIsNotApplied` | - | `ConflictIsReal` |
| | `AppliedIsWhatWasTold` | - | `AppliedAsTold`, whatever the office does |
| `Assignment_proofs` | `WaitingStaysVisible` | - | `WaitingIsVisible`, requests overlapping |
| | `SerialCopyAgrees` | one request at a time | `CopyAgrees` |
| | `SerialParcelsFollow`, `SerialRosterIsFollowed` | the same, nobody reports ASSIGNED | `ParcelsFollowBeat`, `RosterIsFollowed` |
| | `SerialLeavesAlone`, `SerialFinishedIsFinal` | one request at a time | `LeftWithWhoeverHasIt`, `FinishedIsFinal` |
| | `SerialVerdictIsTrue` | one request at a time | `VerdictIsTrue` |
| `ImportConfirm_proofs` | `ConfirmRunsOnce`, `ClaimIsGivenBack` | - | `OneRunAtATime`, `NotWedged` with every fault; what an error outside the `try` drops is excepted |
| | `OneRunWhileProcessing`, `ConfirmedStays` | - | `ProcessingIsOneRun` with the same exception, `ConfirmedIsFinal` |
| | `RowsAreAccounted` | - | `EveryRowAccounted` |
| `RoutePlanner_proofs` | `LockSerialises`, `StoredRouteIsReused` | - | `OneAtATime`, `NoNeedlessPlanning` with failures and crashes |
| | `AnswersAreComplete`, `StopsKeepTheirOrder` | - | `AnswerIsComplete`, `RemainingStopsStay` |
| | `DirectionsAlwaysFit`, `GuidanceStaysOnItsStretch` | - | `DirectionsFit`, `StaysOnItsStretch` (`Navigation`) |
| | `PlacesStaySound`, `RepeatsDoNoHarm` | - | `PlacesAreSound`, `RepeatsAreHarmless` (`Geocoding`) |
| `RoutePlan_proofs` | `EstimatesStayHonest` | - | `EstimatesAreHonest` |
| | `SearchStaysSound` | - | `SearchIsSound` |
| `Sessions_proofs` | `SessionsTypeCorrect` | - | `TypeOK`, and no token is anywhere, on a call either, before it was issued |
| | `PeopleStayApart` | - | `AccountsStayApart` |
| `Administration_proofs` | `MatchesStayCurrent`, `OverlapsStayDecided`, `PostmenAreToldWhatHappened` | - | `MatchesAreCurrent`, `OverlapsAreDecided`, `ToldWhatHappened` |
| | `SharedLocalitiesAreNotGuessed` | - | `SharedLocalityIsNotGuessed` |
| | `StaffRecordsStayTrue` | - | `StaffRecordsAgree`, sign-ins and renewals in every world |
| | `WhatIsShownIsImported`, `WhatIsListedIsFound` | - | `ShownIsImported`, `ListedIsFound` |

A dash means the assumption of the model's own module only; the conditions that
`MatchesAreCurrent`, `AccountsStayApart` and others carry in their statement stay
(section 6).

**Assumptions.**  `LifecycleAssumption`, `AssignmentAssumption`, `ImportAssumption`,
`RoutePlannerAssumption`, `SessionsAssumption`, `NoticesAssumption`: a null is no
member of the set whose null it is (`Nobody`, `NoKey`, `NoId`, `NoOne`), bounds are
numbers, what the worlds name exists, the rows of a file and the deliveries of a
postman are finitely many.  `GeocodingAssumption`: pauses are numbers, and the rows
there are at the start claim no more than they know.  `NavigationAssumption`: what an
engine answers is a route, that is, each of its steps has a point (so do those of OSRM, of
which the last has one) and its line runs along the axes, as all of `RouteProgress` has it;
without a street engine the straight line to the door is one.  `OfficeAssumption`: areas that
overlap do so from both sides, a parcel is no neighbour of its own, and the list is a list
of rows.  `MatchingAssumption`,
`WordsAssumption`: how near two spellings are is a number of hundredths, the office's area
has a name; what is compared are rows of words, the parts of a letter are not empty (as
`normalizeAddress` leaves them), there are finitely many beats, localities and main areas,
and the weights of words are numbers for every directory that can be made of these.
`WizardAssumption`: a file is a grid or cannot be read.  `RoutePlanAssumption`: caches
and rounds are lists, the stops of a round have a load, a service time and a priority that
are numbers, what is cached at first has a road, roads and estimates take times that are
numbers, an engine takes at least one point, limits are numbers.  `RouteCostAssumption`,
`RouteSearchAssumption`: the weights and the bounds of epsilon are numbers, the unit of
the weights is not zero and there is at least one round.  TLC evaluates every one of
them on the run of its module.

### The inductive invariants

*DeliveryLifecycle.*

* `RowsOK` and `Handlers`: types, per handler, plus what its step implies about its
  locals (one that writes has read an allowed transition).
* `ProofCarried`: a handler past checkProof towards DELIVERED finds a proof row,
  and proof rows are never removed.  `DeliveredHasProof` alone is not inductive: nothing
  in it speaks of the handler about to write.
* `FilesInv`: the row's file exists or was undone, and no handler holds it as the file
  to remove: a handler that replaced a file has put its own in the row, and keys
  are never issued twice.  A clean-up before the upsert removes a file that no row
  names; one after it, the file of the handler itself and of no other.
* `StillAsRead`: with one slot, what the handler read is what the row holds.
  This is exactly what two overlapping requests break.
* For the attempts: the handlers that still owe one (past the write, before the
  attempt) are counted, and what is recorded and owed never exceeds what was written.

*OfflineSync.*

* `Held`: a saved change that is not settled is in storage, in
  memory and in *every* write on its way, and a change whose write is on its way is in
  that write and all later ones.  Storage alone is not inductive: an older queue
  written later would take the change out again.  Only without "slowRead": `hydrate`
  puts an older queue into memory (section 6).
* `Told`: a change is in one place only, so a change that is refused has not been
  applied by a copy of it; where answers get lost this is false, and
  `ConflictIsReal` says so.
* `Tidy` and `Past`: the drain's snapshot holds the oldest of the queue, no copy of the
  queue is ahead of it but the ones the drain's own write is to replace, and what was
  applied is older than everything that waits for the same delivery.  A change that was
  applied and still waits, its answer lost, finds the delivery where it would be
  refused, or the office has reopened it: a FAILED whose answer is lost, then
  RESCHEDULED and OUT_FOR_DELIVERY by the office, is accepted once more.

*Assignment.*

* `Listed`: every parcel that ever waited is accounted for (by hand, by an
  exception, or with a postman), this stays so, and what a transaction is about
  to write concerns only such parcels.  That is why it is safe however old its reads
  are.  A parcel nobody has matched may be declared SORTED by hand through
  `POST /deliveries/:id/status`; it then waits without an exception, which is the
  condition in the property (for ASSIGNED by hand, in `SerialParcelsFollow`).
* `Serial`: with one request at a time a job's reads are
  still true at its write; for a re-sync, that what it leaves follows the
  rosters it leaves.  Section 6 says what breaks without it.
* `VerdictsTrue`: the reasons a parcel is listed with explain it as it is, and a
  job about to write holds parcels that are on the beat it writes about.  With
  overlapping requests a re-sync may add NO_POSTMAN_ASSIGNED to a parcel that has
  lost its beat meanwhile.

*ImportConfirm.*

* `Claims`: an import has one owner from upload or claim to its end, is
  PROCESSING or CANCELLED meanwhile (CONFIRMED while the audit is written or fails),
  and until the first stop of the server PROCESSING implies an owner, unless an
  error outside the `try` dropped it.
* `Books`: a row that counts as imported is a delivery; a row that counts as a
  duplicate repeats a delivery or an earlier row; a run that confirms still has every
  valid row before it, unless the import was re-mapped under it (`lapped`).

*RoutePlanner.*

* `Chain`: no two requests wait for the same one, nobody waits for
  the end of the chain, everyone waited for is there.  With the lock free its
  last conjunct says that nobody works, so no order along the chain is needed.
* `Planning`: what a request is about to store lists each of the deliveries it read
  once, and what a GET has read of the stored route is still stored, because nobody else
  works; so a route that lost stops is pruned and never ordered anew.

*Sessions.*  `Rotations`: a refresh token that was exchanged is still stored only while
the answer with its successor is being saved or was cut off, so a renewal that
presents it again is one the server is right to refuse.  `Owners`: whose changes the
phone holds at each step of a sign-in, a sign-out or a new password; somebody is shown
only when the changes are theirs (`Ours`).  `Pushes`: a registration that counts as done is
that of the account shown, no other is under way, and the phone is dropped only while a
sign-out waits for it.  `AccountsStayApart` speaks of the moments at which somebody is shown;
what makes them safe happens in the steps between.

*Guidance.*  The hook's step is a chain of effects on one record, so the invariant
`NavOK` speaks of that record and each effect is a lemma about it.  `Modal`: a request
that is still the latest and started at a fix is for the mode of now; a change of mode
sends another one at once because there is a fix.  `Settled`: where progress is
known there is a fix, and no first fix is waited for, so the next fix moves progress on
and no effect leaves it behind the fix.  `Along`: progress is the place of the last fix on
its stretch.  That the postman does not jump follows from this: his stretch, being as
close as any other, costs its distance only, since along it he moved no further than his
fixes did, and the stretch that is chosen costs no more.  The attempt to prove it
showed that it holds from one *fix* to the next, not from one step to the next: an
answer with the same directions starts progress anew, from nothing.

*Geocoding.*  `Served`: what is in a cache, on its way to one, or about to be
written is as good as it says.  `Paced`: how long ago the last request went out, seen
from each call that waits.  `Alone`: in the worlds with one call, only that call is
between its steps, so it does not overwrite a located address.  A learned address can
still become FAILED when reading what was learned fails and no provider is configured,
which is a condition of `RepeatsAreHarmless`.  `Taught`: the samples a fix was judged
against are still there when it is stored, and are all there are unless deliveries overlap.

*Travel times.*  `Fetching`: every leg with a road is, for a request that waits, fresh
in the cache or among what it will still be told, or the request has been told that
entries may be gone.  It rests on two lemmas.  `MissingIsAsked`: whether rows and
columns of a greedy cover or blocks of the whole matrix are asked for, every missing leg
is in one of the answers; the block that is left out, of one point with itself, has no leg.
`StoreFacts`: while the cache has room for all of an answer, no insertion evicts, so what
was fresh stays so.  `Given`: what is estimated in a matrix that counts as one of the
engine's has no road, or the clock moved on while it was read.

*The search.*  `RouteInv` adds to this that only pairs with a road are cached (`PairsOK`),
so that the problem a search begins with has numbers for times, and `SearchOK`, which says
of a search in any phase: both routes of 2-opt are made of one block for each cluster
(`IsTiled`), the second is no dearer than the first, the routes of ALNS have every stop
once and, with `preserveClusters`, its clusters together (`IsOrdered`), the best of
them is no dearer than that of 2-opt, and a pass that found nothing left nothing to find
(`IsConverged`).  What makes it inductive is what each operator keeps, for any
route: DBSCAN puts every stop in one cluster; a reversal within a block or of a run of
blocks is again a tiling; after any removal the places a stop may be put are those at
which no cluster is split, and there is always one (`RepairFacts`); a route cut where the
cluster changes gives back its clusters (`RunsFacts`).  `IsConverged` is about the last pass
over the stops *and* the last one over the blocks: with the first alone, a reversal of
blocks could have made one inside a block worth while again.  The cost of an insertion
(`InsertionExact`) follows from what each of the later legs gains: they are reached later
by the same time, with less on board by the same load.

*The office.*  `Current`: the cached directory, and one that has been loaded and not
cached yet, is that of the beats unless an invalidation is still to come.
`Decided`: with one request at a time, what a request has found out about overlaps is
true when it writes, and no list holds a territory that was never drawn.  `Matched`:
a parcel that waits is one whose beat cannot be told (`Unknown`: not by its words and
place, nor by its neighbours unless one of them moved since), or one a request or a sweep
has still to look at; what was read of the neighbours is true until one moves.  `Announced`: what is told, in a batch or about to be
announced adds up to what was committed.

*What is guessed.*  `Typed`: what is listed of the beats, and what a request will write of
them or an import has gathered from the rows, are localities and names; so what is read
into the directory lists rows of words (`IsListing`).  The rest is about one letter and one
such directory (`NotGuessed`).  A row that matches at all shares a word with the letter
(`FieldFits`: a part of the letter, words in a row, or a share of the words' weights that
is not zero), so it is one of the localities the winner has in the letter, and the other
beat has it too; by the locality, the locality field, the office and the pincode both rows get
the same points, and the winner's main area adds nothing because it is not mentioned
(`ScoreGrows`); the row that part of a longer locality drops is dropped for both
(`IsKept`).  So the other beat has a candidate with as many points, the winner is not
ahead, and the level is AMBIGUOUS at best.  That points are whole and rounded, and capped
at 100, matters: rounding keeps the order (`RoundedIs`).

*The staff.*  `Pictures`: a picture that is saved and not shown yet is known to its
request only, and one about to be removed is not the one shown; this holds with
overlapping requests.  `OneAtATime`: what the only request has read is still so, and
the folder holds its picture and the one shown.  `Follows`: for who is INACTIVE, a token
that is live or on its way was on its way when the others were revoked; of live tokens alone
this would not be inductive, as nothing would speak of those still to be issued.

*The wizard.*  `OneAwaited`: two answers awaited at once are about lists that are
astray, as is a list that is shown while the answer for another is awaited.  For any
other list there is one answer at most, and what is shown is what the server holds or
will be once that answer is heard (`ShownIsHeld`); so the list that a confirm reads
again has the columns that were shown (`ConfirmedIsHeld`), and its check gives the same
beats if the beats are the same.  `ImportedIsThere`: beats only grow, so what an import
wrote is there at its answer.

### Induction over data

The library's induction rules cannot be used (they take an operator).  Where a
result is about the rows of a list, the recursion is a function over `0..n` (`Importable` in
`BeatList`), its existence is proved from the well-foundedness of finite subsets, and
the induction is the least row at which the claim fails (`HasLeast`, `RunExists`,
`AllAdded`).  In the same way the weights of a phrase (`Total`), the joined parts of a
letter (`FlattenSeq`), `Drawn`, `Joined` and `Cumulative` (`RouteProgress`) are
followed term by term, vertex by vertex and step by step, and the cheapest stretch, the root of a
distance and the closest one exist because numbers have a least one.  Concatenation, the greedy cover and
the insertion of an answer into a cache (`RoadMatrix`) are followed likewise, and so is
every sum, filter, pass and repair of the search: a run of a
recursion that stays in a set exists (`RunWithin`), and a claim that goes from one value to
the next holds of the last.  The least of finitely many stops, fractions or
insertions exists because a total order on a finite set has one (`LeastOfFinite`).

**Only model-checked.**

* Liveness (`TriggersArePublished`, `SavedIsSettled`, `EventuallyMatched`,
  `EveryRequestAnswered`, `CallsSettle`, `EveryLookupEnds`, `UnguidedIsTemporary`):
  needs fairness and ENABLED.
* Of the pure algorithms: `BeatMatching` beyond what a match shares with a letter and how
  the points of two rows compare, `BeatFile`, and of `RouteProgress` what is not about the
  place on the line (arriving, leaving the route, the current step).

Every invariant and every action property of the runs is proved.

## 5. Plan

Done: the modules of section 2 and the proofs of section 4.  What would come next:

1. An abstract office that `Assignment` and `BeatOffice` both implement with one
   request at a time; `ImportConfirm` over it.
2. The cached lists of the app's screens (react-query) against the queue.

## 6. Known divergences

Met while modelling; each is the reason for a condition in a property or for a
choice of worlds in a run.

* Status: two overlapping status requests both read the old status and both
  write (`deliveryStatus.service.ts:59`), although the file's head speaks of "the
  ONE place" that validates (`:8`): the move recorded last need not be allowed
  from where the delivery is.
* Proof: if a call after the upsert fails, the clean-up removes the file the row
  now names, which the property excepts as `undone` (`deliveryProof.service.ts:76`); overlapping first uploads leave a
  file without a row (`:54`); a handler cut off between the status update and the
  history row leaves a finished delivery in no list.
* App: a second mount hydrates again and puts an older queue over a newer one
  (`useOfflineSync.ts:22`, `useDeliveries.ts:110`), although the hook is meant to
  run once (`useOfflineSync.ts:8`); a change made online goes past what waits in
  the queue (`useDeliveries.ts:94`); a change whose answer was lost is reported as
  a conflict although it was applied; a proof the server refuses with 409 is tried
  for ever; a rejection is dropped silently when reading the server's record
  fails too; an online event during a drain that is breaking off does not start another, and
  while the connection holds nothing but the button starts a drain
  (`useOfflineSync.ts:22-38`); a FAILED whose answer was lost is applied twice if the
  office reopens the delivery before the retry.
* Sessions: the renewal's request is sent without the client's timeout
  (`axiosClient.ts:35`, compare `:9`), so one that hangs keeps every later 401
  waiting, and a sign-out that has to drop the phone first.
* Assignment: the checks of `overrideAssignment` and `syncBeatDeliveries` are not
  repeated in the transaction, so overlapping requests reassign a parcel that was
  just finished (`assignment.service.ts:653`), pull back one that was just taken
  out (`:532`, `:338`, against "must never be pulled back", `:463`), leave parcels
  with a roster that has changed (`:552`) or let the copy in
  `Postman.assignedBeatId` differ (`:415`); a rescheduled parcel keeps the postman
  of its old beat (`:284`); an override may name a beat without postmen (`:690`); a
  postman ON_LEAVE keeps the login (`postman.service.ts:21`);
  `backend/PERSISTENCE.md:22-25` speaks of one postman per beat although the index
  was dropped; an exception a person ignored leaves the waiting parcel unlisted
  until the next verdict.
* Import: a stop of the server leaves the import PROCESSING
  (`import.service.ts:336` is never reached), and so does a database error in an upload
  (`:57-126`), between the claim and the `try` (`:222`) or in the `catch` (`:336`), against
  "if the whole run fails the import returns to PREVIEW_READY" (`:208`); only a cancel ends
  that, and a cancel while rows are written is accepted (`:349`); a restart within a minute
  skips what was just saved, and nothing matches it later (`assignment.service.ts:630`);
  after a failed run a re-mapping counts rows already imported as duplicates (`:164`).
* Route planner: correcting the address of a stop that was left out does not
  bring it onto the route until the next change or recalculation.
* Pipeline: 2-opt answers CONVERGED after its five rounds, and the pass over
  blocks ends after a hundred, although moves may remain; a pair that expires or is
  evicted while the table is fetched is reported as having no road, and
  `assembleFromCache` may then estimate silently (`routing.ts:243`, `:363-373`).
* Beats: a territory that overlaps by up to 25 m2 needs no acknowledgement but
  verification looks from 1 m2; activating a beat looks at no overlap and
  deactivating it matches nothing again (`beats.routes.ts:362`; compare
  `assignment.service.ts:597-598`); confirming a list invalidates and matches the
  office of the list only; `loadDirectory` has no order, and a beat's name takes the
  pincode of its first row; a directory read before an invalidation may be cached
  after it, for 30 seconds at most; a parcel that waited because no postman of the beats
  around it had one close by is not matched again when one comes
  (`assignment.service.ts:489-513`).
* Beat lists: a confirm and a cancel that overlap leave a list imported although
  CANCELLED, or CANCELLED although imported (`beatImport.routes.ts:188`).
* Notices: batches live in memory (compare "Nothing is kept in memory across
  restarts", `server.ts`), and nothing calls the flush at shutdown that
  `postmanNotifications.service.ts:71` speaks of; a match announces from the postman
  it read at its start.
* Geocoding: overlapping calls exceed one request per pause
  (`NominatimGeocodingService.ts:11-13`); an area-level place is answered from its
  own row or memory on every retry; of an address without an area the pincode's centre
  is stored as AREA (`NominatimGeocodingService.ts:67-71`); the database cache ignores the second line and
  the area; "Retry Geocode All" takes pins at house level for eligible; a failed
  retry that overlaps can turn a located address into FAILED; "Never throws" holds
  but for the database.
* Learning: overlapping deliveries to one address store a median without the
  other's sample, or lose a sample when both create the place
  (`addressLearning.service.ts:34`).
* Navigation: without a fix and without an error the screen may stay LOADING
  (`useTurnByTurn.ts:75`, `:117`, against `TurnByTurnStatus.tsx:18`); a mode that is
  switched while a request without a fix is under way shows the old mode's answer
  until GPS reports; after a U-turn on an out-and-back lane progress stays on the
  outbound stretch; progress and arrival of the old route may be set once more in
  the commit that changes the mode; a postman who stands still keeps the straight line,
  since GPS reports movement only and a retry needs a fix (`useTurnByTurn.ts:114-139`,
  against `:12-13`).
* Staff: the accounts page creates and enables a login whatever the postman's
  status (`users.routes.ts:69`, `:106`, against `postman.service.ts:8`); overlapping
  picture changes or a stop leave a file nobody names; a parcel assigned between
  the counts and the deletion loses its postman; a sign-in or a renewal that is under way
  while the postman is deactivated leaves a live token (`auth.routes.ts:35-48`,
  `auth.service.ts:77-95`), which every later renewal exchanges without looking at
  the status, against "the device can no longer renew its session"
  (`postman.service.ts:8-10`).
* Wizard: a list replaced by a second upload, or whose modal is closed while it
  uploads, stays open on the server (against `UploadBeatListWizard.tsx:141`); a file
  dropped while an answer is awaited (`:146`), or a lost answer to a mapping, makes
  what is imported differ from what is shown (`:60-63`), as does the one busy flag, which
  whichever answer comes first takes back (`:91`, `:105`, `:136`); row numbers of CSV and PDF
  files with blank lines are not the spreadsheet's (`beatListImport.ts:38`).
* Screens of the app, read but not modelled: after a drain only the list and the
  route are read again, not the statistics nor an open delivery
  (`syncService.ts:50-53`); the list is one page of the hundred oldest deliveries,
  finished ones included (`deliveryApi.ts:8`, `me.routes.ts:117-127`); the
  statistics count RECIPIENT_UNAVAILABLE as remaining while the list calls it failed
  (`status.ts:66`).

## 7. Not modelled, and why

* Wording, formatting, logging, audit rows (except where a failing one has a
  consequence), HTTP parsing and validation of bodies, roles.
* The repair's `take: 500`; a match that throws inside an import run is repaired
  only at the next start, and the number of successful rows of an earlier failed
  run is not kept.
* Polygons and distances on the sphere: PostGIS and the haversine formula are
  data of the worlds.  Splitting an address into words, abbreviations, and the edit
  distance behind two spellings: a table in the model.
* The seeded random numbers of ALNS (every choice is possible here), its rewards,
  floating-point tolerances, reported metrics.
* Reports, dashboards, vehicles, maps, research and audit logs: single statements
  without a protocol between them.  The pages of the panel but the wizard, and the
  screens of the app: rendering over react-query caches.
* Image processing, map tiles, push delivery by Expo.
