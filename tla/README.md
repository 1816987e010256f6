# Verification of CPA Manager Plus

TLA+ models of CPA Manager Plus (`src/`), TLC configurations that check them on
small instances, and TLAPS proofs of the results that matter most. The models
are translated from the Go code of the manager server,
`src/apps/manager-server/internal/` (written `internal/` below), and from the
TypeScript panel, `src/apps/web/src/` (written `web/` below).
`PROJECT.json` maps each definition to the lines it stands for.

## 1. The system

The manager server sits beside CLI Proxy API (CPA). It collects usage events
from CPA, stores them in one SQLite database, derives totals from them, archives
and deletes old events, and switches CPA credentials ("auth files") off and on
in response to what the events say. The panel is a single-page application in
the administrator's browser; it edits CPA's configuration through the manager
server, uploads usage exports, and can switch between several instances.

| Component | State it keeps | Operations | Interacts with | What is hard |
|---|---|---|---|---|
| usage event store (`repository/usageevent`) | `usage_events`, `usage_event_identity_ledger` | InsertBatch (preflight, transaction) | collector and imports call it; every derived table reads it | writers race between preflight and commit; identities outlive raw rows |
| permanent hourly aggregate (`repository/usageaggregate`, `worker/usage_hourly_aggregate.go`, `service/usagehourly`) | `usage_hourly_aggregate_v1`, one checkpoint row | CatchUp, RecordFailure, LoadRows | reads the store and marks the ledger; the migration clears it; the archive relies on its checkpoint | reads combine four tables that different transactions change |
| cache-accounting migration (`repository/datamigration`) | checkpoint row, staging table, revision setting | discover, scan, apply, clear | rewrites raw rows, invalidates the aggregate | failure after any batch, two revisions, concurrent aggregation |
| usage archive (`repository/usagearchive`, `service/usage/archive.go`) | runs, references, segments, maintenance lock, segment files, manifest | create, archive, verify, delete, cancel | deletes raw rows the aggregate covers; repairs the monitoring projection | files and database cannot change together; crashes; several runs |
| archive job runner (`service/usage/archive_job.go`) | `requested_stage` and `updated_at_ms` of each run; retry policy and waiters in memory | Submit, loop, stop, recovery | executes archive stages beside the retention worker | callers join and leave between the steps of one execution |
| auth-file mutation coordinator (`service/cpaauthfiles`) | held files, waiting count, wait channel | Acquire, AcquireAll, release | every writer of an auth file takes it | lost wakeups, starvation, cancellation while waiting |
| quota cooldown worker | `quota_cooldowns`, candidate queue | disable, extend, recover, skip, roll back | patches remote auth files under the coordinator | remote effect and local row are not atomic |
| account actions | `account_action_candidates` | candidate, auto-disable, enable, delete, ignore | patches remote auth files under the coordinator | the same, plus a person who decides concurrently |
| usage collector and its control | the popped batch, transport, lifecycle | pop, insert, dead-letter, restart | destructive read from CPA's queue | a crash between pop and insert |
| rollups, projection, baseline | checkpointed derived tables | catch up, rebuild, preserve | read the store; gate the archive | dirty epochs, readiness |
| codex inspection | runs, leases, heartbeats, ownership of disabled files | inspect, act, expire | patches auth files under the coordinator | a lease that expires while its owner works |
| import sessions (`service/usage/import_session.go`) | sessions in memory, a metadata file and a `.part` file each; verified prefixes, the chunk being copied, the running import | create, get, validate, chunk, complete, cancel, expire, recover | browser tabs call it; an import inserts into the event store | files and memory cannot change together; crashes; cancellation during a copy or an import; late requests |
| import upload and transfer view (`web/features/monitoring/services/usageImportSession.ts`, `web/features/usage-maintenance/UsageMaintenanceTransferView.tsx`) | a pointer in localStorage, the current operation of the view | upload, pause, resume, cancel | drives an import session over HTTP | aborted requests that still arrive; lost answers; two tabs with one pointer; another file of the same name |
| provider settings (`web/stores/useConfigStore.ts`, `web/services/api/providers.ts`, `web/features/aiProviders/AiProvidersPage.tsx`) | the shared copy of the configuration with its cached whole and its request in flight; the queue of a section; the page's rows and its lock | toggle, delete, refresh, open, leave | reads and writes CPA's configuration | optimistic edits with rollback; read-modify-write of whole sections; requests that are joined, cancelled or late |
| instance scope of the panel (`web/stores/useAuthStore.ts`, `web/services/api/client.ts`) | the connection, its generation, its abort controllers | switchInstanceScope | empties the shared copy, cancels requests, mounts the page anew | what was asked for on one instance must not reach another |
| quota snapshots, settings, administrator auth, prices, cluster, proxy, HTTP, rest of the panel | see `PROJECT.json` | | | mostly sequential |

How they interact, in one paragraph: the collector calls InsertBatch and then
hands the same events to the automation workers. Derived tables are built from
raw rows by workers with a checkpoint. A worker's checkpoint is the licence to
delete raw rows: the archive deletes a row only if the aggregate's checkpoint is
past it and the ledger says that it is aggregated. The accounting migration
breaks that licence on purpose (it invalidates and rebuilds) and holds the
aggregate worker while it does so. The panel and the import sessions meet only
through HTTP: each side keeps its own idea of how far an upload is, and a digest
of the uploaded prefix is what keeps them in step. Provider settings
and instance scope share the tab's connection: a switch cancels what is in flight,
and the promise callbacks of what was cancelled run afterwards.

## 2. Modules

| Module | Models | Composes |
|---|---|---|
| `UsageLedger` | event store, ledger, aggregate, reads | |
| `UsageLedgerProofs` | theorems about it | `UsageLedger` |
| `AccountingMigration` | the migration of an upgraded release beside the store | `UsageLedger` |
| `AccountingMigrationProofs` | theorems about it | `AccountingMigration`, `UsageLedgerProofs` |
| `UsageHistory` | the abstract promise of the store to its readers | |
| `UsageArchive` | archive runs, files, lock, crash, damage | `UsageLedger`; implements `UsageHistory` |
| `UsageArchiveProofs` | theorems about it, and the refinement | `UsageArchive`, `UsageLedgerProofs` |
| `ArchiveJobs` | the background runner and its callers | (sees a stage as enter, progress, end) |
| `ArchiveJobsProofs` | theorems about it | `ArchiveJobs` |
| `MutationCoordinator` | the auth-file lock | |
| `MutationCoordinatorProofs` | theorems about it | `MutationCoordinator` |
| `AuthFiles` | remote auth files, their locks, requests that fail, users | |
| `QuotaCooldown` | the quota cooldown worker | `AuthFiles` |
| `AccountActions` | candidates, their worker, the administrator | `AuthFiles` |
| `CredentialAutomation` | all who switch a credential, and crashes | `QuotaCooldown`, `AccountActions` |
| `CredentialAutomationProofs` | theorems about it | `CredentialAutomation` |
| `ImportSessions` | the server's side of an upload: sessions, files, crash | |
| `ImportUpload` | browser tabs: upload loop, localStorage pointer, cancellation, what the view shows | `ImportSessions` |
| `ImportUploadProofs` | theorems about it | `ImportUpload` |
| `ProviderConfig` | shared configuration copy, update queue, provider page, change of instance | |
| `ProviderConfigProofs` | theorems about it | `ProviderConfig` |
| `MC*` | instances for TLC | one module each |

### UsageLedger

One action is one SQLite write transaction, because SQLite admits one writer.
An event is its hash; `raw[h]` is the id of its raw row, `ledger[h]` its identity
row, `counted[h]` how many times it has been added to the aggregate, and `agg` the
checkpoint row. `Preflight` is the part of InsertBatch outside the transaction:
what it finds stays in `pending[w]` while anything else may commit, which is
exactly the window the code has. `CommitInsert` claims what is still free.
`CatchUp` has the two branches of the aggregation batch (nothing left, or a
bounded batch). `InvalidateAggregate`, `ClearAggregateRows` and `FinishClearing`
are what the migration does to the aggregate; `AttachRaw` and `DeleteRaw` what an
archive does to the store, with the conditions its SQL imposes. `Reads(h)` is the
multiplicity with which LoadRows counts an event.

Initial states are databases that may hold rows from before the ledger.

### AccountingMigration

Extends the store with the migration's checkpoint (`mig`), its staging table
(`staged`), the set of raw rows with wrong accounting (`wrong`) and the events the
aggregate holds with wrong values (`stale`). The program starts in the previous
release, which had completed revision 2 or was interrupted in it; `Upgrade` is
the installation of the release with revision 3. Every batch is one action, and
`RecordFailure` may follow or replace any of them. The predicate that decides whether
revision 3 has to look again is a heuristic over the columns and the stored JSON:
`Flagged` is the set of rows it selects, and need not be the wrong ones. A wrong row
that it misses is corrected only by a pass that another row has caused.

### UsageArchive and UsageHistory

A run row, its references, its segments and the maintenance lock are database
state; `files` and `manifest` are what is intact on disk; `job` is the invocation
inside `archiveManager.mu`. A crash loses `job` (`Return`, which is also an
ordinary return and an unrecorded failure) and nothing else. A segment file is
replaced (`WriteSegment`) before its row is recorded (`RecordSegment`).
`DamageFile` loses or alters a file at any time.

`UsageHistory` says what the readers are promised: a stored event is counted once
from then on, whether it is archived or not. `KeepsHistory` is that refinement;
the mapping takes an event without a raw row but with a ledger row for archived.

### ArchiveJobs

The runner's loop is cut at each place where the code gives up `runner.mu`:
claim, execute, judge (`shouldRetry`), clear (`ClearRequestedStage`), finish.
Callers submit, wait and give up in between, the retention worker enters stages
of its run by itself (`WorkerEnters`), so does a caller who wants to wait while the
runner is not started or stops (`CallerEnters`; the look at the runner and the
entry are one step), and a cancellation commits before it wakes the callers.
`order` is the order of `updated_at_ms`, which decides whom `NextRequestedRun` takes.
`asked` is the only history variable.

`RequestsAreServed` is what one would expect of the queue, and it is false (section 5):
`Jammed` describes the state in which it may stay. `ServedUnlessJammed` says that there
is no other reason for a request to stay. `AnsweredUnlessJammed` says that every waiting
caller is answered or gives up, with two exceptions: the jam, and a caller who was
overtaken (`Overtaken`). The stage he waits for was completed by another executor, the
retention worker or a caller, before the runner claimed it; then a request for a later
stage dropped the satisfied one, and the runner answers only the callers of the
later stage.

### MutationCoordinator

Everything under `c.mu` is one action. `open` is the set of callers that captured
the current wait channel; `notifyLocked` empties it.

### CredentialAutomation with AuthFiles, QuotaCooldown and AccountActions

`cpa[f]` is the remote auth file: the credential in it and its disabled flag.
`holder[f]` is the mutation lock; what it promises is proved in
`MutationCoordinatorProofs`, so here it is one variable. A change of the remote
flag succeeds, is refused, or takes effect and reports a failure
(`SwitchUnnoticed`). The cooldown worker's `operationMu` is the variable `op`: one
operation at a time, cut at each remote request and each write of a row (look,
disable, persist, undo; enable, verify, mark, redo). The account action worker
and an administrator's request are cut the same way. `row` and `cand` are the two
tables, with the latest row of each file and credential. `by`, `lost`, `until` and
`decided` are history.

Users are assumed to act through the manager's proxy, which takes the lock; a
change in CPA's own panel at the same instant is not modelled, nor a request
that takes effect only after its sender has given up and released the lock.
There is one kind of cooldown owner and one reason for a candidate. An
administrator's request is one at a time; `lockCandidateAction` guarantees that
for one candidate only.

### ImportSessions and ImportUpload

Everything the manager does under `m.mu` is one step; the copy of a chunk
(`CopyChunk`) and the import (`ImportBatch`) run outside the mutex and are steps of
their own, so that every other request can come between. A prefix digest is the
prefix itself (SHA-256 without collisions), so `ReceivedBytes` is its length.
`mem` is the session in memory, `disk` the metadata file, `data` the `.part` file
and `synced` how much of it survives a power loss. `Crash` loses memory, and any
part of the unsynced bytes, and then runs the recovery of `ensureInitializedLocked`.
A write that may fail after something was changed has its failing branch in the action
that ends with it. A metadata write that fails in a creation, in the cancellation of an
idle session or in a completion leaves everything as it was and answers with an error,
which is the same as a refused request and has no branch of its own.

A tab has at most one request on the wire (`call`, `reply`); `HangUp` is an abort,
after which an unread request is dropped or becomes `late` and is served
without a listener. `tab[t].pc` is the answer its upload or cancellation
waits for, `ses` the session it works on, `late` an aborted upload that has yet to
report. All files have one name, size and date, so that only the digest tells them
apart; tabs that have one `home` share a localStorage entry. `acked`, `cancelled`,
`imported` and `checked` are history. All network delay is put on the way to the
server (`Quiet`): a tab reads its answer, or gives it up, before anything else
happens. An answer that arrives later would be indistinguishable to the tab from a
request that was served later. Sessions that older releases left, a rollback of
the `.part` file that fails itself, and the limit on bytes beside the one on
sessions are not modelled. A cancellation is clicked and confirmed in one step, in a view
that shows neither completion nor cancellation: a confirmation dialog that was opened
before the upload completed and is confirmed afterwards still sends its request
(`UsageMaintenanceTransferView.tsx:667-686`), and is left out.

### ProviderConfig

One section of the configuration stands for all of them: each has a queue of its
own and a PUT writes no other. `store` is `useConfigStore`: the shared copy, the
cached whole configuration and the request a caller may join. `ops` is the queue of
`mutateProviderSection`, cut at its GET and its PUT; `wire` holds writes on
their way, which may still arrive after their sender has given up (`TimesOut`,
`Switch`). `page` is the mounted settings page and `mount` tells one mount from the
next; a callback of an earlier mount finds its setters without effect, but not the
shared copy (section 5). The confirmation dialog of a
deletion belongs to the shell, not to the page, and survives a switch. React
effects and promise callbacks run before the next event (`Calm`).

`doubt` is a ghost: it names the copies that overlapping requests may have
spoilt, and that an update was given up without its outcome. `ShowsWhatIsSaved`
excepts them: it is about a tab that stays on its instance, where the next read repairs the
copy. What a switch during a write leaves behind is the subject of `CopyIsOfInstance`
(section 5), which has no exception. Edits in the provider drawer (which take the same queue), the
health-check batch and the websocket toggles are not modelled; nobody else edits
the configuration.

## 3. Checks

| Run | Instance | Shows |
|---|---|---|
| `MCAccountingMigration` | 3 events, one noncanonical; 2 affected; the rediscovery predicate misses one of these and selects the unaffected one; 2 writers that race for one event, scan and apply batches of 1, aggregation batches of 2, 2 invalidations | every live event is read exactly once (`ReadExactlyOnce`); the checkpoint is a proof of coverage (`CoverageSound`); nothing deleted comes back (`NoResurrection`); everything is eventually aggregated (`EventuallyAggregated`); a completed migration leaves no wrong value that its predicate recognizes, and none in the aggregate that the raw row does not have (`CorrectedTotals`); staging and counters agree after any failure and corrections run behind a cleared aggregate (`MigrationConsistent`); the migration completes (`MigrationCompletes`) |
| `MCUsageArchive` | 2 events, 2 runs, 1 writer, segments and delete batches of 1 | types, one stage at a time and raw rows that only leave through an archive (`RunsConsistent`); identities point at their raw rows (`LedgerTracksRaw`); no event in two runs; whole scope; cancellation is never blocked; an invocation deletes only what it found intact when it began, and a stage that has committed is not reported as failed (`InvocationsAreSafe`); refinement of `UsageHistory` (`KeepsHistory`) |
| `MCArchiveJobs` | 2 runs that compete for the lock, one of them the retention worker's; 1 waiting caller, requests in the background and stages executed by callers; 1 fault | the lock is held in a stage only and a cancelled run stays quiet (`RequestsConsistent`); no deletion that nobody asked for (`NoUnaskedDeletion`); no caller waits for nothing (`WaitersAreServed`); unless the queue stays jammed behind an interrupted run, every request is served, refused or cancelled (`ServedUnlessJammed`) and every waiting caller who is not overtaken gets an answer (`AnsweredUnlessJammed`), a crash, a stop or an unrecorded failure included |
| `MCMutationCoordinator` | 3 callers, 2 files | exclusion, no lost wakeup, exact count, AcquireAll is not starved |
| `MCCredentialAutomation` | 1 auth file, 1 credential and an unused one, 3 clock values, queue of 1 | a file disabled by the cooldown worker has a cooldown (`DisabledIsOwned`); an auto-disabled one is listed (`ListedConsistently`); nobody else's disable becomes a cooldown's, and only a cooldown that is still active may enable it (`NoCooldownForOthers`); no pass enables early; every cooldown ends |
| `MCImportUpload` | 2 tabs in one browser or in two, 2 files of 2 chunks, 1 session at a time and 2 in all, 2 starts, 1 cancellation, 1 fault | the session limit across restarts (`SessionsConsistent`); no session mixes two files (`NeverSpliced`); what was acknowledged or cancelled stays so (`AcknowledgedSurvives`, `CancelIsFinal`); a verified upload that shows success was imported (`VerifiedSuccess`); a settled result is not overwritten by an aborted upload (`SettledResultStays`); every upload ends (`UploadsEnd`) |
| `MCProviderConfig` | 2 instances, 2 records, 2 clicks, 3 mounts, 1 failing request | queued updates keep each other's records (`UpdatesKeepOthers`); none reaches another instance (`WritesStayHome`); page and copy end up with what the server has while the tab stays on the instance (`ShowsWhatIsSaved`); the controls come back (`ControlsComeBack`) |
| `MCDeletedStayCounted`, `MCSuccessIsForChosenFile`, `MCRequestsAreServed`, `MCOthersRespected`, `MCCopyIsOfInstance` | as above, or smaller | the five disagreements of section 5 |

**Bounds.** `Hash` has three events where order matters (a batch of two, one left
over) and two where runs, files and crashes multiply the states. Batch and
segment limits are 1 or 2, so that every loop takes more than one round.
`MaxRevision` bounds how often the aggregate is invalidated: a second invalidation
starts from the same kind of state as the first. In `MCUsageArchive` it is 1: the
aggregate is never invalidated there, because the archive refuses to work while
the migration is incomplete, and because the combination is what
`DeletedStayCounted` shows to be broken. `MaxFaults` bounds crashes, stops and
unrecorded failures; one is enough to leave a run inside its stage with the lock, in front of
the other run or behind it, and to recover. More, and more callers, are the subject of the
proofs of section 4, which hold for any number. `MCArchiveJobs` starts with a fresh run of the
retention worker behind a verified run, and its caller waits for the archiving of the
fresh one only, the stage that both the worker and the others execute. In
`MCAccountingMigration` the second writer inserts one event only, and one event is newer than
the ledger: both only cut down on states. Two runs are needed for everything about the maintenance
lock, three callers for AcquireAll to wait behind a file caller and in front of
another. In `MCCredentialAutomation` one file is enough, because files share nothing
but the worker's attention; a user may upload another credential into it
(`Unused`). Three clock values allow two different reset times, one reported
before or after the other. `MaxId` 1 stops after the first candidate of a
credential is closed. In `MCImportUpload` two chunks are enough to splice, two
tabs to race for one session or one pointer, and two starts for an upload and its
resumption; `MaxId` 2 lets a second session follow a cancelled, expired or
finished one. The single fault is anything: a crash, a lost answer, a late request, a
failing write, an expiry. In `MCProviderConfig` two clicks put two updates, or an update
and a deletion, or an update and a header refresh, into each other's way; three mounts
are a first opening and two switches, there and back. `MCCopyIsOfInstance` needs one click
and no failing request. Every run stays below five minutes.

**Symmetry** is used in `MCUsageArchive` only, over runs and events; the module
orders neither, and its run has no liveness property.

**Fairness.**
- `MigrationFairness`: weak fairness of the aggregation worker, which polls on a timer for
  ever, and of the clearing, which the migration's worker repeats; strong fairness of
  discovery and of the batches. The worker tries again after every failure; that among
  infinitely many tries one succeeds is an assumption about the disk, not about the code.
  The upgrade itself is not assumed.
- `ArchiveJobs!Fairness`: weak fairness of the loop, strong fairness of entering
  and of success (a condition from outside that makes a stage fail does not last
  for ever). Callers are never assumed to ask or to give up.
- `MutationCoordinator!Fairness`: weak fairness of a caller's own steps, release
  included, because every holder defers its release around a bounded request.
- `CredentialAutomation!Fairness`: the clock runs; the process stays up in the end;
  what has begun is carried on (weak, because each request has a timeout); the
  lock is granted in the end (strong: every release wakes all who wait, and nobody loses that race
  for ever); a pass over due cooldowns starts when the worker is free again and
  again (strong: Go's `select` picks the ticker in the end); and among infinitely
  many tries one request and one write succeeds (an assumption about CPA and
  the disk).
- `ImportUpload!Fairness`: weak fairness of copies and imports, which are bounded by
  their file, and of the server's handling and the tab's reading of a request, because
  a request is answered or its connection breaks. No user has to do anything, no fault
  has to happen, and no sleeping retry is needed: the upload stops and shows that it did.
- `ProviderConfig`: weak fairness of `Network`: callbacks run, and requests end, because
  the client has a timeout. Users need not click.

Deadlock is checked everywhere except in `ArchiveJobs`, where a system with
all runs over, nobody waiting and no faults left may stop, and in `ImportUpload` and
`ProviderConfig`, where the users may have nothing more to do.

Each run has one type invariant at most, joined with the plain consistency
conditions of its module. The type invariants of `UsageLedger` and
`MutationCoordinator` appear in no run: they are proved.

## 4. Proofs

`UsageLedgerProofs` proves for any finite set of events, any set of writers and any
limits: `LedgerTypeCorrect`, `ExactReads` (`ReadExactlyOnce`), `CoverageCorrect`
(`CoverageSound`), `LedgerCorrect` (`LedgerTracksRaw`) and `DeletedForEver`
(`NoResurrection`). They rest on `LedgerAssumption` only.

None of these is inductive by itself. The inductive invariant `LedgerInv` adds
what the code never states: the checkpoint and its target never pass the
AUTOINCREMENT counter (`IdsBounded`), a ledger row's revision never exceeds the
table's and is smaller while the table is being cleared (`RevisionsLag`), and
outside a clearing phase the table counts an event once if its identity says that
it is aggregated under the current revision and not at all otherwise
(`CountedMatches`). With the ledger's revision as the tie-breaker between stored rows and the raw
tail, `ReadExactlyOnce` follows state by state; `CoverageSound` is preserved because
a batch takes every live id up to its last one. An id that is assigned later is
larger than the checkpoint, which is why the bound by the counter is needed.

`AccountingMigrationProofs` proves for any finite set of events, any writers, any limits and
any failures: `MigrationStaysConsistent` (`MigrationConsistent`), `TotalsAreCorrected`
(`CorrectedTotals`) and `ReadsStayExact` (`ReadExactlyOnce` under the migration's
specification). `MigrationRunsTheLedger` shows that every behaviour of the store with the
migration is a behaviour of the store, so `LedgerInv` is reused and not proved again.
`MigrationInv` says what the cursor stands for (`PassOK`): the staging table has exactly
the wrong rows up to the cursor, none lies beyond the target of the pass, and the count of
changes is what was applied plus what is staged. Rows that are added during a pass do no
harm, because only the previous release stores wrong accounting and it has left no pass with
a target (`StatusOK`). Where no correction is under way the aggregate holds no live event wrongly
whose row is right (`StaleOK`): every pass that applies a change clears the aggregate.

`UsageArchiveProofs` proves for any finite set of events, any runs, any batch and segment sizes and any
faults: `ArchiveConsistent` (`RunsConsistent`), `NothingArchivedTwice` (`ArchivedOnce`),
`ScopeIsWhole` (`WholeScope`), `CancelIsPossible` (`CancelNeverBlocked`), the action
property `SafeInvocations` (`InvocationsAreSafe`), and `ArchiveKeepsHistory`: the archive
implements `UsageHistory`. `ArchiveInv` extends `LedgerInv` and says what an invocation
finds and leaves behind: a live reference names the raw row it was taken from, and a
deleted one stands for every known event without a raw row (`RefsOK`); a run's references are the
events of its segments, which share none (`SegmentsOK`); counters and status agree
(`ProgressOK`); and at most one run has still to archive (`EarlyUnique`), so that nobody takes
events out of its scope. That a batch has a first and a last id, and is not empty while there
is something to archive, needs the least element of a set of numbers, which the library's
well-founded induction gives (`Least`, `FirstRowsExist`). In the refinement a deletion
is the step that is not obvious: the reader goes from the raw row to the aggregate, and `StoreOK`
with the deletion's own condition makes that the same count.

`CredentialAutomationProofs` proves for any files, any credentials, any clock and queue:
`QueueIsComplete` (`ListedConsistently`), `DisablesAreOwned` (`DisabledIsOwned`),
`OthersStartNoCooldown` (`NoCooldownForOthers`) and `NothingIsEnabledEarly` (`NeverEarly`). They
rest on `CooldownAssumption` and `MaxIdAssumption`. `AutomationInv` says that a file is
locked for an actor exactly while that actor is past its lookup (`OpLockOK`, `WorkLockOK`,
`AdminLockOK`), and that what the actor has seen is then still true (`OpOK`, `WorkOK`,
`AdminOK`), which is a statement about steps of all others. It is made once, as
`AuthEffect(who)`: a step of one actor writes only files that nobody else has locked, in
its own name. Each action is proved to have that effect and to keep its own
actor's part; `CooldownsUndisturbed` and `ActionsUndisturbed` carry the other parts over. The
proof found that `NeverEarly` had been stated for one file only: it blamed the pass for
a file that a user enabled in the same state. It now names the file of the operation.

`MutationCoordinatorProofs` proves for any finite set of callers and any files:
`TypeCorrect`, `MutualExclusion`, `WakeupsAreComplete`, `CountIsExact` and
`AllComesFirst`. The invariant says that the held files are exactly the union of
what the holders asked for (`FieldsMatch`), that a registered caller wants all
files and is in "try", "asleep" or "leaving" (`Registration`), and that
`waitingAll` is the number of registered callers. A sleeper with an open channel could not be served because every step
that makes `canAcquireLocked` true closes the channel, and every other step
keeps it false.

`ArchiveJobsProofs` proves for any finite set of runs, any callers and any number of
faults: `RequestsStayConsistent` (`RequestsConsistent`), `DeletionIsAskedFor`
(`NoUnaskedDeletion`) and `NobodyWaitsForNothing` (`WaitersAreServed`). They rest on
`JobsAssumption`. `JobsInv` adds to the types that the executing stage is the status of
its run (`ExecutesUnderLock`), which carries the lock through callers, crashes and
failures that could not be recorded. `StepMovesRow` then says once what any step may do
to one run: its status stays, enters a stage, ends one or is cancelled (`StatusMoves`);
its request stays, is dropped because it was satisfied, claimed or cancelled, or is
renewed (`RequestMoves`). The other two theorems follow from it without looking at the actions
again: `AskedInv` traces a deletion back through the claim and the request to somebody
who asked, a recovered request included, and a waiter whose request goes is covered by
what made it go. The queue is a permutation of the runs through every reordering
(`MovedKeepsList`).

`ImportUploadProofs` proves every safety property of `MCImportUpload` for any tabs,
files and numbers, from `ImportAssumption` and `FilesFit` (there is a file, and all have
one length). `SessionsWithinLimit` says that at most `MaxSessions` sessions hold disk
space. The limit is looked at in `Create` only, so the proof is that nothing else takes
a place. That needs to know about the disk, which a restart reads back: a session which
it would bring back as one that reserves space has a place already, a cancel request is
on disk before it counts, a running copy or import has the status for it, and an id that
was not given out is free (`SessionSound`).

The other theorems rest on `UploadInv`, which adds three parts to it. `StoreInv` relates
the three places where a session's bytes are spoken of: memory and metadata have the same
digest, the `.part` file holds exactly it, and the chunk under way behind it once copied,
for as long as the session reserves space; what is synced is exactly the digest; the digest
is the beginning of a file, and the chunk under way the next one of a file with this
beginning (`Continues`). Therefore a crash that loses what was not synced loses no digest
(`FileAfterCrash`), and `Recovered` never has to shorten one. What a step may do to one
session is said once (`Moves`): create it, drop it, or add a chunk; none takes up space again,
and what is final stays final. `WireInv` relates a tab to what is on the wire: its request
is the one that it waits for, with the digest of its own file (`Asked`); an answer that says
ok is about the session as the server has it now (`TrueAnswer`, which needs `Quiet`); a chunk
under way answers only tabs that wait for it (`Waiting`), so that a tab which has hung up is
never answered by what it left behind; and a tab that has checked its whole file works on a
session with that file, or on one that will never complete (`Confirmed`). `AckInv` is what
was confirmed to the tabs: with `Moves` no step of the server disturbs it, and with
`TrueAnswer` what a tab notes is what the server has. Then follow `SessionsStayConsistent`
(`SessionsConsistent`), `NeverAMixture` (`NeverSpliced`), `AcknowledgedIsKept`
(`AcknowledgedSurvives`), `CancelStaysFinal` (`CancelIsFinal`), `VerifiedMeansImported`
(`VerifiedSuccess`) and `SettledStays` (`SettledResultStays`): a tab that shows an end waits
for nothing and has no aborted upload left to report (`TabSane`).

`ProviderConfigProofs` proves for any instances, records and clicks, from
`FirstIsServer`, that no update reaches an instance it was not asked for on
(`UpdatesStayHome`, the property `WritesStayHome`) and that an update changes no record but its own
(`UpdatesKeepOtherRecords`, the property `UpdatesKeepOthers`). For the first, `HomeInv`: an update of the queue that may
still send was asked for on the connected instance, because a switch aborts all of them.
For the second, `AloneOnWire`: as long as no outcome is in doubt at most the PUT of the
queue's head is on its way, and apart from its own record and deleted ones it carries
what the server has.

`ProviderTypesHold` (`ProviderTypeOK`) needs an argument about numbers: the model gives
identifiers to requests for the configuration, and the invariant has to know that one is
left. `EnoughIds` counts: requests under way, updates and a due reload were each started
by a mount or a click, and then `FreeId` finds an identifier with the pigeonhole
principle. `SavedIsShown` (`ShowsWhatIsSaved`) rests on `ShowInv`. While the page is not
in doubt nothing is read during a write (`PageInv`), so what a load will put on the page
is what the server has. While the shared copy is not in doubt an update under way finds
there its optimistic outcome (`UpdatePending`), and an idle page the saved rows
(`CopyInv`). What holds both up is the lock: it has one owner, an update or a load
(`OneOwner`). Without it a dialog opened during an update would keep rows that the
rollback of this update outdates, and its deletion would bring them back. `BoundsAreNat` and `NoneIsNothing`
say that the bounds are numbers and that the absent value is neither rows nor a dialog.

Only model-checked: liveness (`EventuallyAggregated`, `MigrationCompletes`,
`ServedUnlessJammed`, `AnsweredUnlessJammed`, `AllIsServed`, `CooldownEnds`, `UploadsEnd`,
`ControlsComeBack`), because reasoning under fairness is outside the proof system.
Every safety invariant and action property that a passing run checks is also proved.
No recursive operator is used; facts that need induction over data are not claimed.

## 5. Where the code and its documents disagree

1. **Archived events vanish from the totals** (`DeletedStayCounted`). Events
   are archived and deleted under revision 2; revision 3 then finds a wrong live row,
   clears the whole aggregate and rebuilds it from the raw rows that are left. The
   user interface promises that "permanent aggregated metrics remain intact".
2. **Success is shown for a file that was never uploaded** (`SuccessIsForChosenFile`).
   An upload that finds its session processing or completed verifies no digest; a
   user who selects another file of the same name, size and date is shown the
   result of the earlier one. The release notes promise that a different file is
   rejected even then. `VerifiedSuccess` is what does hold.
3. **An interrupted archive stage can wait for ever** (`RequestsAreServed`). The runner
   takes the request with the oldest `updated_at_ms`. After a crash inside a stage, a run
   that was requested before the interrupted one last wrote its row is in front of it; it
   is refused, because the interrupted run holds the maintenance lock, and its request is
   kept and taken again at every tick. The interrupted run is never reached. Cancelling
   the run in front ends the jam, but only a previewed or failed run may be cancelled.
   The release notes promise that archive work recovers after service restarts.
   `ServedUnlessJammed` is what does hold.
4. **Auto-restore overrides a disable by somebody else** (`OthersRespected`). A cooldown row
   records that the worker has disabled the credential, and not that it was enabled since.
   A user enables a credential during its cooldown and disables it again, or the account
   action worker disables it after an authentication failure, before the cooldown worker looks
   at it: the cooldown is still active, finds the credential disabled and enables it. The
   manual promises that auto-restore "does not override manual, inspection-owned, or
   authentication-failure disables". `NoCooldownForOthers` is what does hold: nothing but a
   cooldown that is still active enables such a credential, and none is begun for it.
5. **The old instance's settings are shown as the new one's** (`CopyIsOfInstance`). A switch
   cancels the write of a toggle; the rollback runs after the switch has emptied the shared
   copy and puts the old instance's rows there. If the layout's request for the new
   instance's configuration is on its way by then, the rollback also keeps its answer out of the
   copy, and the old rows stay until somebody fetches again. The manual promises that
   "requests and caches are isolated by instance, and an old response cannot overwrite the new
   instance". `WritesStayHome` is what does hold: the update is not written to the new instance.

`PROJECT.json` quotes the lines.

Consequences of the code that the models show and no document denies:
- A synchronous request that arrives between clear and finish stays queued after its
  caller was answered; a background request that arrives between judge and clear
  is cleared with the synchronous one.
- A caller who waits for a stage that another executor completes is not answered if a
  request for a later stage comes before the runner has claimed his: he waits until he gives up
  (`usagearchive/repository.go:441-446`, `archive_job.go:431-443`).
- The confirmation dialog of a provider deletion survives a switch and then deletes on
  the new instance; a deletion between the GET and the PUT of a queued update is undone.
- A toggle clicked while a configuration request is in flight empties the request's
  claim on the shared copy, so a stale answer cannot overwrite it; the page that
  waited for the answer still shows it. A request that begins during a toggle's write may
  be answered from before it, and is then shown and kept.

## 6. Not modelled

The reasons are in `PROJECT.json`, component by component: pure parsing and
arithmetic (event normalisation, prices), presentation (HTTP, the panel's pages, charts
and tables, which read and render), operating-system locks, sequential settings; and the
parts below, which are planned. The panel is by far the largest part of the
repository, and most of it holds no state that outlives a rendering. Within the
modelled parts: buckets and dimensions of the aggregate are
abstracted to a multiplicity, checksums to equality, a cutoff to the set of
events before it; `usage_archive_deleted_coverage_daily`, progress telemetry and
exports are left out, and what sections 2 and 3 name for each module.

## 7. Plan

Modules, in order of importance:
1. `Collector` with its control: what a pop can lose and what it cannot; at most one
   collector runs.
2. `Rollups`: checkpoints with a dirty epoch, readiness, baseline preservation; the
   archive's readiness gate as their client.
3. `InspectionLease`: leases, heartbeats and expiry of codex inspections, and the panel's
   inspection page that follows them.
4. `DerivedCleanup`, `QuotaSnapshots`, and the cluster merge as a pure
   function against a reference definition.

Proofs: for each of them the safety properties that its runs check.
